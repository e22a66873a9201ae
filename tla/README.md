# TLA+ verification of the Dissect daemon

Dissect is a fork of Paseo: a daemon (`packages/server`) that runs coding agents
(Claude Code, Codex, Copilot, OpenCode, Pi) on a developer's machine and lets
several clients (app, desktop, CLI) watch and drive them over a WebSocket or a
relay, together with a comprehension layer ("Dissect" proper) that explains code
and diffs. This directory holds TLA+ models of the parts of the daemon whose
correctness depends on the order of things, the TLC runs that check them and the
proofs of the results that matter most.

Paths below are relative to `packages/server/src` unless they start with
`packages/` or `docs/`.

    tlc -workers 2 -config AgentRunLive.cfg MCAgentRun
    tlapm AgentRunProofs.tla
    tlapm MessageReceiptsProofs.tla
    tlapm CreationJournalProofs.tla
    tlapm CreationSeenProofs.tla
    tlapm DirectorySyncProofs.tla
    tlapm TimelineSyncProofs.tla
    tlapm DissectKnowledgeProofs.tla

## 1. Inventory

The daemon is one Node process. There is no parallelism, so a race is always
between the continuations of async functions: whatever is read before an `await`
may be stale after it. Every model therefore has one action per stretch of code
between two suspension points.

| Component | State | Operations | Talks to | What is hard | What makes it correct |
|---|---|---|---|---|---|
| **Agent run lifecycle** `server/agent/agent-manager.ts`, `agent-run-state.ts`, `agent-prompt.ts` | `ManagedAgent` (lifecycle, foreground and active turn, replacement hold, finalized turn ids, last error), one tracked run, the session-event chain, staging, the steer barrier, the mutation lane | stream, replace, steer, stop; ingest and dispatch of provider events; forced terminals | sessions (calls), provider sessions (`startTurn`, `interrupt`, `steerActiveTurn`, events), the timeline | several clients at once; turns the provider starts itself; answers of the provider before, after or instead of its events; interrupts that time out | one turn of clients at a time; manager and run table agree; a Stop that succeeds really stopped; every call returns; nothing stays busy for ever; order of the timeline |
| **Creation journal** `server/creation/index.ts` | a receipt file per request, claim files, active runs, observers, an admission chain, a receipt queue per request | create, subscribe, the runner, claims, restarts | session.ts (provision, createAgent), registries, clients | crashes between an effect and its record; repeated requests; failing writes; two requests reserving one id | effects at most once; observers see durable, current, advancing snapshots; everyone is answered |
| **Message receipts** `server/message-receipts/index.ts` | a receipt file per message, a chain per key | send | session.ts | the same, for one message | a message is delivered at most once |
| **Directory sync** `server/directory-sync`, `server/agent-updates/agent-updates-service.ts`, `packages/app/src/runtime/directory-sync` | per entity type: values, tombstones, sequence, expiry horizon; per session: queued and buffered updates, a subscription; per app: rows and a cursor, in memory and on disk | replace, remove, replaceAll, reads by cursor; publish, subscribe, refresh | session.ts, the replica of each app | pushed changes race reads; lists read before an update and applied after it; bounded tombstones; restarts of either side | an app that follows the protocol comes to have the directory |
| **Timeline** `server/agent/agent-timeline-store.ts`, `timeline-projection.ts`, `agent-stream-coalescer.ts`, `packages/app/src/timeline` | rows, sequence, epoch; a buffer of deltas per agent with a timer; per app and chat: the range it shows, a catch-up with its retries, requests in flight | append, rewind, reload, fetch by cursor; subscribe; apply pages and rows, catch up, load older, recover gaps | agent manager, session.ts, every app | pages and live rows arrive in any order; epochs change meanwhile; fetches supersede each other, fail, or are cut off; subscriptions are replaced | what is shown has no holes and never goes back; what is called ready is current; an app that stays connected catches up |
| **Dissect store and service** `dissect/store.ts`, `service.ts`, `agent-turn.ts` | a cached state per project, its file, running analyses | analyse file, codebase or diff; before/after snapshots of a turn | LLM providers, git, sessions | each analysis waits minutes for a model and then writes what it began with | no update is lost; results are of the snapshot they name |
| **Dissect knowledge** `dissect/knowledge`, `dissect/spacetime` | what the developer knows, in memory; its file with the writes not yet taken; the client's queue and chain of drains; which projects were hydrated | read, mark (signal), introduce (observe); load, save, hydrate; call the database | SpacetimeDB, the Dissect service | a database that is down, slow or ahead of the file; restarts with writes outstanding; calls overlapping the load | a mark that was answered is kept, known and not overridden by an explanation; nobody waits for the database for ever |
| **Workspace labels** `server/workspace-labels` | a journal over the workspace registry | set, list, replay | registry | partial failure | journal and registry agree |
| **Hub** `server/hub` | relationships, leases, executions | connect, retry, execute, complete | a remote hub | retries, revocation during an execution | an execution is reported once |
| **Schedules** `server/schedule` | schedules, runs | tick, run once, pause | agent run lifecycle | restarts during a run; cron arithmetic | a due schedule runs once |
| **Provider adapters** `server/agent/providers` | one native session each | the `AgentSession` contract | native CLIs and SDKs | foreign processes | the contract of `agent-sdk-types.ts` |
| **Sessions, WebSocket, relay, pairing** `server/session.ts`, `websocket-server.ts`, `relay-transport.ts` | connections, subscriptions | dispatch of messages | everything above | reconnects | handlers call the components above |
| **Worktrees, git, files** `server/worktree-core.ts`, `workspace-git-service.ts`, ... | caches of git's answers | observe, checkout, diff | git, file system | outcomes are data | - |
| **App, desktop, CLI, website** `packages/{app,client,cli,...}` | user interface state | - | WebSocket | - | - |

The hazards of each, at the lines where they bite, are in `PROJECT.json`
("hazards"), with the property that would notice each of them going wrong or the
reason why none does yet.

## 2. Modules

| Module | Models | Status |
|---|---|---|
| `AgentRun` | the run lifecycle of one agent, its clients and the provider session | done, except what section 7 lists |
| `MCAgentRun` + `AgentRun*.cfg` | its TLC instances | done |
| `AgentRunProofs` | type correctness and six safety properties of `AgentRun` | done |
| `AtMostOnce` | abstract: what the daemon promises of repeatable requests | done |
| `CreationJournal` | the creation journal with clients, subscribers, restarts, failing writes; implements `AtMostOnce` | done, except `readLegacyAgent` |
| `MCCreationJournal` + `Creation*.cfg` | its TLC instances | done |
| `CreationJournalProofs` | type correctness, that claims guard resources, and the refinement of `AtMostOnce` | done |
| `CreationSeenProofs` | what the observers of `CreationJournal` are shown | done |
| `MessageReceipts` | message receipts with clients, restarts, failing writes; implements `AtMostOnce` | done |
| `MCMessageReceipts` + `MessageReceipts.cfg` | its TLC instance | done |
| `MessageReceiptsProofs` | type correctness, what an acknowledgement means, and the refinement of `AtMostOnce` | done |
| `VersionedCollection` | the numbered collection with bounded tombstones: pure operators | done |
| `DirectorySync` | the agents' directory from the daemon's registries to the apps: sessions, subscriptions, connections, cursors on disk, restarts | done for agents |
| `MCDirectorySync` + `Directory*.cfg` | its TLC instances | done |
| `DirectorySyncProofs` | type correctness, what a read of the collection gives a reader at any position, and that one app has what the registries have | done |
| `Subsequences` | parts of sequences, by position: pure operators | done |
| `TimelineStore` | the pages of a timeline (tail, after, before): pure operators | done |
| `TimelineSync` | one chat from the daemon's timeline to an app: epochs, subscription, pages, catch-up, retries, faults | done for one chat in view |
| `MCTimelineSync` + `Timeline*.cfg` | its TLC instances | done |
| `NumberLemmas` | least, greatest and n-th of a finite set of numbers | done |
| `TimelineSyncProofs` | pages are complete, a chat has no holes and never goes back, what is known to be missing has someone to fetch it, a chat that is up to date has the last row, one without older history the first | done |
| `SpacetimeClient` | the client of the knowledge database: its queue of writes and its drains | done |
| `DissectKnowledge` | the knowledge service on top of it: memory, file, hydration, marks and explanations, restarts, faults | done, except what section 7 lists |
| `MCDissectKnowledge` + `DissectKnowledge.cfg` | its TLC instance | done |
| `DissectKnowledgeProofs` | marks that were answered are kept and known, explanations do not override them, failing calls keep the order of writes | done |

### AgentRun

A turn is named after the client call that asked for it; `Autonomous` turns are
the ones the provider starts by itself. Correspondence of the state:

| Variable | Code |
|---|---|
| `lifecycle`, `fg`, `active`, `pendingReplacement`, `lastError`, `finalized` | `ManagedAgent.lifecycle`, `activeForegroundTurnId`, `activeTurnId`, `pendingReplacement`, `lastError`, `finalizedForegroundTurnIds` |
| `run` | the agent's entry in `AgentRunState.runs`: none, a pending foreground run, a started one, an autonomous one |
| `queue` | the promise chain of `enqueueSessionEvent` |
| `staged` | `PendingForegroundRun.stagedEvents` |
| `barred`, `held` | the steer barrier and the events it holds back |
| `lane` | `foregroundMutationTails`: the callers of `runForegroundMutation`, in order |
| `settled`, `acked`, `covered` | in `cancelAgentRunNow`: whether the captured run has settled, whether `interrupt()` was acknowledged, and (history) which client turns it covers |
| `pc`, `kind`, `expected`, `ended` | where each client call is, which call it is, the turn a steer expects, whether its waiter saw a terminal event |
| `prov`, `sent`, `answer` | the provider session (external) |
| `timeline`, `history` | the items in the order of the timeline; the same items in the order the provider took and produced them (history variable) |

Actions: `CallStream`, `CallReplace`, `CallSteer`, `CallStop` are the entry points
up to their first `await`; `StartResolved`/`StartRejected` the continuation of
`startTurn`; `EndStream` the `finally` of the generator; `CancelBegin` ...
`ClearPending` the stretches of `cancelAgentRunNow`; `ReplaceResume` the rest of
`replaceAgentRun`; `Steer*` and `Redispatch` those of steering and of its
fallback; `Dispatch` one turn of the event chain; `BeginTurn`, `BeginAutonomous`,
`EmitOutput`, `EndTurn` the provider, as the contract in
`server/agent/agent-sdk-types.ts` allows it to behave.

`PromptTasks` says how the event loop schedules. Promise continuations that are
ready run before the next message, timer or provider event is looked at, so with
`PromptTasks = TRUE` those wait for `TasksSettled`. Some continuations await the
durable stores in between (the timeline append, the state file); `agent_order` and
`agent_late_fallback` therefore use `FALSE`, which allows every interleaving and
includes all of the others. The runs that look for a quiet agent and for progress use
`TRUE`, the scheduling of the event loop itself; the safety properties checked in
`agent_live` are proved for either value (section 5).

### CreationJournal

| Variable | Code |
|---|---|
| `disk`, `claim` | the receipt files and the claim files; `Torn` is a claim file that was created and not filled (`writeFile` with flag `wx` failed or was cut off) |
| `there`, `times` | which workspaces and agents are registered; how often each stage of a request took effect (history) |
| `ops` | `receiptOperations`: the users of a receipt, in order |
| `at`, `mem` | where the runner of a request is (`active`), and its record in memory |
| `admission`, `adm`, `draft` | the admission chain, where its first call is and the record it works on |
| `call`, `sub`, `seen` | the create calls, the subscriptions, the last snapshot each was shown |

The effects themselves (`provision`, `createAgent`, the prompt) are external: they
may be refused, fail halfway or succeed, as the handlers in `server/session.ts`
that implement them may. `Crash` drops everything but files and resources.
`AtMostOnce` is the promise made to a client that asks again; the refinement maps
`outcome` to what the receipt on disk says, and `times` to itself.

### MessageReceipts

| Variable | Code |
|---|---|
| `receipt` | the receipt files, replaced atomically (`atomic-file.ts`) |
| `chain` | `pending`: the promise chain of the sends of one message |
| `call` | where each send is in `sendOnce` |
| `delivered` | what the agent was given (history) |

`Read` ... `Commit` are the stretches of `sendOnce`; `Deliver` is the moment at which
the prompt reaches the agent, somewhere within `input.send`, which may return or throw
after it or throw without it. A restart empties the chains. In the refinement of
`AtMostOnce` the only stage is the delivery, and `outcome` is what a client that sends
again is told once it is its turn: a pending receipt that nobody works on means
"unknown", so a restart may give up several messages in one step.

### DirectorySync

| Variable | Code |
|---|---|
| `dir` | the agent registries: whether an agent is active, archived or deleted, and its version (its `updatedAt`) |
| `gen`, `coll` | `DirectorySyncService`: the generation of the daemon process and its `VersionedCollection` of agents; `coll.past` is history |
| `tails` | the per-agent chains of a session's updates (`agentUpdateTails`) |
| `sub`, `pending`, `list` | a session's subscription: none, asked for, its list read, live; what is buffered until the reply; the list read for the reply |
| `wire` | messages sent and not received, in order |
| `replica`, `cursor`, `disk` | the app's rows and cursor, and both as last written to its database |

`LookUp` and `Publish` are the two halves of publishing an update (what is awaited in
between is the registry); `Ask`, `List`, `Sync` the three of answering
`fetch_agents_request`; `Receive` is `onMessage` of the app with the write of rows and
cursor, which a restart may lose. `Disconnect`, `AppRestart`, `DaemonRestart`,
`FetchFails` and `Refresh` are the faults.

### TimelineSync

A row is a number and the number its item began with: a delta changes an item that is
there, and pages count items, not rows (`TimelineStore`).

| Variable | Code |
|---|---|
| `logs` | the agent's timelines in `InMemoryAgentTimelineStore`, one per epoch; all but the last are history |
| `sub`, `acked` | the subscription of the app's connection (`timelineSubscriptions` in session.ts) and whether the app knows of it (`acknowledged`) |
| `wire` | what the daemon sent and the app has not taken: acknowledgement, rows, replacements, pages |
| `chat` | the app's timeline of the agent in session-store.ts: synchronized, the range and rows it shows, whether older rows can be loaded, whether newer ones are known to be missing (`hasNewer`: live rows are then ignored) |
| `owner` | `createViewedTimelineSync`: the catch-up (`catchUps`), the parked request (`pendingCatchUps`), what the user is told, `forcedTailReplacements`, the requests in flight (`fetchAgentTimelineOnce`) |
| `missed` | history: live messages were dropped since the last fetch was answered ("now"), or before it ("before"); an answer that is lost in its turn, or a replacement's tail, counts as dropped |

`Commit`, `Rewind`, `Reload` are the agent's side; `Subscribe` and `Serve` session.ts;
`ReceiveRow` the sequencing gate of session-stream-reducers.ts; `ReceivePage` the whole
of `applyTimelineResponse` and of the continuation that waits for the page;
`Switch` a change of the set of open chats, which replaces the subscription.
`Disconnect`, `Restart`, `FetchFails` and `Wake` are the faults. Answers come in the
order of their requests: every request awaits the same path, which is in memory once
the agent is loaded.

### SpacetimeClient, DissectKnowledge

| Variable | Code |
|---|---|
| `remote` | the rows of SpacetimeDB: the familiarity of each concept and component |
| `queue`, `drains`, `waits` | `HttpSpacetimeClient.pending`; how many drains of `drainChain` have not ended; how many of them a call that flushes still waits for |
| `file` | `knowledge.json`, replaced atomically |
| `writes`, `snap` | `writeQueue`, and what its first save is writing (it serialises the state when its turn comes) |
| `cur`, `known`, `outbox` | `this.state`, and for each state object that was ever read its familiarities and its `pendingSpacetimeWrites` |
| `hydrated` | `hydratedProjects` |
| `op`, `got` | where each call is, with the state object it holds; the answers to its queries |
| `last` | history: who marked a key last |

`ReadFile` ... `Flushed` are the stretches of `load`, `Hydrate` ... `Hydrated` those of
`hydrateProject`, `Signal` and `Observe` what the two do behind it, `Persist` the start
of `persist` in all of them. Writes that set no familiarity (profile, project identity,
feedback) are `Note`; they take their turn in the queue but are not told apart.

## 3. Runs

| Run | Instance | What it shows |
|---|---|---|
| `agent_order` | 2 calls of any kind, 2 outputs per turn, any interleaving | `TimelineInOrder`: staging, steer barrier and event queue never let items of a client's turn overtake each other |
| `agent_live` | 2 calls of any kind, 1 autonomous turn, interrupts may be refused, fair | `OneForegroundTurn`: never two client turns asked for or running at the provider. `ForegroundIsTracked`: the foreground turn and the tracked run come and go together. `CancelledTurnsAreOver`: a cancellation that reports success ended what it interrupted. `UndisturbedAgentIsFree`: without a Stop and without a refused interrupt the agent accepts the next prompt when all is over; `HoldHasOwner`: nor is the replacement hold ever orphaned then. `EveryCallReturns` |
| `agent_stop_pending` | 3 calls (stream, replace, stop) | finding 1: `QuietAgentIsFree` is violated |
| `agent_late_fallback` | 4 calls (stream, steer, stop), no native steering | finding 2: `FallbackSparesLaterTurn` is violated |
| `creation_effects` | 3 calls for 2 requests that reserve the same agent id, 2 restarts, 1 failing write | `EffectsHappenOnce` (the refinement of `AtMostOnce`) and `MadeByClaimant` |
| `creation_watch` | 1 request, 2 calls with possibly different contents, 1 subscription, 1 restart, 1 failing write, fair | `SeenIsDurable`, `SeenIsCurrent`, `SeenOnlyAdvances`, `EffectsHappenOnce` with subscribers, `EveryoneIsAnswered` |
| `message_receipts` | 3 sends of 2 messages with 2 contents, 2 restarts, 1 failing write, fair | `DeliveredOnce` (the refinement of `AtMostOnce`), `AcceptedIsDelivered`, `EverySendIsAnswered` |
| `directory_sync` | 2 agents, 1 app, up to 2 changes of them, 1 fault of any kind, 1 tombstone kept, fair | `ReadIsComplete`: a read from any position makes up for everything since. `LiveIsCurrent`, `RefreshMissesNoAgent`: no agent of the directory is missing or out of date in an app, live or after its next refresh from memory or disk. `Converges`: an app that stays subscribed comes to have every agent |
| `directory_ghost` | 2 agents, 2 apps, 2 changes, no faults | finding 3: `RefreshIsComplete` is violated |
| `timeline_sync` | 2 epochs of up to 3 and 2 rows, pages of 1 entry, 1 fault or 1 change of chats, fair | `PagesAreComplete`: a page has the rows its cursors claim, for every timeline and cursor. `RangeIsHeld`: what is shown has no holes. `NeverBack`. `ReadyIsCurrent`: a chat that is called ready is at the end. `StartIsReachable`: a chat that offers no older history shows the first row. `DetachedHasOwner`: a chat that ignores live rows has a fetch that will reattach it. `CatchesUp`: an app that stays connected gets to the end |
| `timeline_switch` | the same without faults | finding 4: `ReadyIsAlwaysCurrent` is violated |
| `knowledge` | 3 calls for 2 projects that share a concept; up to 3 of: 1 restart, 2 failed calls of the database, 1 failed query or file write; fair | `AnsweredIsKept`, `AnsweredIsKnown`: a mark that was answered reaches the database, and is what the service goes by, whatever restarts and failing calls do. `MarksStay`: no explanation overrides a mark. `CallsKeepHeading`: failing and repeated calls neither lose nor reorder writes. `EveryCallReturns` |

### Bounds

* Two calls with an autonomous turn already contain every pairwise race: a caller
  in the lane behind another, a replacement of a turn that is starting, a terminal
  that arrives after the forced one, a steer whose turn ends while it waits. What
  needs three or four parties is in the two runs that show the findings. The
  safety properties are also proved for any number of calls (section 5).
* `FinalizedLimit` is 1 instead of 50, so that ids are forgotten within two turns.
* `MaxOutput` is 2 where order is checked (an output can overtake another and the
  prompt) and 0 elsewhere, where outputs change nothing that the properties see.
* `creation_effects` needs two restarts (one during the work, one during the
  recovery from it) and two requests with a common id; `creation_watch` needs two
  callers and a subscriber on one request. `MaxFaults = 1`: one failing write may
  hit any receipt or claim; `MaxCrashes` and `MaxFaults` bound only the
  environment.
* `message_receipts` needs a send, its repetition and a repetition after a restart, and
  a second message whose delivery the same restart interrupts.
* `directory_sync` keeps one tombstone, so that the second removal forgets the first;
  two changes are the least for a removal to race an update, a list and a reply; one
  fault of any kind (restart of either side, lost connection, failed read, repeated
  request) falls anywhere between them. `ReadIsComplete` is proved for any bounds, `LiveIsCurrent` and
  `RefreshMissesNoAgent` for one app and any other bounds.
* `timeline_sync`: with pages of one entry, three rows are the least for which a tail
  leaves older rows out, an entry spans another, and a catch-up needs several pages. A
  second epoch makes every cursor stale; each later timeline has a row less. A fault or
  a change of chats (`MaxEvents = 1`) falls anywhere; the safety properties were also
  checked with two faults and a change of chats in one behaviour (3.5 million states), and
  all of them are proved for any bounds.
* `knowledge`: one concept is enough, because the properties are about one key and writes
  of other keys are like `Note`; a mark, a later mark or explanation of it and a read take
  three calls. Three troubles are a restart and a database that is down when it is over
  (the flush tries twice). `During = {}`: a client waits for the answer to its first call
  and to the first one of a project; other calls overlap freely. Section 4 says what the
  other values of `During` show. The safety properties were also checked with two restarts
  and four troubles.

### Fairness

* `AgentRun!Fairness`: weak fairness of every continuation and of the dispatch of
  events, because the event loop runs what is ready; of the settlement and
  interrupt timeouts, because timers fire; and of the provider answering
  `startTurn` and `steerActiveTurn` and ending the turns it runs. The last is an
  assumption: the code awaits `steerActiveTurn` without a timeout, so a provider
  that never answers blocks the lane (listed under hazards). No fairness is assumed
  of `interrupt()`'s acknowledgement (only that it resolves, rejects or times out),
  of autonomous turns beginning, or of clients.
* `CreationJournal!Fairness`: weak fairness of each runner, admission and
  subscription: file operations and the resource owners answer, with success or
  failure. None of restarts or faults.
* `MessageReceipts!FairSpec`: weak fairness of each send's continuations, on the same
  grounds.
* `DirectorySync!Fairness`: weak fairness of looking up and publishing queued updates,
  of reading the list and answering, and of the app taking the next message: promise
  chains and sockets go on. None of connecting, of changes or of faults; `Converges`
  speaks of an app that stays subscribed.
* `TimelineSync!FairSpec`: weak fairness of the subscription being answered, of requests
  being answered and messages taken (in one condition: the socket goes on), and of the
  retry timer. None of connecting, of the agent or of faults; `CatchesUp` speaks of an
  app that stays connected from some time on.
* `DissectKnowledge!FairSpec`: weak fairness of everything that goes on of itself, taken
  together: continuations, saves, and calls of the database, which end by their timeout of
  2.5 s at the latest. None of calls being made, of restarts or of faults.

## 4. Findings

1. **A Stop during a replacement leaves the agent running for ever**
   (`agent_stop_pending`). A replacement is waiting for `startTurn`; a Stop
   interrupts it, the interrupt is acknowledged, and `cancelAgentRunNow` clears the
   pending run. It leaves `lifecycle` alone because `pendingReplacement` is set, and
   the replacing call's catch block sees a settled run and does not release the hold
   either. `docs/agent-lifecycle.md:52-53` promises that an acknowledged interrupt
   settles a run that was still waiting for its turn id;
   `agent-manager.test.ts:7879` tests it only for a run that replaces nothing. The
   next replacing prompt recovers the agent; a plain stream is refused.
2. **A steer's fallback may replace a later turn** (`agent_late_fallback`). The
   fallback asserts that the turn it was meant for is active and then waits for the
   mutation lane; it does not assert again. The comment at
   `agent-manager.ts:2699-2700` says "Never let an A admission replace a later B".
3. **A removed agent can stay in an app as a ghost** (`directory_ghost`). While the
   list for an app's refresh is read, another app deletes an agent. The update of the
   close is buffered under number 1; the removal itself is queued only in the session
   that asked for it. The list, read after the deletion, makes `replaceAll` record the
   tombstone as number 2. The reply ends at 2 and does not name the agent as an entry,
   so `flushBootstrapped` sends the older update behind it: the app adds the agent, and
   no later incremental read returns the tombstone. `docs/architecture.md:118` says
   that such a read returns what is newer plus tombstones. This is why the properties
   of `directory_sync` speak of the agents in the directory only.
4. **Opening another chat can lose a row of one that is open** (`timeline_switch`). The
   set of open chats is one subscription; when it changes, `reconcileMembership`
   releases the old one, whose route is deleted at once, and the new one has a route
   only when its response arrives. A row in between is dropped. The response starts only
   catch-ups that never ran, so the chat stays "ready" without the row until a later row
   shows the gap or the app fetches for another reason. `docs/timeline-sync.md:15` says
   that a continuously subscribed client applies every committed row, and `:79-80` that
   switching between open chats needs no fetch. `ReadyIsCurrent` and `CatchesUp`
   therefore make an exception while `missed` is "now".

Behaviour that was noticed and contradicts no document: two replacements in quick
succession make the first fail with "already has an active run"; a refused
interrupt of an agent without a run leaves a phantom autonomous run until the next
acknowledged Stop (which is why `UndisturbedAgentIsFree` excludes refused ones); items
of an autonomous turn may appear after a later steer prompt (`TimelineInOrder` is
about clients' turns); a steer of an autonomous turn can be admitted while a client's turn
is starting, and `streamAgent` then queues the staged events (`agent-manager.ts:2522-2528`)
behind what the barrier of the steer holds already (`:3723-3730`), so that with three calls
and one autonomous turn items of the client's turn are shown out of order (seen in
simulation; `OrderKept` assumes that there are no autonomous turns), and with two
autonomous turns the end of a turn can be handled before its start, which leaves the agent
"running" for ever (`UndisturbedAgentIsFree` is checked with one); a torn claim file makes its id unusable for good; the claim
of a workspace stays when the claim of the agent fails. With two apps a cursor can pass over an
update: it is the largest number the app was sent, numbers are given out across
agents and sessions, and a lower one may still be queued: an app is pushed agent b with
number 2, which another app's list caused, and moves its cursor to 2 while agent a with
number 1 is only on its way; if the connection is lost then, the answer to cursor 2 does
not have a (TLC violates `RefreshMissesNoAgent` with two apps in 15 states without any
fault; `directory_sync` has one app). A row cached late from a route lookup can bring back an
agent that was just removed (`packages/app/src/runtime/directory-sync/index.ts`).
In the app's timeline: a chat whose first fetch failed, or that is empty when rows are
lost to finding 4, can begin with a range in the middle while nothing says that there
is older history (`StartIsReachable` is stated without faults and losses); after a live
row 1 of a new epoch or a reload, "older" may stay available although there is nothing
older, and loading it has no effect; the fetch after a replacement only warns when it
fails, and the chat stays in the old epoch until its next fetch.
In the Dissect knowledge: (a) a project counts as hydrated while its rows are being read,
so a mark that another call makes meanwhile is replaced by them, and the next explanation
overrides it in the database (`During = {"querying"}` violates `AnsweredIsKnown`, and with a
fourth call and two keys `MarksStay`); (b) the state is visible to other calls before its
outbox is queued again, so that an old write can end up behind a newer one (`During` with
`"identity"`); (c) a mark the database has taken and the file has not, when the daemon
stops, is unknown after a start at which the database cannot be reached, the rows are not
read before the next start, and an explanation overrides it (`MarksStay` without
`crashes' = 0`); (d) a query that fails counts as an empty table; (e) nothing calls the
database again until the next write is queued.  The comment at
`dissect/knowledge/service.ts:215-217` says that "Comfortable and learning stay
user-driven", which (a) and (c) are exceptions to.

## 5. Proofs

`AgentRunProofs` proves, for every set of calls and autonomous turns and every
value of the other constants, from `AgentRunAssumption` alone (and where a theorem says
so for agents without autonomous turns):

| Theorem | Statement |
|---|---|
| `TypeCorrect` | `Spec => []TypeOK` |
| `OneTurn` | `Spec => []OneForegroundTurn` |
| `Tracked` | `Spec => []ForegroundIsTracked` |
| `CancelledOver` | `Spec => CancelledTurnsAreOver` |
| `HoldOwned` | `Spec => []HoldHasOwner` |
| `OrderKept` | `Autonomous = {}` implies `Spec => []TimelineInOrder` |
| `UndisturbedIsFree` | `Autonomous = {}` implies `Spec => []UndisturbedAgentIsFree` |

`HoldHasOwner` is inductive together with `KindInv`: a call is only ever where the code of its
kind can bring it, so that what releases a replacement's hold is always a replacement.
None of the three before it in the table is inductive. Two turns could be asked for if `MayStart`
looked at a run table that had lost a live turn, so one needs to know that a turn
the provider still has is always the one the run table tracks; that fails if a
late terminal event settled a run it does not belong to, so one needs to know that
a terminal event in flight belongs to a turn that is over at the provider; and a
cancellation clears a run only after an acknowledgement, so one needs to know what
the cancellation in progress covers. The inductive invariant `Inv` is therefore the
conjunction of

* `TypeOK`;
* `LaneInv`: no call waits twice in the lane, exactly the calls at the positions
  under the lane are in it, and only its holder is cancelling or steering;
* `EventInv`: a terminal event in `queue`, `staged` or `held` belongs to a turn that
  is over; a call's events carry its own turn;
* `Ties`: `ForegroundIsTracked`; what the program counter of a call says about its
  turn (`CallInv`); a client turn asked for or live is the tracked run's (`RunInv`);
  while the captured run of a cancellation is unsettled it is still the tracked run
  and the cancellation covers only its turn (`CancelInv`).

Each action has a lemma per conjunct group; the step lemma joins them by cases over
`Next`, and the theorems close with PTL.

An item of a turn can be in the prompt of the pending run, among the staged events, behind
the steer barrier, in the queue, in an accepted steer's answer or in the timeline. That it
never overtakes another takes two invariants on top of `Inv`. `StageInv` says which of these
places are in use together: no turn is active without a foreground one; what is staged
belongs to the turn that is starting, with its start at most once, and no start is anywhere
else; the barrier is up only while a steer of the foreground turn is decided, and the queue
was empty when it went up. `OrderInv` says that each place is in order, that the timeline
comes before the queue and the queue before what is held, that a pending prompt comes before
what is staged and an accepted steer prompt between what is shown and what is held, and that
nothing in any place is taken or produced again (`Known`). Both were checked with TLC
(all 180,683 states of two calls with two outputs, and simulations with four calls) before they
were proved. The condition is needed: section 4 says what a steer of an autonomous turn does.

`UndisturbedAgentIsFree` follows from `Inv`, `HoldHasOwner`, `StageInv` and `BusyInv`, which holds
while nobody stopped the agent and no interrupt was refused: an agent that shows as running without
a foreground turn is held by a replacement, has a turn that is starting, or has the run that
`cancelAgentRunNow` made up (`RunningHasReason`); and there is such a run only while the cancellation
that has to settle it is under way (`PhantomIsCancelled`). `BusyInv` was checked with TLC on three
calls (2,185,817 states) first. The condition is needed here for what section 4 says of two
autonomous turns; with one the property is model-checked (`agent_live`).

`MessageReceiptsProofs` proves, from `ReceiptsAssumption` (bounds are numbers, the null
value is none of the data) for any messages, sends and contents:

| Theorem | Statement |
|---|---|
| `TypeCorrect` | `Spec => []TypeOK` |
| `Implements` | `Spec => DeliveredOnce`, that is `Spec => Promise!Spec` |
| `Accepted` | `Spec => []AcceptedIsDelivered` |

`Inv` adds to the types what the state of a send says about its message (`SendInv`: a
send that works on a message is the first of its chain, and how far it is tells the
receipt and the delivery) and what a receipt says about the delivery (`ReceiptInv`).
Because only the first of a chain works (`OnlyOneWorks`), a step of a send leaves the
invariant of every other send alone. The refinement then has one case per action:
`Deliver` is `Effect`, `Commit` is `Complete`, a send that throws with its receipt
pending and a restart are `GiveUp`, everything else stutters.

`DirectorySyncProofs` proves `ReadsAreComplete`: `Spec => []ReadIsComplete`, for any
agents, sessions and number of tombstones kept. The inductive invariant is what the
collection keeps: numbers are given out once and in order (`Shape`), and whatever
happened to an agent after the number it is filed under was a removal that has been
forgotten (`Recalls`); a forgotten removal has a number up to the expiry horizon, and a
reader below the horizon is sent everything.

Its `TypeCorrect`, `Spec => []TypeOK`, needs no less of the collection: the numbers of the
entities stay different and below the last one when a list is applied in any order, when
the oldest removals are forgotten and when removals are recorded (`IsCollection`). Its
invariant `TypeInv` adds to `TypeOK` what the steps rely on: an active agent has a version, so
that every update and every entry of a list has one; what is buffered and on the wire has its
type and comes from this daemon process; and the queues of a session without a subscription
have no observer (`Silent`), so that what is published then is numbered and not sent.

`ConnectedIsCurrent` and `RefreshBringsAgents` state `Spec => []LiveIsCurrent` and
`Spec => []RefreshMissesNoAgent` for one app (`OneApp`) and any agents, changes, lost
connections, failed reads and restarts. The condition is needed: section 4 says how a second
app breaks both. The inductive invariant `DirInv` is about the agents that are there,
that is, neither archived nor deleted (`Alive`). It says, with `Known` for "the rows and the
messages up to this one have that version of the agent, or a later one":

* for one agent (`AgentInv`): nothing held or on its way is newer than the registry or says that
  the agent is gone (`PlainRows`, `PlainWay`); its updates are queued in order, and what is
  buffered was queued before them (`Orderly`); the registry's version is in the list, in the
  buffer, in the queue with an observer, on the connection or with the app (`Due`); and what was
  queued for an observer that is gone is known already (`Missed`), which is why a subscription
  may be replaced while updates are looked up;
* for the rows and their cursor, in memory and on disk: the collection has nothing up to the
  cursor that the rows do not have (`Fits`). A read from the cursor then brings the rest
  (`ReadBrings`);
* for the messages on their way: when the app takes one, its number is a cursor that fits
  (`Line`, `NumberFits`), and the answer comes first (`First`). This is the part that fails with
  a second app, whose session numbers entities that the first app is told of later.

A change of the collection keeps `Fits` and `Line` because a value that changed has a number that
was not used before (`Follows`). Each action has a lemma (`PublishKeeps`, `SyncKeeps`,
`ReceiveKeeps`, ...), and the two properties follow from `DirInv` and `TypeInv` in any state.
`DirInv` was checked with TLC first, on all 546,518 states of the instance of `directory_sync`, on
827,939 states of one agent with two faults, and on random behaviours with more changes and faults.

`CreationJournalProofs` proves, from `CreationAssumption` (identities, calls and
subscriptions are told apart, a prompt needs an agent) for any requests with any stages
and reserved ids, any calls and subscriptions, and any number of restarts and failing
writes:

| Theorem | Statement |
|---|---|
| `TypeCorrect` | `Spec => []TypeOK` |
| `ClaimGuardsResource` | `Spec => []MadeByClaimant` |
| `JournalKeepsPromise` | `Spec => EffectsHappenOnce`, that is `Spec => Promise!Spec` |

The argument is the one the code relies on without saying so: a receipt whose outcome is
open and in which nothing is in flight tells exactly which stages took effect (`DiskInv`),
so that a later attempt continues where the last one stopped. It holds across an effect
because the mark ahead of the effect is on disk first (`RunInv` relates the place of a
runner, its record, the receipt and the history; at `catch` either `Reconcile` finds
something or the record still tells the truth). A second attempt never starts beside the
first, because only the first call of the admission chain starts runners and does so with
the record it read while none was running (`AdmissionInv`); a subscriber that publishes an
unknown outcome does it for a request that nobody works on (`SubInv`), which is why it can
never overtake a run. `Journal` is the conjunction of these, `ClaimInv` adds that a runner
holds all its claims, and `MadeIsThere` that an agent that was made is registered, which
`Reconcile` looks up. The order of the receipt queue is not needed for any of the three.

The invariant `Inv` was checked with TLC on both instances before it was proved. Each
kind of step has a lemma for its own request (`RunKeeps`, `AdmissionJournal`,
`SubscriptionJournal`, `CrashJournal`), and `UntouchedRequest` covers all others. In the
refinement `Provision`, `CreateAgent` and `SendPrompt` are `Effect` or stutter, `RunEnds` is
`Complete`, `GiveUp` or a stutter, a call or subscriber that gives up is `GiveUp` or a stutter.

`CreationSeenProofs` proves, from the same assumption, what a client that watches a
creation can rely on:

| Theorem | Statement |
|---|---|
| `SeenLasts` | `Spec => []SeenIsDurable` |
| `SeenNewest` | `Spec => []SeenIsCurrent` |
| `SeenForward` | `Spec => SeenOnlyAdvances` |

Here the order of the receipt queue is what matters. `SeenInv` says of every observer that
it holds nothing newer than the disk (`Observers`), and of everyone who still has something
to write (`Working`) that the admission and the runner are ahead of what is on disk, and
that the publications that wait in one queue are in the order in which they were read:
two observers may both find an outcome unknown and both publish it, so the second must not
take back what the first has shown. It is inductive together with `Inv` and was checked
with TLC on an instance with restarts and failing writes before it was proved.

`TimelineSyncProofs` proves, from `StoreAssumption` and `SyncAssumption` (a page has an
entry, there are timelines), for any number and length of timelines, any size of pages and
any number of faults and changes of chats:

| Theorem | Statement |
|---|---|
| `TypeCorrect` | `Spec => []TypeOK` |
| `PagesComplete` | `Spec => []PagesAreComplete` |
| `RangeHeld` | `Spec => []RangeIsHeld` |
| `NeverGoesBack` | `Spec => NeverBack` |
| `DetachedOwned` | `Spec => []DetachedHasOwner` |
| `ReadyCurrent` | `Spec => []ReadyIsCurrent` |
| `StartReachable` | `Spec => []StartIsReachable` |

The first half is about `TimelineStore` alone: `TailFits`, `AfterFits` and `BeforeFits` show
for every timeline that the page of each direction has the rows between its cursors. The
delicate one is the tail, which must begin at an item that no earlier item has a row behind
(`Contained`); that there is always one is part of the proof. `NumberLemmas` has the
facts on least, greatest and n-th numbers that the library lacks.

The second half is what makes the chat go only forward. Pages may be old when they are
applied, and nothing in a page tells how old; the code relies on the order of the
connection. `Inv` says what that order gives: each message on the wire knows at least as much of
the timelines as the one before it (`InOrder`), the chat knows no more than any of them
(`ChatBehind`), a page has the rows of a timeline as it was when it had `max` rows
(`PageFits`: later rows only add, but may change items the page has), and an app
that has nothing yet asks for tails only (`Beginning`), so that its first page is a
whole chat. `Sound` is what one row or page does to a chat under these conditions; it has a
lemma per function of session-stream-reducers.ts (`RowTaken`, `PageShown`, `PageExtends`,
`PagePrepends`, `PageTaken`). The invariant was checked with TLC (3.5 million states) before
it was proved. Two operators of the model were rewritten for the prover, which cannot expand
`SelectSeq`: `Selected` and `Without` (`Subsequences`) say the same by positions.

The third part is who fetches what is missing. `DetachedHasOwner` depends on what every request
under way will be answered and on what the chat is by then, which `OwnerInv` says:

* `InLine`: requests under way differ, each has one page at most, and they are answered in the order
  in which they were asked; `PagesSay`: what a page says of its request (its timeline is the one
  asked about or it starts over, where it begins, when it is not the last);
* `Waits`: a catch-up that runs waits for a request that is under way;
* `Ready`: before the acknowledgement no catch-up begins and rows come only behind it (`Silent`);
  afterwards there is a catch-up, and one that is complete left nothing newer (`Known`);
* `Placed`: there is a timeline that the chat is at and that nothing on the wire is older than
  (`Horizon`), and what is asked to follow something is asked in order and never ahead of the chat
  (`Held`). A complete catch-up, or one that waits for the tail, leaves only requests of earlier
  timelines, whose answers start over: so no page that comes late detaches the chat from
  the live rows.

It is inductive together with `Inv`. It was checked with TLC before it was proved, on all 236,395
states of a smaller instance and on 60 million states of random behaviours of larger ones.

The fourth part is why a chat that is called ready is at the end. `ReadyIsCurrent` looks at one
moment, at which nothing is on its way; `ReadyInv` says why that moment finds the chat there:

* `Leads` is the idea the other conjuncts are made of: whoever is at row n of a timeline gets to the end of
  the current one with what is on the wire behind message k, because every row in between is
  there, or a replacement is (`Coming`);
* `Trail`: the answer that was sent last (every answer, if nothing was dropped) leads the chat
  to the end together with what comes behind it. A page is read when it is sent, and rows that are
  committed later are sent behind it;
* `Settled`: with a catch-up that is complete, what is on the wire leads the chat to the end, or the
  tail is asked for, or, when messages were dropped before the last fetch was begun, an answer to that
  fetch is on its way;
* `Idle`: without a connection nothing is on the wire or asked for.

A step of the chat keeps it because a row that does not follow and a replacement both begin a
fetch, whose answer leads to the end again, and because a page without newer rows ends where
the timeline ended when it was sent. `ReadyInv` is inductive together with `Inv` and `OwnerInv`. It
was checked with TLC on all 1,414,122 states of a smaller instance and on 190 million states of random
behaviours of larger ones before it was proved.

The fifth part is why a chat that offers no older history shows the first row, while nothing
fails and no message is dropped (`StartIsReachable` says nothing of other behaviours: see the
end of section 4). The chat that could go wrong is one that is empty, is told of newer rows
and then takes a page that is not the beginning of the timeline. Two invariants exclude it:

* `LineInv` is about the order of requests: a replacement on its way tells of a later timeline than
  all that comes before it (`Announced`); what was asked to follow something before a
  tail was asked for will be answered with a new start (`Overtaken`); and when the chat ignores
  live rows, the request that follows what it has comes before any tail (`Ahead`);
* `FirstInv` is about what is answered: a page that says that nothing is older begins with row 1
  (`Beginnings`); an empty chat, and one that will be empty when an empty page has been taken,
  is sent row 1, or a page or replacement to begin with, before any other news (`Opens`).

Both were checked with TLC, on instances of up to four rows or three timelines with two
changes of chats, before they were proved; only with a fourth row did TLC refute a simpler
`Starting` that did not ask whether an empty chat is told of newer rows (`chat.newer`).

`DissectKnowledgeProofs` proves, from `ClientAssumption` (finitely many keys, the null values
are none of the data) and the assumptions of `DissectKnowledge`, for any keys, projects that
share them in any way and number of calls, restarts and faults:

| Theorem | Statement |
|---|---|
| `TypeCorrect` | `Spec => []TypeOK` |
| `AnsweredKept` | `During = {}` implies `Spec => []AnsweredIsKept` |
| `AnsweredKnown` | `During = {}` implies `Spec => []AnsweredIsKnown` |
| `MarksAreStaying` | `During = {}` implies `Spec => MarksStay` |
| `CallsKeep` | `During = {}` implies `Spec => CallsKeepHeading` |

`During = {}` says that a client waits for the call that loads the state or hydrates its
project before it makes others; it is the condition of the `knowledge` run, not one the service
enforces. Without it the second and third are false (items (a) and (b) at the end of section
4), so it cannot be dropped; type correctness does not need it. Restarts, failing
and repeated calls of the database, and calls that overlap in every other way are covered.

The first part is about sequences of writes: what the last write of a key in them says
(`Told`), which levels they hold for it (`Levels`), what both are for a queue behind another
(`TogetherTold`), for one from which writes that tell nothing were dropped (`JoinedTold`) and for
the marks a call queues. The second part is types (`TypeInv`). The third is the inductive invariant `Inv`,
whose conjuncts are

* `Alone`: a call that loads or hydrates is the only one that is under way;
* `OneState`: hence there is one state object, and every call and save works on it;
* `Undisturbed`: hence nothing is queued while the file or the rows are read, and the rows that
  were read so far are those the database has;
* `MarksKept`: for the last mark of every key, where its call is decides where the mark is: in
  memory from the start, in what the first save is writing, in the file from the save on. Each
  of these also has an outbox that is queued again after a restart, possibly though its writes
  had got through, and newer ones too. `Leaves` is what makes that harmless: either the last
  write of the key in the outbox is the mark, or the key is at its level already and
  everything queued behind leaves it there;
* `NothingForgotten`: before the first restart the database is heading for what is known.

`AnsweredIsKept` alone is not inductive: a file written before the mark's write was taken must
not, when it is read again, put an older write behind a newer one. `Inv` was checked with TLC on
the instance of the `knowledge` run before it was proved. `CallsKeep` follows from
`Undisturbed` and the first part: a call takes the head of the queue, and what the rest tells is
the same.

## 6. Only model-checked

Liveness (`EveryCallReturns`, `EveryoneIsAnswered`, `EverySendIsAnswered`, `Converges`,
`CatchesUp`) is outside what the prover can do. Every safety invariant and action property that
a passing run checks is proved; `UndisturbedAgentIsFree` and `TimelineInOrder` of `AgentRun` for
agents that begin no turns by themselves and `LiveIsCurrent` and `RefreshMissesNoAgent` of
`DirectorySync` for one app, because they do not hold without these conditions (section 4), and
four properties of `DissectKnowledge` for `During = {}`, as the run has it.
`UndisturbedAgentIsFree` for an agent with one such turn is model-checked only.

## 7. What is not modelled, and simplifications

In `AgentRun`: permissions, `waitForAgentRunStart`, reload, close and history
replay, the coalescer, `steerAgentRun` (used by tests only) and the reconciliation
of submitted-prompt echoes are left out. Every event carries its turn id; every
prompt has a client message id; a generator's body starts in the task of its caller,
which drains it at once; the `await` inside the handling of `turn_failed` is part of
the dispatch; the test hook before the steer fallback is ignored.

In `MessageReceipts`: reading a receipt that exists does not fail (receipts are
replaced atomically); the answer of a completed receipt is the only thing a repeated
send gets, as in the code.

In `CreationJournal`: `readLegacyAgent` (importing receipts of an earlier format) is
left out; `exists()` does not throw; the stages and the ids of a request are
functions of its identity, which holds because requests of the same content have
the same fingerprint and others are rejected.

In `DirectorySync`: only agents, not projects and workspaces, labels, filters, paging
or unarchiving; the list is read in one moment; an archiving handler's own publication
is left out, the event it causes is not; handlers of a lost connection are dropped with
it; connecting and asking are one step, after the cache was loaded; equal versions have
equal fingerprints; an agent's project always exists; one subscription per session; a
write to the app's database counts from `Receive`; closing and deleting an agent is one
step.

In `TimelineSync`: one chat, in view, whose cache was loaded; no timeline on disk and
nothing painted before it is synchronized; no submitted prompts, jumps to a prompt
(`mergeWindow`, retained ranges), chats that wait for visible ones, or capability filter
of items; the 48 ms batch of live rows is applied at once; requests to subscribe do not
fail; requests that are shared in flight are applied once (the second time has no
effect); a rewind is one moment, a reload is announced by its rows only; the "retrying"
view is not told from "pending".

In `DissectKnowledge`: the stored explanations and their retrieval, `revision`, preferences
(nothing sets them) and the cache of codebase architectures, whose writes share the
client's queue, are left out; `"unseen"` is not told from no entry; a call of the database
and its acknowledgement are one step, so a call that timed out is not carried out after a
later one; reading or creating the identity does not fail; a disabled client is not
modelled; a call decides what it is when it reaches its work, which none looks at before.

All other components of section 1 are not modelled yet.

## 8. Plan

In this order; the most important behaviour, running agents, creating them, delivering
messages to them and showing them in apps, is done.

1. `DissectStore`: cache, load, save and analyses. Property: no saved update is
   lost, no result is stored for another snapshot.
2. The coalescer as a buffer between `AgentRun!Dispatch` and the timeline.
3. Extensions of `AgentRun`: permissions, `waitForAgentRunStart`, events without a
   turn id, close and reload.
4. Hub executions and schedules, if the above leaves room.

Theorems to prove: `UndisturbedAgentIsFree` with one autonomous turn, and those of the modules
above once they are there.
