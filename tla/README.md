# Formal models of claude-unbound

claude-unbound is an asyncio proxy and messaging bridge around coding-agent
CLIs. Its API half accepts Anthropic and OpenAI Responses requests and serves
them from other providers; its messaging half lets chat users drive CLI sessions
and queue replies to them; beside them run an admin page, an MCP router and a
few helper processes. Everything is single-process: every interesting
interleaving is one of asyncio tasks at their `await`s, plus some timer threads
and the processes the program starts.

This directory holds TLA+ modules for that program, TLC configurations that
check them on small instances, and proofs that TLAPS checks for every value of
the constants. All paths below are relative to the repository root (`src/`).

1. [The system](#1-the-system): components, their state, what is hard about them
2. [The modules](#2-the-modules): what models what, and how
3. [What TLC checks](#3-what-tlc-checks): runs, bounds, fairness
4. [What is proved](#4-what-is-proved)
5. [Where code and documentation differ](#5-where-code-and-documentation-differ)
6. [What is not modelled, and what is out of the prover's reach](#6-what-is-not-modelled)
7. [Plan](#7-plan)

## 1. The system

    chat user -> platform -> handler -> tree queue -> CLI session -> CLI process
                    ^           |  \-> session store                    |
                    |           v                                       v (HTTP)
              send limiter <- status texts               API routes -> pipeline
                                                                        |
       client <- SSE builder <- stream runner <- rate limiter <- provider registry

A reply of a user becomes a node of a message tree; the tree runs one node at a
time by spawning a CLI; the CLI calls the API half back as its model endpoint;
the API resolves a model to a provider and streams its answer through the SSE
builder. Components share state through objects and callbacks, not messages.

| Component | State | Operations | What makes it correct |
|---|---|---|---|
| Message trees and queues (`messaging/trees/`, `handler.py`, `commands.py`) | nodes with a state, a FIFO of ids, current node and task, busy flag | attach a reply, take the next, CLI events, `/stop`, `/clear` on a node or on all | one node at a time, in order of arrival; nothing runs twice or after it was stopped; a stop hits its own node; nothing queued is forgotten; the places told are kept |
| Session store (`messaging/session.py`) | records in memory, dirty flag, debounce timer, file, message log | save, flush, clear, load | nothing is left unsaved without a timer, a clear is final, a restart fails what was running |
| Messaging limiter (`messaging/limiter.py`) | queue of keys, map from key to latest call and its waiters, worker | enqueue with compaction, call, retry, pause on a flood, shutdown | no waiter is lost, a message does not go back to an older version |
| Sliding window, provider limiter (`core/rate_limit.py`, `providers/rate_limit.py`) | times of acquisition, reactive block, slots | acquire, wait, retry with backoff, hold a slot | the rate is kept, slots are conserved |
| CLI sessions (`cli/manager.py`, `cli/session.py`, `cli/process_registry.py`) | maps of temporary and real ids, a process per session, pids | get or create, register, remove, stop all, exit | no CLI outlives its turn, a stop of everything or the program; a conversation is resumed by its own replies only |
| Client CLIs, transcript (`cli/adapters/`, `messaging/transcript.py`) | half-read lines, items told, segments, stack of subagents | chunk, event, render, edit | each thing is told once, in order; what is shown fits and ends with the newest |
| Platforms (`messaging/platforms/`, `voice.py`) | connection, attempts, pending voice notes | start, send with retries, note, cancel | a cancelled note never becomes a turn, no other is dropped |
| OpenAI-chat transport (`providers/transports/openai_chat/`, `core/anthropic/sse.py`, `stream_recovery*.py`) | open blocks, tool calls and their buffers, held events | chunk, failure, retry, recovery, end | one well-formed message whatever happens upstream |
| Anthropic-messages transport (`providers/transports/anthropic_messages/`, `emitted_sse_tracker.py`) | blocks seen on their way through | forward, repair, continue, close with an error | the same |
| Parsers, conversion, Responses bridge (`core/anthropic/`, `core/openai_responses/`) | partial tag or call, deferred content, items under construction | feed, flush, convert, event | chunking changes nothing; a result follows its call; items are told once |
| Pipeline, providers' requests (`api/request_pipeline.py`, `model_router.py`, `providers/*/request.py`) | request under way, downgrades | route, reroute, intercept, build, send again | a model asked for is the one served; a second attempt changes only what was blamed |
| Provider registry (`providers/registry.py`) | providers and model lists of each registry | get, evict, refresh, apply, clean up | fresh after an apply, no connection leaked |
| Modules, admin (`api/modules/`, `admin_env.py`, `mcp_config.py`) | tables of what modules registered, layers of settings, MCP tables | load, hook, apply, import | tables agree, no mask is stored, no secret lost |
| Runtime (`api/runtime.py`, `cli/entrypoints.py`) | started parts, start tasks, restart request, cached settings | start, stop, supervise | everything that was started is stopped, settings are fresh |
| MCP router (`scripts/mcp/mcp_router.py`) | backends, sessions, their owner tasks and locks | activate, use, deactivate, reload, end | one owner at a time, every open session can be closed |
| Graphify, Freebuff (`api/graphify/`, `providers/freebuff/`) | registry of projects, index queue, worker; processes and containers | add, index, drain; start, stop, look | no project stuck, no process leaked |

What is hard to test here, and therefore what the properties aim at (`hazards`
of `PROJECT.json` gives each with its line):

* **Cancellation.** `Task.cancel()` meets a task before its first step (its
  `finally` never runs), inside the CLI (it unwinds, which takes time), in its
  `finally`, or while another owns the lock it waits for.
* **State that is read, awaited over, and used.** A reply looks up its parent,
  sends a status message, and attaches; `/clear` computes a set, deletes
  messages, and removes what is there by then; an apply replaces a registry that
  requests are filling; a worker saves a registry it loaded before an extraction.
* **Failures at any chunk of a stream**, while part of a message is held back.
* **Retries** that must be invisible, and limits that must hold under them.
* **Writes to disk** that race with a newer write, fail, or precede a crash.
* **Overlapping calls** of start, stop and status of a helper process.

## 2. The modules

| Module | Models |
|---|---|
| `SnapshotQueue` | `_SnapshotQueue`: a FIFO with removal from the middle |
| `TreeQueue` | one conversation: tree, queue, node tasks, commands |
| `TurnOrder` | abstract: a single server of turns, in order of arrival; what `TreeQueue` promises |
| `QueuePositions` | what status messages say while replies wait |
| `SessionStore`, `PersistentTrees` | the debounced store; the conversations across saves, crashes and restarts |
| `ChatLog` | what the bot knows of the messages of its chats, and the `/clear` that deletes those of one and forgets all |
| `MessagingLimiter` | the compacting outgoing queue, over `SlidingWindow` |
| `CliSessions` | the pool of sessions, their processes, the turns and stops that use them |
| `ClientEvents`, `Transcript`, `Platforms` | what a turn hears of its CLI; what the chat shows of it; the chat platforms |
| `AnthropicMessage`, `MessageStream` | a message as its client sees it, and its contract; abstract: a message that begins, grows and ends once |
| `OpenAIChatStream`, `NativeStream` | one streamed answer of either transport, with holdback, retry and recovery |
| `SlidingWindow`, `ProviderLimiter` | the rolling window; the requests of a provider through its limiter |
| `TextParsers`, `MessageConversion`, `ResponsesStream` | parsers of streamed text; conversion of a conversation; events of the Responses API |
| `RequestPipeline`, `ProviderRequests` | a request up to its provider; the body each kind of provider is sent, and sent again |
| `ProviderRegistry`, `ModuleLoader`, `AdminSettings`, `McpSettings` | what the admin page and modules change |
| `ServerLife` | start, supervised restarts and shutdown of the server |
| `McpRouter`, `GraphifyIndex`, `GraphifyServer`, `FreebuffManager` | the services beside the proxy |
| `*Proofs` | theorems; `MessagingProofs`, `AdminProofs` and `ServicesProofs` are about the modules that `MCMessaging`, `MCAdmin` and `MCServices` check |
| `MC*` | instances for TLC |

`map` in `PROJECT.json` gives the source lines of every definition. An operator
whose comment begins with "Mutant" is a plausible wrong version of a
definition; no specification uses it, and it shows that a property can tell the
two apart.

**Atomicity.** An asyncio step runs from one real suspension to the next, and
suspensions are the boundaries of the actions. Locks that are never held across
one (tree, manager of trees, sliding window, store) do not appear: what is done
under them is one step already. Locks that are held across an `await` appear as
variables (`lock`, `cliLock` of `CliSessions`; `activating` of `McpRouter`).
Writes to a file are two steps, the snapshot and the landing.

**TreeQueue.** `nodes`, `parent`, `state`, `queue`, `isProcessing`,
`currentNode`, `currentTask` are the fields of `MessageTree`; `task` is where
`_process_node_impl` stands for each node; `arriving` the replies whose handler
is still sending the status message; `ahead` a history variable, who was queued
when a node was attached. Actions follow the handler (`Receive`, `Attach`), the
node's task (`Start`, `SessionInfo`, `ErrorEvent`, `ExitOk`, `Unwind`,
`Finish`) and the commands. `Commands` says which commands users send and
`EarlyCommands` whether one may run before a created task's first step: several
promises hold only without some of them.

**Streams.** In `OpenAIChatStream` the builder is one record, `sse`, and each
of its methods an operator from record to record; `sse.view` is the message as
the client will see it when everything held is delivered, `client` the message
so far. Of a tool call's JSON only this is kept: is there none, could it be completed, is
it whole, or can nothing make it valid. `NativeStream` has the block policy, the tracker and
the holdback of the other transport, over the same `AnthropicMessage`.

**Limiters.** `granted` holds the times of all acquisitions and `dropped` how
many the deque has forgotten, so `WindowKept` speaks of every interval and not
only of what the code remembers. `MessagingLimiter` numbers calls in the order they
are made; `Late` are those whose task may enter the queue after a newer one.

**CliSessions.** A session object is named after the turn that created it and a
process after its turn. `CancelTurn` is `Task.cancel()` wherever a turn
stands; `RemoveSession`/`Removed` and `SweepBegin..SweepEnd` hold the manager's
lock across the wait for a process. Calls of stop_all() follow each other.

**Services.** `McpRouter` names object v of backend n `<<n, v>>`, since a
reload replaces the object while requests use the old one; `cutShort` and
`dropped` (an object replaced while somebody activates it) are the two ways in which the code loses
a session. The end of an owner has three stages: it closes the session
("closing"), forgets it and closes its HTTP client ("ending"), and is done. In
`GraphifyIndex` every operation loads, changes and saves the registry in one
step, except the worker, whose `copy` is older than what it overwrites.

**Requests, front and admin.** Data is abstracted to what a property tells
apart: pieces of content are numbers in order, a line of output is two halves
and a newline, a secret is a value, its mask or blank, a file of settings its version.
The headers of the modules say what each leaves out.

## 3. What TLC checks

| Run | Properties | Shows |
|---|---|---|
| `tree_all_commands` | `TreeInv`, `RunsOnce`, `StoppedNeverStarts` | what a conversation keeps under every command at every interleaving, early ones included |
| `tree_stop_fair` | `NoLostWakeup`, `OneTurnAtATime`, `ServesTurns`, `StopReachesCli` | with `/stop` alone, never early, the tree implements `TurnOrder`, liveness included, and a stop reaches its CLI unless that has told an error |
| `tree_early_stop` | `QueueDrains` | violated: see section 5 |
| `openai_stream` | `ContractKept`, `SalvagedIsWhole`, `NothingHeldBack`, `RetryIsInvisible`, `ServesMessage` | wherever the provider fails the client gets one well-formed message made of one answer, and it ends |
| `providers` | `WindowKept`, `SlotsConserved`, `NativeStreamKept`, `NativeServes` | rate and slots survive retries, blocks and cancellation at every `await`; a native stream is well formed but for three named cases |
| `persistence` | `StoreKept`, `CompletedStaysSaved` | what the session file holds through saves, failing writes, `/clear`, shutdowns and crashes |
| `messaging` | `OutboxKept`, `SessionsKept`, `StopAllStops`, `ChatLogKept` | the outgoing queue, the CLIs of a turn and its replies, and the logs of two chats |
| `services` | `RouterKept`, `IndexKept`, `QueueMoves`, `ServerKept`, `FreebuffKept` | sessions of the MCP router, the index queue, and the two helper processes |
| `admin` | `RegistryKept`, `ModulesKept`, `McpKept`, `SettingsKept` | what the admin page and the modules change |
| `requests` | `RequestsServedRight`, `ConversionsKept`, `ClientHasResponse`, `RequestsSuitProviders` | a request on its way to a provider and back |
| `named_option` | `NamedOptionIsDropped` | violated: see section 5 |
| `front` | `TranscriptKept`, `ClientIsHeard`, `ServerLivesRight`, `PlatformsHold`, `PlacesAreTold` | what faces the user, and the life of the server |

A module `MC*` that instantiates several components runs them one at a time: they
share no state, a behaviour is one of one of them, and the others stay as they
were. Where components do share state they are one module
(`PersistentTrees` over `SessionStore`, the limiters over `SlidingWindow`).
Deadlock is not checked in any run: a conversation in which all has been said, a
message that has ended, calls that are done and a program that has exited stop.

### Bounds, and why they are enough

The proofs remove the bound wherever section 4 names the property.

* **Tree**: a root and two replies under all commands, three replies under
  `/stop`. Two replies can be siblings or a chain, and both queued while the root
  runs: order, removal from the middle, a second successor and a cancelled task
  beside a new one all occur.
* **Streams**: one call of each kind (plain, Task, aliased), one early retry, two or
  three blocks of the provider; the blocks the code adds come on top.
* **Limiters**: three requests over two slots and a window of two, one retry, time
  up to 4; three calls for two messages, a window of one, one repetition. Time is discrete:
  the code compares times and adds durations.
* **Persistence**: a conversation with a reply, one restart or crash, one failing write, one
  overlapping timer.
* **CLIs**: a turn and two replies of one tree, one stop of everything: two turns
  can share a session, and a third finds what they left.
* **Chat log**: two chats, three messages of one and one of the other, two `/clear`s, a cap and chunks: messages come
  during a `/clear` of their chat or of the other, and the two can overlap.
* **Services**: three requests at one backend with one reload; two projects, one
  restart, three edits, budgets for one halving and then none; three overlapping
  calls of one manager and two of the other.
* **Admin**: three calls around two applies; two modules of which each may declare or
  fail anything; one setting of each kind under three layers; two MCP servers.
* **Transcript**: two Tasks, the id of one a prefix of the other's, and a tool with an id that contains "task". No id of
  a Task and of a tool is a prefix of the other (`TranscriptAssumption`): a client gives them all in one form.
* **Requests and front**: bounds in the configuration files: enough that a call is
  followed by its result and by deferred content, that blocks overlap, that a chunk ends
  in every place of a tag or line, and that a restart meets an edit and a failure.

### Fairness

* `TreeQueue!Fairness`: the event loop runs each ready task, and a CLI that is not
  stopped ends (`Ends`), with any result. Nothing is assumed of users. A
  reply whose status message was asked for is attached or fails, since the platform
  clients have timeouts.
* `OpenAIChatStream!FairSpec`: a request is answered or times out, an answer comes to
  an end or fails (the client has connect and read timeouts), and so does a recovery
  request. No chunk is promised.
* `MCServices!IndexFairness`: the index worker is a task of the event loop, and an
  extraction ends. The code sets no limit to it, but counts on its requests to the
  model to time out (`graphify_coordinator.py:133`).

Everything else is safety and assumes none.

## 4. What is proved

For every value of the constants: any number of messages, turns, calls, requests,
projects, modules, any retry limit, rate or budget. The assumptions on the constants are
the named `ASSUME`s of the modules, which TLC evaluates in the runs; that
sets of calls, requests or projects are finite is assumed only where a
cardinality or a sum over them is used.

**`TreeQueueProofs`** (all of `tree_all_commands`, and `NoLostWakeup`,
`OneTurnAtATime`, `StopReachesCli`; the safety half of `ServesTurns`; `ClientIsHeard`). What `Without` keeps of a queue comes first: its
recursive function is shown to exist, and its facts to hold, by looking at the
shortest prefix for which they would not. `FifoOrder` alone is not inductive:
it needs that the queue is ordered by arrival (`InOrder`), that a queued node has no
task and is queued once (`Membership`), and that an idle tree's queue is empty. `StopIsolated`
needs `CurrentTaskIsCurrent`: the code cancels `_current_task` because
`_current_node_id` matches, and only the invariant says the two belong together.
`OneTurn` is proved without the global commands (`NoGlobalCommand`), and with it that a `/stop` cancels
the task of its node and that nothing but an error event makes a running node deaf to it (`OnlyErrorsDeafen`); `NoLostWakeup`
with `/stop` only (`StopOnly`); section 5 says why not more. From the three together `ServesInTurn` shows that each
step of the tree is a step of `TurnOrder` or none: a message that joins the tree arrives, a `/stop` of one that waits
withdraws it from any place of the queue, and the last step of a task gives the next one its turn at once. That the
first message of the tree stays in the repository (`Rooted`), and that a busy tree's current node is the live one
(`BusyIsLive`), is what makes the abstract turn well defined.
What a turn hears of its client needs four books side by side (`CliInv`). `TextRight`: the buffer and the pipe are the
halves and newlines of the lines not yet read (`Encodes`), however the chunks were cut, so the next line taken is the
next one written. `WroteRight`: a client that tells the end of every response writes them one after the other,
an item at a time, and all items before the end (`Wholly`). `ParseRight`: one response at most is open,
the scope is its own, its marked keys are exactly the items told (`ScopeRight`, `SeenRight`, `ToldRight`), and the
session was told once. At the end of the process only the exit follows (`Said`, `ExitLast`). Numbers of scopes never
come again, which is why an item told in one response is not taken for one of the next.

**`OpenAIChatStreamProofs`** (all of `openai_stream` but the liveness of
`ServesMessage`; the safety half of that refinement is `IsMessageStream`). `Inv` says that
the builder's books agree with its view: every block is numbered
below the next index, the open blocks are the current text and thinking blocks and the started calls
(`Numbered`, `Tracked`, `Named`), and the client is level with the builder once
committed. One lemma for each method of the builder says that it keeps the books; the
actions compose them as the code composes the methods.

**`ProviderProofs`** (`WindowKept`, `SlotsConserved`, `NativeStreamKept`, `NativeServes`, `RequestsServedRight`,
`ClientHasResponse`). `WindowInv`: acquisitions
are in order, what was dropped is old, and the deque is no longer than the limit, so
the entry a new acquisition must be a window away from is among the expired
ones. `Slots` adds to `SlotsConserved` that nobody waits twice. For the native stream `NativeInv` says
that three books of the same blocks agree: the policy's segments, the tracker and the client's view (`Agree`,
`Segments`, `Stand`, together `Midway`, which holds between any two events of one chunk). Each event is shown to
change the three alike, and to take the client's view to one that is `Ahead` of it; `OneLive` is what leaves one
block open unless a late delta came, and `Bare` names the one fault
that a stream still under way may have: it ended without a block, which `unusual` tells. No fairness is in `ServesMessage` there, so `NativeServes` is proved whole.
A request's invariant (`RequestInv`) says of each step of the pipeline what the ones before it have settled: the route is that of
the name chosen last, an oversized request has the fallback, a conversion to chat has no server tool, each directive
is in the prompt once. That every id the API lists leads to the model it stands for
(`AdvertisedLeadHome`) is a lemma on the ids: they are distinct, and resolving one gives back the reference it was made from.
It rests on `SettingsAssumption`: each configured reference starts with a supported provider, which
`validate_model_format` of the settings enforces; names of requests, of modules and of a provider's list are arbitrary.
A response's invariant (`RespInv`) says that each piece which came is in one slot (`PiecesOnce`), a block that is open was told as
far as it came (`BlocksTold`), an item that was committed is told as it was committed (`ItemsTold`, `CallsKeepNames`), and that at the
end no block is open; the last event then has all slots in their order, since none is left uncommitted.

**`PersistentTreesProofs`** (`StoreKept`, `CompletedStaysSaved`, `TranscriptKept`). `PTInv` has a part
for each stage of a snapshot's way: `TimersInv` (what is dirty has a timer),
`PendingInv` (a clean store is in the file or in flight, and what follows it in
flight is `late`), `WipedInv` (only a late write brings a wiped tree back),
`FlushInv` (what a shutdown flushed is below every copy taken since). `CompletedStaysSaved` is an
action property from the same invariant: an older snapshot landing late is the
only step that takes a completed turn from the file, which `overtaken` records.
What the chat shows of a turn needs `TextInv`. The pieces of texts and thoughts ascend through the whole transcript
(`Ascends`), since the segment that the streamed block goes to is the newest of them (`BlockRight`); a client that
leaves out the starts of its blocks has nothing else open (`StartRight`). While results come as Tasks nest, the stack has just the
Tasks without one (`Nests`). When they come in any order, of the ids on the stack that extend one that extends no other, there are at
most as many as Tasks of such an id still to be answered (`StillOpen`): a count, since a result closes the last
id it matches, which need not be its own. `FitsAndFresh` holds of every transcript, and is a lemma about `render()`.
The proof corrected the model three times: the order of what is said held of a few events only as long as results could come in
the middle of a streamed block; and `nested` and `TasksClose` now tell apart ids that extend each other.

**`MessagingProofs`** (`OutboxKept`, `ChatLogKept`, `SessionsKept`, `StopAllStops`,
`PlatformsHold`, `ServerLivesRight`). The outbox's
invariant adds who is in the worker's hands and when (`PauseIsOver`), that a queue without repeats
loses its head only, and that versions in the map ascend but for `Late` calls.
The chat logs' adds `ClearKnows`: what a running `/clear` took down is what it deletes of its chat, or was lost
before; without it the end of the clear, which empties every log, would forget messages of its own chat too.
The CLIs need four layers, each proved with the ones before it. `ProcInv`: a
session belongs to the turn that created it and its process was spawned in it, which is what
`KilledAtExit` rests on. `TreeInv`: one turn of a tree at most is not cancelled. `MapsInv`: an id
that a turn holds was given by a turn of its tree, and whoever is in a map holds
the key (`PendingInv`, `RegisteredInv`); `AliasesAgree` and `RecordedIsOwn` are part of
it. `StopInv`: the manager knows the session of a turn that runs alone
(`KnownWhileCurrent`), a turn takes its session with it (`RemovedWithTurn`), and a
temporary id whose real one was forgotten is of a tree a stop has swept (`StaleIsSwept`):
else a reply to it could take the place of a session that still runs.
The platforms' adds that a cancelled note is pending no longer (`CancelledIsTaken`) and that every call
but the last two was followed by a counted try (`TriesAreCounted`). The server's life needs what was read,
at each stage of a start, to be no older than the end of the server before (`ReadsFresh`); that a task the shutdown
has waited for is over, so that nothing comes up behind it (`TasksAreOver`); and that a platform that is made
already has its CLI manager (`PlatformIsShown`).

**`AdminProofs`** (`RegistryKept`, `ModulesKept`, `McpKept`, `SettingsKept`). The registry's `RegInv`
follows each apply by its place and its work (`AppliersHold`, `StaleOnlyWhileApplied`).
The proof found a way to leak that three calls cannot show: an instance made
while an apply waits that took an *earlier* registry than the published one is closed by nobody; the property now names
it. `HooksInOrder` says how far the hooks are, and `McInv` that a mask sent back
is resolved against the file or recorded in `blanked`. `SettingsKept` needs the types and
`NothingUntold` only; the lemmas say that what a write leaves in the file is what was validated, that it keeps what
the update does not name, and that every change it makes is reported or one the update did not name (`aside`).

**`ServicesProofs`** (`RouterKept`, `IndexKept`, `ServerKept`, `FreebuffKept`). The router's invariant says who holds
which lock and which controls (`LocksAreHeld`, `HoldersWait`), which versions owners belong to
(`OwnersAreNew`, `OwnersAreKnown`), and that what requests use is current or
was dropped (`UsedAreCurrent`). The index's `IndexInv` carries the worker's stale `copy`
(`CopyIsReal`): what it will write back is real when it lands. For the two helper processes it is enough to
know which call holds the child (`ChildIsHeld`, `FbHeld`) and that a manager starts or stops alone (`StartsAlone`,
`FbAlone`) unless calls overlapped; the proof showed that a sibling's entry is lost only to a race for the port
(`OwnedIsRaced`), and the property no longer exempts overlapping calls.

How the proofs are laid out: an invariant is split into its named parts, each action has a lemma that
it keeps the invariant with a step for each part it can disturb, and the theorem combines them.

## 5. Where code and documentation differ

Two runs are counterexamples (`findings` of `PROJECT.json` quotes what they contradict):

* **An early stop strands the queue** (`tree_early_stop`). Cancelling a task that has not taken its
  first step drops it whole, with the `finally` that would have started the next node.
* **A named option is not dropped** (`named_option`). Of two requests under way that are both refused
  for `stream_options`, the second fails: the instance has opted out meanwhile, so it is not sent again.

Other disagreements met while modelling; the models follow the code:

* `cancel_tree` marks the tree idle while the cancelled task stops its CLI (`queue_manager.py:568`): a
  reply then starts beside it, though ARCHITECTURE.md:535 says one node at a time. `remove_branch` leaves ids
  queued (`queue_manager.py:716`), and the tree can be marked busy with one that starts nothing.
* The repair of a broken Task sends the arguments as the provider wrote them (`recovery.py:209`), where a normal
  Task is rewritten (`sse.py:185`); a continued text shows reasoning nobody asked for (`recovery.py:122`).
* A request asleep on the window goes out during a newer block (`rate_limit.py:197`, against its
  docstring at line 82); a shorter block replaces a longer one.
* Settings are read and cached before modules are loaded (`entrypoints.py:70`; docs/MODULES.md:27 and
  `app.py:103` want the reverse), so a provider that only a module declares stops the start. A failing module hook is not
  fatal under FCC_MODULES_STRICT, though .env.example:271 says so.
* The pipeline is built before the token is decoded (`routes.py:33`, `dependencies.py:118`), so the repository that
  README.md:650 promises to every session is never put into its prompt.
* A token budget below 4096 makes no attempt (docs/SETTINGS.md:144).

Limits of what the code promises, each visible in a model as an exemption of a property:

* *Trees*: replies attached during a global `/clear` run on in a tree no command reaches; a turn that outlives a clear
  can resurrect its tree; a queued turn that fails in its first step is shown as "Processing..." for good. An error event
  sets a node to ERROR while its CLI runs on (`node_event_pipeline.py:105`), and a `/stop` of it is then no step of the
  model and does nothing in the code (`queue_manager.py:595`), though README.md:600 says that it cancels the task.
* *Store*: an older timer snapshot may land after a newer one or a flush; after a restart in the same process too.
* *Chat log*: messages recorded while a `/clear` deletes others are forgotten undeleted; one failing chunk abandons the rest.
  A `/clear` deletes the messages of its chat and forgets those of every chat (`commands.py:232-275`, `session.py:231`).
* *CLIs*: a turn freed by a stop of everything can share its session with the next, whose pid a late stop may unregister;
  a second cancel while the manager's lock is taken leaves session and CLI; a session that opens after stop_all()
  has emptied the maps is reached by nothing but the exit.
* *Streams*: a tool call stopped unfinished and repeated by the recovery, and an error after `message_stop`, break the
  contract of a native stream, and so does an answer without a block or with dropped thinking alone: its `message_stop` is
  passed on (`native_sse_block_policy.py:196`) against `stream_contracts.py:162`, where the other transport adds a block
  (`openai_chat/stream.py:315-329`); parallel Tasks, and Tasks whose ids extend each other, close each other's subagent in the transcript.
* *Registry*: a request that read its settings before an apply caches a stale provider after it; instances made during
  a clean-up are never closed; a list answered after a failed apply fills a registry that was emptied.
* *MCP router*: a cancelled activation lets go while its owner runs, whose end wipes the next session; a reload drops an
  object that is being activated, and ends with KeyError at a name that another reload removed (`mcp_router.py:566`).
  An owner that has forgotten its session and still closes its HTTP client may meet the next one (`mcp_router.py:497-503`).
* *Graphify*: the registry loaded before an extraction is saved after it; a project left "queued" by a stop is queued by
  nobody again; overlapping starts leak or adopt a child. A forced exit ends the CLIs,
  whose pids are registered, and leaves Graphify's child running (`graphify_process.py:103-105`). *Freebuff*: a look at the status can make it forget a process.
* *MCP and settings*: a renamed server, or a module's server sent back masked, loses its secret; fields pending from
  an earlier apply are forgotten by the next.
* *Platforms*: a send that times out may be delivered twice; errors that will not pass are retried.

## 6. What is not modelled

* Web tools, the admin page's client, the manifest of its fields, installation and logging: I/O, layout and wording.
* The disabled sliding window (`rate_limit` 0), and the replacement of a provider's
  limiter when its configuration changes: the new one starts empty.
* Chats that repeat each other's message ids (ids are taken to be unique, as on Discord).
* Overlapping calls of stop_all(); arguments and environment of processes; contents of text and
  thinking, token counts and usage.

Out of the prover's reach, and left to TLC:

* liveness (`ServesTurns` and `ServesMessage` in their fair half, `QueueMoves`) and `ENABLED`;
* modules that use recursive operators (`TextParsers`, `ProviderRequests`, `QueuePositions`, and hence
  `ConversionsKept`, `RequestsSuitProviders`, `PlacesAreTold`): what a recursive definition computes for every input is
  an induction over data.

Every other property that a passing run checks is proved.

## 7. Plan

1. What recursive definitions compute (`TextParsers`, `ProviderRequests`, `QueuePositions`) and the fair halves of the
   refinements stay with TLC, with larger bounds when the code gains commands.
2. Each change of the code starts at the definitions that `map` gives for its lines, and ends with the proofs of their module.

To run: `tlc -config X.cfg M` for a configuration of module `M`, and `tlapm MProofs.tla`.
