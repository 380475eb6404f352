# A verification project for the OpenHands software agent SDK, server, tools and app

TLA+ modules, TLC configurations and TLAPS proofs for the parts of this repository
whose correctness depends on *order*: who holds a conversation, when an action may be
executed, what a crash leaves on disk, what a subscriber is sent, what an undo brings
back.  Paths below are relative to `src/`; `sdk/` is `openhands-sdk/openhands/sdk/`,
`server/` is `openhands-agent-server/openhands/agent_server/`, `tools/` is
`openhands-tools/openhands/tools/`.

`PROJECT.json` holds the machine-readable side: components, runs, the source lines each
definition models, one mutant per property, findings, hazards, theorems.

## 1. Inventory

The system is an SDK (a conversation that drives an LLM agent and its tools), an
HTTP/WebSocket server around it, tools, workspaces, and an application (`app/`) that
uses the SDK to work on repositories.

| Component | State | Operations | What is hard | Module |
|---|---|---|---|---|
| State lock `sdk/conversation/fifo_lock.py` | owner, count, queue of conditions | acquire, release | order, lost wake-ups, timeouts, exceptions in a wait | `FIFOLock` |
| Conversation `sdk/conversation/impl/local_conversation.py`, `sdk/conversation/state.py` | status, log, marks of blocked actions and messages | run, send_message, pause, reject_pending_actions, condense | callers in several threads, a stale read before the lock, a status written after it | `Conversation` |
| Agent `sdk/agent/agent.py` | none of its own | step: execute what is pending, or ask the LLM | partial failure of a batch, confirmation, re-execution | `Conversation` |
| Hooks `sdk/hooks/conversation_hooks.py` | marks kept in the state | block an action, a message, a stop | a mark and its event are two writes | `Conversation` |
| Event log `sdk/conversation/event_store.py`, `sdk/io/local.py` | one file per event; index and cache per process | append, scan, sync, read | several processes, a crash within a write, readers without a lock | `EventLog` |
| Event service `server/event_service.py`; publication `server/pub_sub.py`, `server/sockets.py`, `sdk/utils/async_utils.py` | the conversation, the task of a run, subscribers, pending futures | run, send_message, respond_to_confirmation, pause, restart, subscribe, publish | tasks of an event loop against executor threads; one coroutine per event | `EventService` |
| Remote conversation `sdk/conversation/impl/remote_conversation.py` | copy of the events and of the state | full sync, websocket events, reconcile, run and poll | pages and pushes overlap; the end of a run is learnt two ways | `RemoteConversation` |
| Conversation service `server/conversation_service.py` | table of services, directories | start, update, delete, list, restart, shutdown | awaits between a look and the write; crashes; runs that outlive a deletion | `ConversationService` |
| Webhooks `server/conversation_service.py` | queue, flush timer | call, post, retry, flush, close | cancelling a task that posts, retries | `WebhookSubscriber` |
| View and condensers `sdk/context/`, `sdk/event/` | none | from_events, cuts, condense, messages | batches, call/result pairs and tool loops must stay whole | `View`, `History` |
| Stuck detector `sdk/conversation/stuck_detector.py` | none | is_stuck | patterns over the tail of the log | `StuckDetector` |
| Text tool calls `sdk/llm/mixins/fn_call_converter.py` | none | history to text, reply to call | what was parsed is written and parsed again with every request | `FnCallConverter` |
| Cached repositories `sdk/git/cached_repo.py`, `sdk/plugin/fetch.py` | one checkout and a file lock for all processes | clone, fetch, checkout, reset | callers with different refs, failing git commands, reads after the lock | `CachedRepo` |
| App: call manager `app/backend/llm_call_manager.py` | permits, slots, circuit | call | reserving before sleeping, lists without a lock | `CallManager` |
| App: tasks `app/backend/runner.py`, `budgets.py`, `storage.py` | records, run directories, the workspace | create, run, read log, poll | steps that fail one by one, tasks that share a tree | `AppTasks` |
| App: patches `app/backend/main.py` | files | apply a unified diff by hand | offsets, repeated lines, headers | `UnifiedPatch` |
| Terminal tool `tools/terminal/` | screen, status of the last command | execute, poll, input, interrupt, reset | the end of a command is read off the screen | `TerminalSession` |
| Bash service `server/bash_service.py` | event files | start a command, two readers, timeout; a client polls | a counter shared across an await, cancellation | `BashService` |
| File editor `tools/file_editor/` | undo history | create, str_replace, insert, undo_edit | an entry is taken before the write, others edit the file | `FileEditor` |
| Patch tool `tools/apply_patch/` | files | parse and commit | fuzzy places, several files | `ApplyPatch` |
| Agent context, hook commands, MCP, search, browser, delegation, secrets, workspaces, routers, front end | configuration, external resources | | input/output and data, little control | none |

Interactions.  `LocalConversation.run` takes the state lock for each iteration and calls
`Agent.step`, which appends events through a chain of callbacks: the hook processor
(which may block), the event log, the user's callbacks (in the server the
`AsyncCallbackWrapper`, from there `PubSub`, from there sockets and webhooks).  Every
other call of a conversation takes the same lock for its own writes, with the
exceptions the hazards list.  The server runs the synchronous conversation in executor
threads and everything else on one event loop; a remote conversation is its client.
Before the first message a conversation loads its plugins through the repository cache.
Each LLM request shows the view of the log, as text where the model has no tool calls.

What makes the components correct: the lock is fair and loses nobody; an action that
has a result is not executed again, a blocked one never, one the user was asked about
only after a further `run()`; a pause holds; a run returns; a message sent to a running
conversation reaches the LLM; the persisted history is one append-only log whoever
writes it; a client that waited for a run has all its events; a conversation a client
was told of survives crashes until it is deleted; what the LLM is shown is whole; a tool
says "completed" of the command that is; undo restores; a patch is applied as meant.

## 2. Plan

Done, in this order: `FIFOLock`; `Conversation` over `ConversationLog`; `EventLog`
implementing `AppendOnlyLog`; `WebhookSubscriber`; `EventService` and, composed with it,
`RemoteConversation`; `View`, `History` and `StuckDetector`; `ConversationService`
implementing `ConversationStore`; `CallManager`, `AppTasks`, `UnifiedPatch`; the tools;
`CachedRepo` and `FnCallConverter`.  Proofs: every safety property that a run checks of the
lock, `Conversation`, `EventLog`, the webhooks, the remote conversation, the conversation
service and its cached repositories, the call manager, the tasks of the app, the file
editor, the Bash service, the terminal, and the history with its view and condenser
(section 5).

Left, in order of worth:

1. `Conversation` under `EventService`: `EventService` takes a run at the level of "works,
   logs events, ends in a status".  That every step of `Conversation` maps to such a step
   is argued in its header and not yet checked by an instance.
2. Delegation (`tools/delegate/impl.py`), ask_agent and titles, the hooks of a client.
3. The gemini editing tools and the tmux terminal.

## 3. Modules and the code

**FIFOLock.**  Variables are the fields of the class plus, per thread, where it is in
`acquire()`.  The internal mutex makes each stretch between two waits one action:
`AcquireReentrant`, `AcquireFree`, `Enqueue`, `Take`, `Expire`, `GiveUp`, `Release`.
`Interrupt` is an asynchronous exception inside `me.wait()`.  A queue entry is named by
the thread whose condition it is; after an interrupt it is `NoThread`, a condition
nobody waits on.

**ConversationLog** has what the control reads from a log: kinds of events, which
actions are unmatched, which message is the last, whether a condensation request is
open.  **Conversation** has one action per durable write, LLM call or tool call of
`Agent.step`, so the unlocked parts of other calls and crashes fall between them; a
section of another call under the lock is one action that needs the lock free.  `pc`
names the place (`loop`: between iterations; `sample`: about to ask the LLM; `emit`:
turning tool calls into events; `exec`: executing; and so on).  The history variables
`executed`, `unconfirmed`, `unseen`, `deniedActions`, `deniedMessages`, `held` are read
by properties only.  LLM answers, tool outcomes, hook verdicts, confirmation and stuck
detection are choices from constant sets.  Abstractions: `ThinkAction` is an ordinary
tool; the mark and the event of a blocked action (`Emit`), the two events of an invalid
call, the status and the feedback (if there is any) of a stop hook that denies, and the two writes of a restart are each one action; a condensation may hide a
message from the LLM and still counts as having given it.  The model starts with an
agent that is initialised.

**EventLog** has the directory (`files`, `text`) and, per instance, `_length`, the two
dictionaries and the file cache.  An append is `Call`, `Acquire` (lock and count),
`Sync` if the log is behind, then `Refuse`, or `Create`, `Flush`, `Complete`:
LocalFileStore creates a file before it fills it.  `Open` and `Read` take no lock.
`WriteFails` and `Crash` leave the file as it is.  An error in listing the directory counts
as an empty one, in a scan as in the count that `append()` begins with (`Listed`, with the
constant `ListFails`).  While a rebuild runs readers see an
empty index (`Index`).  An LRU cache evicts any one entry here.  **AppendOnlyLog** is
the abstraction: places are given once, in order, only the last entry can change.

**WebhookSubscriber** models coroutines on one event loop: code between two awaits is
one action.  A coroutine is named by the event that started it (a call that posts, or a
timer task), 0 is `close()`.  Cancellation is in two steps as in asyncio: `CancelTimer`
requests it, `Unwind` is the `CancelledError` where the task waits.  The HTTP server is
external.  Events arrive in order, as they do at the first webhook of a service.

**EventService** is the server's side of one conversation: `run()` creates a task, the
run logs events from an executor thread and ends in a status, each event becomes a
future (`AsyncCallbackWrapper`) and then a coroutine that walks the subscribers; the
service's own subscribers come first and may suspend it, the socket of the client last.
A run ends as finished, paused, waiting, failed or stuck (`RunStuck`); the client raises
for the last two.  The task of a run waits for the futures that are pending (`wait_for_pending`; with
`FlushTimesOut` it may give up) and then publishes the state.  Telemetry from LLM
threads, pauses, accepted confirmations and restarts are counted as `Extras`.
**RemoteConversation** EXTENDS it with the client: `phase` is where the caller is (full
sync page by page, send, run, poll, final reconciliation), `link` the websocket
(connecting, subscribed, broken, closed), `cached` the sorted list without duplicates.
A page or a connection may fail.

**View** is `View.from_events` and its helpers as functions of a log:
condensations applied, incomplete batches and unmatched calls taken out, manipulation
indices (`Units`, `Cuts`, `NextCut`), conversion to messages.  **History** writes every
log that steps, messages, rejections, malformed calls and `LLMSummarizingCondenser` can
write and looks at its view.  **StuckDetector** is `is_stuck()` with its four scenarios
over such logs, asked as `run()` asks it; `Pairs` is the reference it is compared with.
**FnCallConverter** has texts as sequences of tokens (tags, words, line ends):
`AsText` is what a model without tool calls is sent, `Reply` any reply from
`Thoughts`, `Bodies`, `Tails`, parsed together with the history and appended to it.

**ConversationService**: the table, the directories (`meta.json` and the status in the
base state), threads that run a conversation and may outlive its deletion (`orphans`),
deletion in two steps around the awaited `close()`, shutdown, crash and restart, and a
client that pages through the list.  **ConversationStore** is the abstraction:
created, retitled, removed, each once.  **CachedRepo**: a call is lock, look, clone or
fetch, checkout, reset, unlock, then the commit and the files are read; one git command
is one action.  Git is external and modelled as it behaves for `--depth 1` clones, which
know a single branch or tag.

**CallManager**: threads pass circuit, semaphore and pacing slot, then try; all times
are relative to the present, so no clock grows.  Nothing locks the list of 429s: each look
at its head (`Check`), each removal (`Prune`) and the final count (`Count`) are actions of
their own.  Two history variables say what this costs: `slips` counts the threads that
began to remove while another was at it, `slipped` is the time since the last such.
**AppTasks**: a task is a daemon thread
with a record in memory and files in its run directory; the browser polls both with a
cursor.  **UnifiedPatch** applies each possible diff of short files line by line.

**TerminalSession**: the screen is a sequence of prompts, echoes and numbered lines; the
shell moves between any two looks, and a look (`Complete`, `TimeOut`) may come before the
shell has taken what was typed, as it may after the 10 ms of the code.  Inputs reach the
process or, if that has ended, the shell; a command may be preceded by an export of secrets
whose observation is thrown away.  The history variable `clean` says that, since the shell
was started, none of the three has happened that can mislead the session: a look before
the shell took what was typed, an export that swallowed lines, an input that came to the
shell itself.  **BashService**: two reader coroutines, the waiter with its timeout, and the
client that polls.  A read or a save may fail and ends the reader (`ReaderFails`), and the
waiter writes an event for an error of its own (`Errored`); `failures` counts both.
**FileEditor**: one file, its history on disk, the second search of str_replace with
stripped texts, writes that fail and may leave any part of the new text (`WriteDies`), and
others that edit the file.  **ApplyPatch**: `Parse` (context search with its fuzz) and
`Commit`, one file at a time, each of whose writes and removals may fail (`CommitFails`).

**Modules for TLC.**  `MCConversation`, `MCEventLog` hold instances and symmetry.
`MCApp`, `MCTools`, `MCHistory` and `MCConversationService` put components that share
no state into one run each: `part` is chosen by the initial state and never changes, the
other components stand still, so the states of the run are the sum of the components'
and every property is about one of them.

## 4. Runs

| Run | Question | Distinct states | Answer |
|---|---|---|---|
| `lock` | 3 threads, nesting 2, timeouts, waits that end in an exception | 3 k | wake-ups and order are kept; no starvation while no wait is interrupted |
| `conv_execution` | 2 runs, condenser, no crash | 325 k | one result, one execution, blocked never, FINISHED is clean |
| `conv_confirm` | 1 runner, every LLM outcome, hooks, failing tools, crash | 970 k | nothing runs before the `run()` that accepts it, nor after its result; a pause holds |
| `conv_live` | 2 runs, rejecter, fairness | 202 k | `run()` returns, messages reach the LLM, WAITING has something to confirm |
| `event_log` | 3 threads in 2 processes, 2 failures, fairness | 175 k | one append-only log, acknowledged events are found; no deadlock |
| `webhook` | 5 events, batches of 3, retries, close, fairness | 295 k | events accounted for, live timer, what it covers is flushed |
| `remote` | a client and a server with one run, broken connections, failing pages, fairness | 495 k | after `run()` the client has all events; state after events; `run()` returns |
| `history` | logs of 8 events; stuck detector over 7; 2 replies without native tool calls | 237 k | the view is whole, cuts are safe, loops stay together, the detector is exact, calls are read back |
| `server` | 3 conversations, a crash, a paging client; 2 processes on one cached repository | 487 k | no zombie, complete pages, the promised store; the latest is the latest |
| `app` | 3 threads on a provider; 2 tasks and a browser, fairness; all diffs of files of 3 lines | 1.0 M | attempts keep to the rate, the circuit opens but for what joint trims drop, an end is final, the log arrives, a diff round-trips or is refused |
| `tools` | editor and patch tool with failing writes, terminal, bash service with a failing read or save | 3.8 M | undo restores, patches apply, "completed" is true in a clean session, output is whole unless a read or save failed |
| `conv_reject_race` | `ExecutedOrRejected`, **violated** | | `reject_pending_actions` rejects from a list read before the lock was taken (`local_conversation.py:628`): an action is executed and recorded as rejected |

The type invariants (`TypeOK`) of the modules are not in the runs' lists; those of
modules with proofs are proved, the others were checked once and hold.

### Counterexamples

Other things a docstring, comment or test says, and the code does not do.  Each is
a property stated in its module; TLC finds it violated in seconds (`AcceptedRuns` and
`StateConverges` in a minute, `IdsDistinct` in two) with the constants named.  Some have a configuration of their own, outside the regular
runs; otherwise take the configuration of the run, put the property in the place of its
properties and change the constant, in the configuration or, for parts of a run, in the
INSTANCE of the MC module.

| Configuration | Property | What the code does |
|---|---|---|
| `ConvTwoRuns.cfg` | `ConfirmedOnly` | a second loop takes a fresh question for the answer (`local_conversation.py:557`) |
| `ConvFailedAgain.cfg` | `ReportedIsOver` | a failed action stays pending and is run again (`agent.py:656`, "so the agent can correct itself"); with a crash so is one reported as interrupted (`event_service.py:481`) |
| `ConvBlockCrash.cfg` | `BlockedNeverExecuted` | a crash between mark and rejection unblocks an action (`agent.py:620`) |
| `ConvConfirm.cfg` with a condenser | `CondenseOnly` | `condense()` executes pending actions (`local_conversation.py:860`) |
| `ConvExecution.cfg`, `"block_with_context"` in `PromptHooks` | `BlockedNotSampled` | the mark of a blocked message is looked at in the first step only, and injected context makes another message the last one (`agent.py:239`): the LLM is asked to answer it |
| `ConvExecution.cfg` | `FinishedIsNotError` | the limit is looked at after the status: a conversation that finishes in its last iteration ends in ERROR |
| `EventLogStale.cfg` | `AckedReadable` | a text read during a write stays cached (`io/local.py:78`) |
| `EventLog.cfg`, readers | `Addressable`, `CorruptNotIndexed` | readers see an index that is being rebuilt (`event_store.py:217`); a half-written file is indexed (`event_store.py:191`) |
| `EventLog.cfg`, `ListFails = TRUE` | `Contiguous` | an error in listing the directory counts as no file: a log that is behind goes on and uses an index again (`event_store.py:141`) |
| `EventLog.cfg`, `IndexLimit = 1` | `AckedKept` | names beyond the last that has enough digits are not recognised (`persistence_const.py:7`; there at 100000) |
| `WebhookLoss.cfg` | `NothingLost` | cancelling a timer that posts drops its batch |
| `WebhookStuck.cfg` | `BufferedIsFlushed` | an event that arrives during a flush has no timer |
| `Webhook.cfg` | `TimerIsReset` | the timer is not reset (`config.py:70` says it is) |
| `RemoteEarlyReturn.cfg` | `ReturnsAfterRun` | `run()` of a client takes the end of an earlier run for the end of its own (`remote_conversation.py:908`, docstring at 854) |
| `Remote.cfg`, `MaxRuns = 2` | `AcceptedRuns` | an accepted confirmation is dropped while the task of the last run still waits for callbacks (`event_service.py:548`) |
| `Remote.cfg` | `StateConverges` | a slow subscriber reorders state updates: the client keeps the older one |
| `Remote.cfg`, `FlushTimesOut = TRUE` | `SnapshotAfterEvents` | callbacks slower than the timeout of `wait_for_pending` are overtaken by the state that ends the run (`async_utils.py:67`) |
| `Remote.cfg` | `Reconnects` | the websocket thread ends with the first lost connection (`remote_conversation.py:208`, docstring at 93) |
| `History.cfg` | `AlwaysFollow` | a user message or an error between a call and its result separates them for the LLM |
| `History.cfg`, `KeepFirst = 2`, `MaxSize = 8` | `NeverRefused` | `condense()` of a short conversation leaves a request that fails the next run |
| `History.cfg`, `KeepFirst = 3`, `MaxSize = 10`, `MaxBatch = 4`, `MaxLog = 13`, `Thinking = {FALSE}` | `CondensationShrinks` | one event is forgotten, its summary takes its place, and the next step condenses again |
| `History.cfg`, part `stuck` | `RepeatsAreDone` | actions that wait for approval count as repeated, with the results of others |
| `History.cfg`, part `stuck` | `CondensationIsSkipped` | a condensation breaks the monologue pattern (`stuck_detector.py:210` says not) |
| `StuckForever.cfg` | `StuckIsCurrent` | STUCK survives a user message and `run()` |
| `History.cfg`, part `text`, `Condensing <- TRUE`, `MaxRounds <- 3` | `IdsDistinct` | ids of calls are counted in the history that is sent; after a condensation they repeat (`fn_call_converter.py:1199`), which `CallsAreDistinct`, a premise of the view, excludes |
| `ServerGhost.cfg` | `DeletedIsGone` | a thread that was running writes the deleted directory again (`conversation_router.py:163`) |
| `Server.cfg` | `SeenOnce` | with a deletion between two pages the list starts again |
| `Server.cfg`, `Reuse`, `TornWrites` or `RemoveFails = TRUE` | `AckedKept` | an id used again, a crash within `write_text`, or a removal that fails brings back or loses a conversation |
| `Server.cfg`, part `cache` | `AlwaysLatest` | a cache first cloned by tag has no `origin/HEAD`: it stays at the tag (`cached_repo.py:335` says it never does) |
| the same, a second branch | `RefHonoured` | a shallow clone knows one branch: the checkout of another fails and the cached version is returned as success |
| the same, `Pins <- TRUE`, `"clear"` in `Faults` | `Pinned` | a new cache cannot check out the commit that was recorded (`plugin/types.py:72`) |
| the same | `ShaIsLoaded` | the commit is read and the files are loaded after the lock was given back |
| the same, `"kill"` in `Faults` | `Usable` | a clone that was killed leaves `.git`: a later call returns an empty repository |
| `App.cfg`, `Threshold` for `Threshold + slips` in the property | `CircuitTrips` | two threads trim the list of 429s at once and drop one that counts (`llm_call_manager.py:156`) |
| `App.cfg` | `QuietWhileOpen` | the circuit is looked at before the semaphore and the pause (`llm_call_manager.py:227`) |
| `App.cfg`, `"disk"` in `Faults` | `EndIsFinal` | a task that succeeded fails while its artefacts are written |
| `App.cfg` | `RunningEnds` | an exception before the `try` leaves a task running for ever (`runner.py:337`) |
| `App.cfg` | `PatchIsOwn` | tasks on one workspace show each other's edits |
| `App.cfg` | `ShownOnce` | a page that is not full is sent again (`storage.py:42`) |
| `App.cfg`, `Second <- 2` | `AllOrNothing` | the first file is written before the second is refused |
| `App.cfg`, `GitHeaders <- TRUE` | `Accepted` | a `diff --git` line within a patch is refused |
| `App.cfg`, `Dashed <- {1}`, or `Context <- 0` | `RoundTrip` | a removed line that begins with `-- ` is taken for a header; without context lines go to the wrong place |
| `App.cfg`, `Awkward <- TRUE` | `NoStrayFile` | stripping `a/` hits a directory that ends in `a` |
| `Tools.cfg`, part `bash` | `OrdersDiffer`, `SavedOnce`, `ClientExact`, `LastIsFinal` | both readers publish under one number (`models.py:310`); a timeout saves a chunk twice; the client appends events again with every poll; the last item need not have the exit code |
| the same, without the premise `failures = 0` | `Reassembled` | an exception ends one reader, the command goes on to exit code 0 without the rest of that stream (`bash_service.py:251`) |
| `Tools.cfg`, without the premise `clean` | `Honest`, `OneAtATime`, `ToldOnce` | the prompt before a command is taken for its end, when the shell is slower than 10 ms (`terminal_session.py:425`) or was given an input late; an export of secrets throws away what it shows (`impl.py:174`) |
| `Tools.cfg`, part `terminal` | `InputIsInput` | input meant for a process reaches the shell (`definition.py:39`) |
| `Tools.cfg`, `Limit <- 4` | `ToldOnce`, `Honest` | output that left the buffer is not told, prompts are miscounted |
| `Tools.cfg`, part `editor` | `UndoReverts`, `InsertIsALine`, `UndoCanBeRetried` | the first undo after a create changes nothing (`definition.py:163`); an insert joins a last line without an end; an undo that fails has lost its entry |
| `Tools.cfg`, `MaxFileSize = 5` | `UndoIsExact`, `ErrorsChangeNothing` | a file that has become too large is written, the answer is an error and the history has no entry |
| `Tools.cfg`, or with `Others <- {"outside"}` | `AllOrNothing` | a write that fails leaves the patch half applied (`core.py:454`); a path outside the workspace is refused when its turn comes to be written |
| `Tools.cfg`, `Others <- {"self"}` | `PatchIsApplied` | a file moved onto itself is deleted |

**Bounds.**  Each is a named constant in a guard.  Lock: three threads are the fewest
with a queue in which order matters.  Conversation: two runs, two iterations (one that
continues, one that ends), one or two actions (`OneTool`, `ToolsAndFinish`, `EveryCall`
say which batches the LLM may return), one crash.  Two actions are needed where one may
be done and another not; the races found need two threads.  `ExecutedOnce` and
`FinishedIsClean` exclude crashes and failing tools, with which the code does execute
again.  `conv_confirm` has one runner, no rejecter and no condenser: the counterexamples
show why.  Event log: two threads share an instance and one has its own, so appends
overlap within a process and between processes; two events suffice for one before and
one after another process's append, and for a duplicate; two failures are a failed write
and a crash.  Webhook: five events and batches of three give a poster, a timer and
`close()` at the same time, and a full re-queued buffer.  Remote: one run, one message,
one delayed delivery and one extra (an iteration, a failure of the network, telemetry, a
pause, an acceptance) make about six events against pages of four, so that a sync has two
pages and events fall between them.  History: eight events hold two batches, a
condensation and what follows it; a condenser of size 6 that keeps 1 forgets in them.
Stuck: thresholds of 2 and 3 in place of 3 to 6, in logs of 7.  Text: two replies, since
a reply is parsed with all before it; values of one and two lines, all malformed tags,
wrappers and stop words.  Server: three conversations for pages of one with something
before and after.  Cache: two processes, a branch, a tag, three calls, one push: a call
with a tag, one that fails, one that recovers.  Call manager: three threads against
concurrency 2 and threshold 2.  Patches: files of three lines over three texts, so that
lines repeat.  Tools: three edits, any of which may fail in its write, of files of up to two
tokens (a word, line ends) against a history of two entries; three commands, two lines and
one input or interrupt; two streams of three units in chunks of one, with one failure.

**Deadlock.**  Callers make a bounded number of calls and then stop, so all
configurations but that of the event log, whose threads may append for ever, say
`CHECK_DEADLOCK FALSE`.  In that of the lock an abandoned condition may stop everybody.
Where a component must not stop, a liveness property says so.

**Fairness.**  Lock: a thread that was notified or timed out goes on, and an owner
releases.  Conversation: weak fairness on `Step` (the LLM call has a timeout, hooks and
tools return) and on a rejecter that holds the lock, and strong fairness on `Loop`,
because FIFOLock, by `NoStarvation`, lets a thread in that keeps asking while the lock is
free again and again.  Event log: weak fairness on the thread inside `append()`.
Webhook: weak fairness on each coroutine (the loop runs what is ready, requests have a
timeout of 30 s).  Remote: weak fairness on the event loop, the threads and the client,
and on the socket that connects and is read (`CallerEnabled` spells out an ENABLED for
TLC's sake); none on breaking connections.  App tasks: a task's thread goes on and the
browser polls.  Nothing makes a user send, pause, publish or close.

**Symmetry** is used in `conv_execution` (runners) and `server` (ids of conversations),
which have no liveness property.

## 5. Proofs

TLAPS checks, for all values of the constants allowed by the `ASSUME`s and by the
premises a theorem states.  Each premise excludes something that does break the
property: without it TLC finds a counterexample on a small instance (those that a test
or a docstring contradicts are in section 4).

**Components and proof modules.**  A proof module EXTENDS its component.  As in the MC
modules, three proof modules also hold the theorems of a component that shares no state
with their own: `CachedRepo` is an instance (`R!`) of `ConversationServiceProofs`,
`AppTasks` one (`T!`) of `CallManagerProofs`, and `HistoryProofs` extends `FileEditor` and
has `BashService` (`B!`), `TerminalSession` (`T!`) and `StuckDetector` (`Stuck!`) as
instances.  `CacheIsUpToDate` proves `R!Latest`, `TasksEndOnce` proves `T!EndIsFinal`,
`OutputIsWhole` proves `B!Reassembled`, `CompletionIsHonest` proves `T!Honest`,
`DetectorIsExact` proves `Stuck!Exact`: the properties that the runs `server`, `app`,
`tools` and `history` check as `Latest`, `EndIsFinal`, `Reassembled`, `Honest` and `Exact`.

### FIFOLockProofs

`TypeCorrect`, `CountCorrect`, `QueueCorrect`, `NoBarging`, `FirstInFirstOut` and
`WakeupsArrive`, from `LockInv`: types, `OwnerCount`, `QueueIsWaiters` and `WokenMayTake`
together.  Neither is inductive alone: that a notified thread is at the front holds
because nobody is queued twice and nobody takes a free lock past a queue.

### ConversationProofs

Everything rests on `ConvInv`: the types, that the log names known actions only
(`Known`), and per thread (`ThreadInv`) that a thread inside a step holds the lock and
what it still has to execute is *unmatched in the log now*.  That is what mutual
exclusion buys: results are appended under the lock, so nobody settles what the holder
has collected (`ResultKeepsOthers`, `AppendKeepsPending`).  `condense()` appends without
the lock, and its event settles nothing.

| Theorem | Property | Premises | Added to `ConvInv` |
|---|---|---|---|
| `ConversationTyped` | `TypeOK` | none | nothing |
| `ResultsAreFinal` | `ResultIsFinal` | none | nothing |
| `RepeatsAreRejections` | a second result is a rejection from outside | none | itself: `RepeatsRejected(log)` |
| `ResultsAreUnique` | `OneResult` | no rejecter (`ConvRejectRace.cfg`) | who rejects at all |
| `ActionsExecuteOnce` | `ExecutedOnce` | no crash, no tool that raises (`ConvFailedAgain.cfg`) | `ExecutedInv`: what was executed is settled, or is about to be by the thread that did it |
| `BlockedStaysUnexecuted` | `BlockedNeverExecuted` | no crash (`ConvBlockCrash.cfg`) | `BlockedInv`: until the rejection is in the log there is the mark, or the thread that took it |
| `FinishedLeavesNothing` | `FinishedIsClean` | no crash, no tool that raises | `CleanInv`: within a step what is pending is exactly what the step has still to do |
| `AskingIsMeant` | `AskedAboutPending` | nobody condenses | `AskedInv`: WAITING, and no thread within a step but at its end |
| `OnlyConfirmedRuns` | `ConfirmedOnly` | one runner (`ConvTwoRuns.cfg`), no rejecter, nobody condenses | `UnconfirmedInv`: while something asked about is pending, the runner is out of its loop |
| `PausedIsHeld` | `PauseHolds` | one runner, nobody condenses | `HeldInv`: where the runner may be during a pause |

The number of runners, rejecters, condensers, actions and crashes is arbitrary wherever
the premises do not name it.

### EventLogProofs

All three from `~ ListFails`: an error in listing the directory does let an index be used
twice (section 4).  `NoIndexTwice` (`Contiguous`), for any number of processes, threads,
crashes and failed writes, from `LogInv`: the places of `append()` after the lock exclude each other
(`Exclusive`), a log in sync has exactly the length of the directory (`InSync`), and no
log counts more files than there are (`NotAhead`), so "not behind" means "exact".  A log
that is opened cannot disturb an append, because a thread inside `append()` belongs to a
log that is open already (`Attached`).

`AcknowledgedIsFound` (`AckedKept`) and `FilesAreAppendOnly` (`IsAppendOnly`, the
refinement of `AppendOnlyLog`, by `Spec /\ []HasRoom`) add `KeptInv`: ids are distinct
(`DistinctIds`), an instance knows the id of every file below its length (`Knows`), a
thread that writes has its file (`Writing`), what was acknowledged is whole (`Stored`).
`HasRoom` says that the log is not longer than the names its regular expression
recognises; `AckedKept` fails beyond (`IndexLimit = 1`).  `FewEventsHaveRoom` discharges
it: with no more events than names the log always has room.  In the refinement `Create`
is `Reserve`, `Complete` is `Finish`, everything else a stutter.

### WebhookProofs

`WebhookTyped` and `EventsAccounted` from `WebhookInv`: a coroutine that is about to take
a batch holds none (`EmptyHanded`), an event names a coroutine not yet in use (`Fresh`,
`TimerStarted`), what a cancelled task drops was recorded when it was cancelled
(`CancelledKept`).  With `WebhookLoss.cfg` this says that cancelling a timer that posts is
the one way to lose an event.  `TimerStaysAlive` is `TimerIsAlive`, inductive with
`WebhookInv`.  `NothingPostedTwice` adds `Apart`: queue, batches and what the server surely
has share no event, however often batches are put back.

### ConversationServiceProofs

`ServiceTyped` and `ServiceHasNoZombie`, whatever fails, from `ServiceInv`.  For a service
whose ids are not used again, whose writes are whole and whose removals succeed
(`~ Reuse`, `~ TornWrites`, `~ RemoveFails`, each necessary) `ServiceKeepsAcked` and
`ServiceKeepsPromise`, the refinement of `ConversationStore`.  `StoreInv`: the metadata on
disk is a function of what was answered (`MetaIsAcked`), a conversation in the table is
saved with the title it has (`ListedIsSaved`), what is being deleted cannot be listed
(`DeletingIsUnlisted`), nothing is listed while the process is down (`DownIsEmpty`).  Each
step is then one of the store or a stutter, one lemma per group of actions.

`PagesAreComplete` (`PagesComplete`, from `~ Reuse`; the property itself is about clients
none of whose conversations is deleted between two pages, `SeenOnce` shows why).
`PagesInv`: a listed conversation is in the order of creation once (`CreatedOnce`), and
what a client has seen is a contiguous piece of that order, before which lies only what
was created after the client began (`Segment`).

`CacheIsUpToDate` for `CachedRepo`, unless git is killed: `RepoInv` says who holds the file
lock (`Locked`), that a cache that knows its default branch was cloned from it (`Origin`),
and, at each place of a call, how old what it has reached may be (`Along`).

### CallManagerProofs

`CallsKeepPermits` and `CallsArePaced`, for any number of threads and permits and any
interval.  What `RateBound` bounds is the rate of first attempts, over any period at most
one per `MinInterval` and `Concurrency + 1` more; two single calls may be closer together,
because a thread reserves its slot before it sleeps and may wake late.  `PacingInv` adds
`Slots` (beyond any time *n* to come, `next_allowed_at` is covered by one interval per thread
that sleeps beyond *n*, and one more) and `Ledger` (attempts made and slots handed out are at
most what `next_allowed_at` has moved by, and one slot per permit).  `RateBound` alone is not
inductive: threads sleep outside the lock, and what they will do when they wake must be paid
for in advance.

`TheCircuitTrips` (`CircuitTrips`), for any number of threads that append to and trim the
list of 429s in any interleaving.  `CircuitInv`: counted from the end, the list agrees with
the true history of the window (`Aligned`); it reaches back at least to the last slip
(`Since`); a thread that removes one has found one that is too old, unless there was a slip
(`Dropping`); those that are about to remove are at most what the list has too much and the
slips (`Debt`); and the history is oldest first (`OldestFirst`).  So the list is short by
at most the slips, which is what the property allows for.

For `AppTasks`: `BudgetIsKept` and `PatchComesFirst`, whatever fails, and `TasksEndOnce`
where the disk does not (`"disk" \notin Faults`), from `TasksInv`: status follows place
(`Reports`), the patch is there before success is said (`Diffed`), steps are counted
(`Counted`), and a summary is the status it was written from (`Summed`).

### RemoteConversationProofs

About client and server composed, for any number of runs, messages, connections, late
events and any page size.  Two invariants, because the second needs a premise:

* `SyncInv` gives `RemoteTyped`, `CacheStaysOrdered` and `NothingIsMissed`
  (`CompleteAfterRun`), with no premise: the socket may do what it likes.  Parts: the
  pages read so far are those before the cursor, in order (`Paged`); during the final
  reconciliation whatever was logged when the client saw the end, and lies before the
  cursor, has been fetched (`Covered`); ids are given once and what the end of a run has to
  wait for is waited for (`Numbered`).
* `OrderInv` gives `SnapshotComesLast` (`SnapshotAfterEvents`) from `~ FlushTimesOut`,
  i.e. `wait_for_pending` does not give up.  Parts: what a snapshot claims to come after is
  logged, and neither on its way to the socket nor behind it on the wire (`Kept`); a client
  is ready exactly while attached (`Attached`); on a connection that holds, every event of
  the log is with the client, on the wire, or on its way (`Arrives`).

`Merge` and `Bisect`, with which the client sorts what arrives, are recursive functions;
what they do is shown by a least counterexample (`Smallest`), since induction needs an
operator as a parameter.  The proofs make no use of the order in which `Next` lets a
client's thread read the wire, so they hold for every interleaving of receiving with
fetching, polling and sending.

### HistoryProofs

`ViewStaysMatched` (`Matched`) and `HistoryTyped` (`TypeOK`), for any number of events and
parallel calls, any sizes and limits.  Two arguments meet here.  The filter: one pass of
each part suffices, because a batch is dropped whole and results go with it
(`WholeIsWhole`, `FilteredIsMatched`), so the view of any log is matched
(`ViewIsMatched`) if condensing adds no call (`OutputIsLogged`) and no two actions have
one call id (`CallsAreDistinct`).  The log: these two hold of every log the steps write.
`Logged`: ids are places (`Placed`); an action's call number is at most the length of the
log and no other action has it (`CallsOnce`, so the next response's numbers are new); a
result answers an earlier action (`Answers`); a condensation forgets only what precedes it
(`LooksBack`), which in turn needs that ids of the view are ids of events or, negated, of
condensations (`OutputIs`, `ShowsIs`).  `Fits` says what may be appended, `ExtendKeeps`
that appending it keeps the invariant, and one lemma per step that what it writes fits.
That the calls of a response get new numbers is how the model makes ids: in the code they
come from the provider, or from the converter, which repeats them after a condensation
(`IdsDistinct` in section 4); the theorem holds where they are distinct.  `View` and
`History` are built from recursive functions.  Existence of such a function, and what goes
over from each value to the next, is proved once (`Computes`, `Recursion`, `Reached`), the
induction being over a set of numbers (`Smallest`).

`CutsStaySafe` (`CutsAreSafe`) and `LoopsStayWhole` (`LoopsWhole`), for any limits of the
condenser.  Neither holds of an arbitrary log: what a cut may not separate (a unit) is read
off the view, while the filter looks at the whole log, so a condensation could take away
more than its slice when a part of what belongs together was hidden before.  `Kept`, the
inductive invariant (`LogInv` is `Kept` of the log), says that it never is: an action, the
other actions of its batch and its results are shown or forgotten together
(`WholeOrHidden`); an action without a result is not forgotten (`PendingShown`), so the
result that comes later has its action in the view; the view is in the order of the log
(`InOrder`) and a batch has the number of its first action, which is written before the
next batch begins (`Batched`).  A step either appends what `Follows` allows
(`FollowsKeeps`) or condenses between two cuts (`NextIs`, `CondenseIs`, which needs that
the search for the tail to keep ends with a place of the view, `SearchIs`); and a cut lies
outside every unit (`UnitsStay`), so a condensation keeps `Kept` (`CondenseKeeps`) because
`Condense` waits until nothing is pending.  Then the filter hides nothing
(`NothingHidden`), and the view after a condensation is the view before it without the
slice (`KeptIsSafe`).  For `LoopsWhole`, an action with thinking blocks and a call behind
it, with only calls and results between, are in one unit (`LoopUnit`): the thinking action
is the first of its batch, and the batches between begin behind it (`BatchesInOrder`).

`FrontStaysKept` (`FirstKept`, which no run checks): the search for the tail never ends
before `KeepFirst`, and the cut taken there is not before it either (`NextCutIs`,
`SliceOf`); so nothing is taken away up to it, and the summary comes to stand behind it
(`CondensingIs`, `CondensedFront`).

`UndoRestores` (`UndoIsExact`), for `FileEditor` with any texts, any length of history,
failing writes that leave anything behind, and other writers, as long as the file can be edited
(`[] ~ TooLarge(file)`; `MaxFileSize = 5` shows why).  `HistoryInv`: entries are numbered
upwards and a new number is not in use (`Fresh`); counted from the end, entries and edits
belong together (`Aligned`), which survives the oldest falling out (`OldestProperties`).

`OutputIsWhole` (`B!Reassembled`), for any two streams, any chunk length, a timeout and
failing reads and saves at any time; the property speaks of the commands of which none
failed, so the invariant is `WholeInv`: while `failures = 0`, `BashInv`, which says where each unit read is: what a reader has taken and not saved is
in its buffer (`Holds`); what it saved is in one event per order, the units after one
boundary up to the next (`Cut`), below the order it is at (`Reach`); and exit code 0 is
written only after the main task has waited for both readers (`Open`).  The union over the
orders is then the stream.

`CompletionIsHonest` (`T!Honest`), `LinesToldOnce` and `CommandsOneAtATime`, for the terminal
with any commands, outputs, polls, inputs, interrupts and exports, as long as the screen is
never full (`[]Room`).  Each property speaks of a clean session (section 3), and so assumes
what the code only makes likely by sleeping 10 ms; section 4 says what happens in others.
The invariant is `CleanInv`: calls and observations have their fields (`Shaped`) and, while
`clean`, `TerminalInv`: the screen ends in a prompt exactly when the shell waits for a
command; a prompt beyond those counted when the call began is there only if the command
ended (`AtShell`, `AtCaller`); and what was told followed by what is still to be told are the
lines printed, in order (`ToldSoFar`).  A new shell is clean whatever was before
(`ResetKeeps`), and nothing else makes a session clean again (`CleanStays`).

`DetectorIsExact` (`Stuck!Exact`, which the run `history` checks as `Exact`), for any
thresholds above zero, contents, and numbers of events and of calls in parallel.  The
detector collects the newest calls and the newest results apart from each other, and looks
at neither's partner; that this says the same as the pairs has two parts.  For a log, if
calls and results come in pairs, the two lists that its collection makes are in step
(`Behind`, kept from each event to the next: `BehindGoesOn`, `InStep`), so the i-th newest
of one belongs to the i-th newest of the other (`PairsAre`, `NewestIs`), and each scenario
is what the pairs say (`SameIs`, `StuckIs`).  For a run, a call must have no second result
and no result from before the user's message (`SinceIs`): `Sound`, the inductive invariant,
says that an id is a place, a batch is contiguous, a result is behind its action and the
only one, and belongs to the last batch before it or to a later call (`OfTheLast`), which
the next response keeps because it waits until every action is answered (`LastOpen`).  The
premise `Reachable` is that the smallest of the other thresholds, below which `is_stuck`
does not look at all (`stuck_detector.py:76`), is at most twice the alternating one.  It
holds of the defaults (3 and 6).  It is needed: the settings admit
`alternating_pattern = 1` with the others at 3, and TLC then has a call and its result that
alternate by the definition and are not looked at.

### Assumptions, and what is only model-checked

The assumptions are those named `ASSUME` in the modules: disjoint sets of threads, bounds
that are natural numbers, a positive buffer, cache and nesting bound.  Every module
that states one is extended by the module of a passing run, where TLC evaluates it;
`RepoAssumption`, `AppAssumption` and `ConverterAssumption` are definitions that the MC
modules assume of their instances.

Only model-checked:

* all liveness: fairness and ENABLED are beyond the prover;
* what recursive functions and folds over texts and logs compute, which would need
  induction over data: `RoundTrip` (`UnifiedPatch`), `PatchIsApplied` (`ApplyPatch`),
  `ReadsBack` (`FnCallConverter`);
* `ExecutedOrRejected`, which is violated.

## 6. Not modelled

Components with status `not_modelled` in `PROJECT.json`, with their reasons.  Most are
data or input/output with little control: prompts, skills and contexts
(`sdk/context/`), hook commands (`sdk/hooks/executor.py`), confirmation policies and
analysers (pure predicates, which `Conversation` takes as a choice), schemas and MCP
clients, search and browser tools, secrets, workspaces and containers, routers, the
analysis and prompts of the app, the front end, examples and workflows.  Delegation runs
whole conversations in threads that it joins; each is a `Conversation`, the parent only
waits.

Within modelled components: `send_message(run=True)` of the server, which starts a loop that
no task tracks (`event_service.py:311`; the modelled client sends `run: False`,
`remote_conversation.py:834`, and what two loops do to each other is in `Conversation`); the
status DELETING, which webhooks are told and no state holds; the tmux terminal, special keys and pagers; encodings and
binary files; the gemini editing tools; ask_agent, titles, secrets and client-side
hooks of conversations; `resend_all` of sockets; the pipeline condenser and the wording
of summaries; provider routing and retries inside the LLM layer (`Conversation` takes
their outcome as a choice of replies and exceptions); the clearing and paging of bash
events; the reading of plugin manifests.  The map names what is modelled line by line.
