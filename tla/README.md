# Verification of the mAIvn Python SDK

TLA+ models of the parts of the SDK (`src/src/maivn`) in which threads, event loops, processes,
files and a remote platform meet, the TLC configurations that check them on small instances, and
proofs, checked by TLAPS, of the properties that matter most for every size.

Paths below are relative to `src/src/maivn/_internal/` unless they start with `src/` or `events/`.

## 1. The system

The SDK is a library inside somebody else's process. Declarations (agents, swarms, tools, skills)
are compiled to requests; a client sends them to the platform and streams events back; tools run
locally and their outcomes are sent up. Most of the 190 source files translate data. The ones that
keep state across threads, tasks, restarts or lost messages are these.

| Component | State it keeps | Operations | Interaction | What is hard |
|---|---|---|---|---|
| Scheduled jobs, `compat/scheduling.py` | flags of the job, active and queued runs, threads, counters, history | `start`, `stop`, `pause`, `resume`, `trigger_now`, timer loop, execution of a run with jitter, slot, retries and callbacks | timer thread, a thread per scheduled fire, callers of `trigger_now` and `stop`, callbacks that call the job again; one re-entrant lock and condition | order of arrival, wake-ups, who finishes a record, stopping from inside a run, draining |
| Pool leases, `transport/leases.py` | owning loop, users, closing, idle future | acquire, release, close | clients of several event loops share one injected HTTP pool | sockets cannot change loops; the pool is closed while others wait; the close may fail; waiters are cancelled |
| Stream bridge, `api/async_stream.py` | a queue of one item, a space signal, a close request | start, get, close; the asynchronous `_drain` | the caller's thread, a worker thread, an event loop that is its own or that of an owning invocation | wake-ups across threads, a close at any point, errors that must reach the caller |
| Local file watcher, `local_file_watch.py`, `local_file_state.py`, `local_file_scan.py` | SQLite journal: baseline, cursor, pending events; candidates in memory | baseline, scan, deliver | other processes write the directory; a receiver accepts events; the process ends and is started again | a crash between two transactions, lost answers, a full journal, files that change while they rest |
| Serving and claiming, `serving.py`, `claiming.py`, `retry_policy.py` | the process id, the held claim, the keepalive | announce, heartbeat, re-announce, stop, claim, run, report, hand back | a heartbeat task and a claim loop side by side; the platform's rows and leases; other processes | lost answers, leases that run out, a platform that forgets, Ctrl-C at any await |
| Event bridge, `events/_bridge/` | live queue, bounded history, fingerprints of interrupts, number of subscribers, closed flag | emit, replay from a cursor, drain, close, reopen | one producer, several SSE subscribers that share one queue, browsers that lose their connection | eviction against cursors, competing subscribers, reopening under a reader |
| Local tools, `client_stream.py`, `tool_runtime.py` | seen calls, pending outcomes and batches; reservations, results, completion events, serialized lanes | execute, batch, flush, submit; resolve, retry, revise, record | platform events, one task per call, worker threads | calls delivered twice, cancellation with uploads in flight, readers that wait for producers |
| Decision flows, `decisions/` | tasks of stages and questions, limits | gate a call, run a plan, drain | decision endpoint, callers that cancel | repeated cancellation, several completions at once |
| Hooks, `scope/execution_hooks.py` | which chains were fired, active assignments | wrap a stream, report firings | two nested generators over the client's stream | a caller that leaves at any yield |
| Bound threads, `thread.py`, `client.py` | a lock, the position, the session | send, stream, replay, cancel on close | platform, other handles on the thread | posts that fail, streams that break, sessions of others |
| MCP client, `compat/mcp.py` | the child process, request ids, the queue of answers | start, initialize, call, close | threads that call tools; a reader thread; the server | timeouts with late answers, the end of the process, two first calls |
| Private artifacts, `private_artifacts.py`, `private_file_intake.py`, `tool_files.py` | retained proofs | publish the files of a call, authorize, redeem or recover, upload, poll | the vault and the platform; threads that share the client | a credential delivered once, retries, a dictionary replaced without a lock |
| Private data, `automatic_vault.py`, `private_*.py` | the opened store, placeholder maps | open, store, replace | native vault, account identity | two callers opening at once |
| The rest | none that outlives a call, or one value under one lock | transport, SSE parsing, scopes, tool graph, schemas, options, triggers, hosted jobs, skills, tunnel, set-up commands, reporters, telemetry, normalisation | | |

What makes each correct:

* **Scheduled jobs**: never more active runs than `max_overlap`; the queue is first in, first out; no
  run waits beside a free slot; each record is finished once; `replace` keeps the latest; a drained
  `stop` leaves nothing; nobody waits for himself; fires and stops end; `max_runs` is a maximum.
* **Pool leases**: one loop at a time; never closed in use; no waiter left behind.
* **Stream bridge**: the caller waits for the source only; an end means everything; `close` releases
  the source; the source does not run ahead.
* **File watcher**: what is recorded is delivered in order and at least once; the cursor and the
  journal agree at every moment a process may end; only files at rest are reported; everything is, in
  the end.
* **Serving**: every claim taken gets one verdict; it is handed back while the platform still knows
  the process; a fire is settled in the end; Ctrl-C leaves nothing behind.
* **Event bridge**: history and queue keep within their bounds; a browser that comes back receives what
  the history still holds, in order and once; it sees the end of the turn; a turn asks once.
* **Local tools**: a call is executed once and answered; every call ends; the value a reader gets is that
  of the planned producer; one thread at a time in a serialized toolset.
* **Decision flows**: no task outlives its call; a gate decides; nothing follows a rejection.
* **Hooks**: what ran before is answered by what runs after.
* **Bound threads**: a replay skips nothing; a stream that opted in is cancelled, unless it was over.
* **MCP client**: a thread gets its own answer, or learns of the end of the process.
* **Private artifacts**: each file is saved once, and in the end, wherever its publication was interrupted.

## 2. Modules

| Module | Models | Proofs |
|---|---|---|
| `ScheduledJob` | `compat/scheduling.py`, class `ScheduledJob` | `ScheduledJobProofs` |
| `PoolLease` | `transport/leases.py` | `ClientProofs` |
| `StreamBridge` | `api/async_stream.py` | `StreamBridgeProofs` |
| `LocalFileWatch` | the watcher, its journal and the directory | `FilesProofs` |
| `Outbox` | what the watcher promises: an abstract specification that `LocalFileWatch` implements | |
| `AgentWork` | `ServingSession` and `WorkLoop` of several processes, and the platform they use | `AgentWorkProofs` |
| `EventBridge` | `events/_bridge/`: the bridge, its generators and one browser | `EventBridgeProofs` |
| `ToolRuntime` | `tool_runtime.py`: the calls of one invocation and the tools that read one another | `ToolsProofs` |
| `LocalTools` | `client_stream.py`, `stream_with_local_tools`: the pump between stream, tools and consumer | `ToolsProofs` |
| `DecisionCall` | `decisions/`: calls gated by decisions, plans, batches | `TurnProofs` |
| `ScopeHooks` | `scope/execution_hooks.py`: hooks around an invocation and around assignments | `TurnProofs` |
| `BoundThread` | `thread.py` and the streams of `client.py` | `TurnProofs` |
| `McpClient` | `compat/mcp.py` over stdio | `ClientProofs` |
| `PrivatePublish` | publication of the private files of tool calls | `FilesProofs` |
| `MCClient`, `MCFiles`, `MCTurn`, `MCTools` | sums of components, for TLC | |

An `MC` module of the last line adds up machines that share no state: a variable `machine` says which
one moves, and the others keep their initial state. A run of the sum is a run of each of them, with the liveness
and fairness of each; where a liveness property is about one machine, the module states it under that condition.

Operators marked *Mutation* in the modules are plausible bugs: each replaces one definition of the
model and breaks one property. No specification uses them.

### ScheduledJob

One job. A critical section of `_state_lock` is one step, and so is what a thread does between two
accesses to shared state. `pc[r]` is where the thread of fire `r` is (`launch` to `gone`), `fin[r]`
how far `_finish_record` has come for its record; finishing is a machine of its own because the
thread of the run, the fire that supersedes it, or `stop(drain=False)` may be doing it. `tpc` is a
timer thread (`_run_loop`), `cpc` a caller of `start` or `stop`. `queued`, `active`,
`active_threads`, `execution_threads` are the collections of the code; `asleep` are the threads in
`_slot_available.wait()`, so that a notification that reaches the wrong thread can be told from one
that reaches all. A manual run made from inside another run shares its thread: `thread[r]`.

Abstracted: wall-clock time (a sleep may end at any time, so a fire may be on time or late, and
`misfire='skip'` may or may not skip it), the schedule, the length of backoff and jitter, and what
the runner computes (it ends with any of `Outcomes`). `Pauses`, `StopsFromRuns`, `NestedTriggers`,
`BaseExceptions`, `StopTimeouts` say which of the things a caller can do happen in a run.

### PoolLease

A program counter per lease. `acquire` is tried again after every wake-up, as in the code. A future is
a number, `resolved` those that are done; the close is three steps (aclose, reset of the pool, result
of the future), because newcomers may come in between. A waiter may be cancelled, opening may fail, closing
may fail and then poisons the pool.

### StreamBridge

`drain` is where `_drain` is. A step between two awaits of `_drain` lets the consumer's thread in but
no callback of the loop; callbacks (`calls`) run where `_drain` is suspended. `item` is what
`_enqueue_from_async` was called with, `Follows` where `_drain` goes on when it returns. The worker's
fallback (`FallBack`) queues the exception and the sentinel when `_drain` raised, was never started
(`Refused`: the owning invocation no longer runs), or could not open the source. The caller may leave
at any item, and Ctrl-C may end its wait. An owning loop may cancel the drain once. Assumed: a source
lets `CancelledError` through.

### LocalFileWatch and Outbox

A scan takes one snapshot and examines the paths in order; each journal transaction is one step, and
the process may end between any two. The snapshot is atomic: the code reads one `lstat` per file and
two files do not depend on each other. An identity is a revision (size and mtime) and a
completion marker. A quiet period may be over or not over whenever it is asked for; a
candidate must have been seen unchanged by two scans. `Exit` may keep the candidates, as when a
watcher object is entered again, or lose them. `SendFails` is a request or an answer that is lost.
`Outbox` knows nothing of files: record, accept, settle. `config` holds the options of the watcher, whether it waits for
markers and whether it reports what is there when it begins; `based`, a history variable, is what the scan found that took
the baseline.

### AgentWork

A process is a `session` (heartbeat, announcements, stop) and a `loop`. `Request` is the shape of every
call: the platform does its part and the process acts on the answer, or it hears nothing, whether the
request arrived or not. Where a cancellation between the two matters (an announcement, a claim) the
answer is a step of its own. `told` is what was said of the last claim. The platform's row and lease are
external and modelled from how the two files use them: a new id with every announcement, 404 for an id it
does not know, 409 for a claim whose lease is gone, 401 for a revoked key, claims refused under an old id.
Claims are asked for one at a time, as `WorkLoop` does.

Abstracted: durations; the retry budget of `_with_retry` (a call that heard nothing may be tried again or
given up); the `completed` event that `_perform` emits to the listener even when the report was refused or never
arrived, which the tests of the repository characterise.

### EventBridge

`hand` is where `emit` is between history, observers and queue; `gen[g]` is a generator of
`generate_sse` (replaying, polling, detaching). History and queue are sets of event numbers, as their order is that of
emission. One browser is followed: it reads one generator, loses its connection with or without the server
noticing, and comes back with its cursor, which the history may no longer hold. Other generators are somebody
else's and take events away from it. `excused` are the events it may miss, each with a reason that the code states: a
policy that drops, an observer that raised, another reader. A turn is one of the plans of `Turns` under one policy
with one `stream_max_history`, and may be followed by `reopen()`. Left out: normalisation, redaction, status deduplication (off by default), the registry.

### ToolRuntime

Calls are tasks of one loop; between two awaits a task takes several steps and no other moves (`Busy`). `reserved`,
`results`, `failures`, `event` and `fired` are the dictionaries keyed by tool; completion events are
numbered, so that a signal that was set for an earlier round can be told from the current one. `lane` is the lock of a
serialized toolset with its waiters and `worker` the threads inside, which outlive a cancelled task. `branch` and
`claims` are the revisions of a failed root call. What the platform calls is one of the `Scenarios`; results are
identified by the call they come from. Left out: validation, private placeholders, hooks and events of a call.

### LocalTools

`tasks` are the tool tasks in order of delivery, `posts` the batches; a layer is flushed when a phase starts. The producer
reads, drains its batches and closes the source; the consumer may leave or be cancelled, also again while the generator
ends. A failed upload or tool ends the producer with an exception that must come out at the consumer.

### DecisionCall

`stage`, `ask` and `item` are the tasks; a cancelled task is `stopping` until it has been awaited. Several
tasks may end before `asyncio.wait` returns, so that what the code does with a set of completions is seen. The limits of stage, group
and batch are semaphores. `verdict` is how an item ends once everything is drained. Questions of one request are one question.
Left out: `matching.py`, reuse of answers, usage.

### ScopeHooks

The scope's generator handles an event as a list of things to yield (`pending`), and the member's generator around it does
the same with each of them (`outer`), as the caller may close the outer one at any yield and the code has a
`finally` at each. `fired` counts the firings of each chain.

### BoundThread

The platform's log of each session is appended to by the platform; other handles start sessions. `operation` is the holder of
`_operation_lock`: posting, sending, or a stream. A stream has two ends. `Pull` is `Client.astream`, which yields the next event and
sets the flag that `cancel_on_close` looks at; `Deliver` is the handle, which observes an item and hands it over, later, as
the worker of a synchronous stream and the generators in between hold items (`line`). The order of the log is not that of the stream: the
start of a local tool is queued when the tool begins, after events behind it, or not at all when the platform delivers the call
again (`Withheld`, `Reached`). And a `hook_fired` item carries the position of its event: a tool's hooks may come before its start (`PullHook`), and
those of a scope or a member before the final event (`ScopeHookFires`). History variables record which events the caller was `handed`, of which it was given
only such items (`announced`), which it asked to leave out (`waived`), and whether the tools of the session run here (`local`).

### McpClient

Threads make one call each. The process answers in any order, late, or never; the reader thread puts its answers and
one final empty line in the queue that waiting threads share. A timeout leaves a late answer behind. `_get_runtime` is not locked.

### PrivatePublish

A thread takes in a call and publishes its files one after the other; `intents[o]` has the stage that the vault
has reached for each proof of output `o`, because the same proof leads to the same work, and another to another artifact.
`_file_upload_proof` is two steps, the copy and its use, as threads share the dictionary. A request reaches the vault or not, and its
answer the client or not; in both cases the file fails, and a later intake of the call resumes. Left out: commitments and
validation, ordinary intake, downloads, exports and deletions.

## 3. Runs

| Run | Instance | Shows |
|---|---|---|
| `sched_queue` | 3 fires, 1 slot, queue, pauses, stop | `DrainLeavesNothing`, `NoOvertaking` |
| `sched_stop` | 2 fires, skip, jitter, 2 attempts, misfires, aborting callbacks, stops from runs | `StopNeverAwaitsItself` |
| `sched_replace` | 3 fires, replace, history of 1, stop that times out | `ReplaceKeepsLatest`, `AccountedOnce` |
| `sched_live` | 2 fires, 2 timers, `max_runs` 2 | `FiresEnd`, `StopReturns` |
| `sched_nested` | nested trigger and stop from a run, 2 slots | **violated**: `StopNeverAwaitsItself` |
| `client` | pool: 3 leases, 2 loops, 2 generations; stream: 4 events, queue of 1; MCP: 2 threads, 2 processes | `NeverClosedInUse`, `WaitersReturn`; `SourceAhead`, `EndMeansComplete`, `CallerNotStranded`, `CloseReleases`; `OwedAnAnswer` |
| `watch` | watcher: 2 files, 2 revisions, 2 changes, 1 end, journal of 2; without markers, beginning with any directory and reporting it or not, and with 2 markers, beginning with at most one completed file; publications: 2 threads, a call with 2 files, one with private data, 2 proofs, 1 mishap | `CursorIsJournalled`, `InOrderAtLeastOnce` (refinement of `Outbox`), `OnlyRestingFiles`, `WatchCaughtUp`; `SavedOnce`, `EventuallySaved` |
| `work` | 2 processes, 1 fire, 2 attempts, 3 mishaps | `OneVerdict`, `HandBackBeforeDelete`, `EventuallySettled` |
| `work_ghost` | the same, 1 mishap | **violated**: `CleanStop` |
| `turn` | bridge: 2 generators, a turn or two under each policy, histories of 1 to 3, queue of 1, 1 mishap, 1 reopen; 3 decision plans, 2 cancellations; hooks: 2 assignments, 4 events; thread: 2 sessions of 2 events | `StructureKept`, `InterruptShownOnce`, `ReceivedInOrder`, `TurnEndReached`; `NothingLeftBehind`, `GateDecides`, `NoSuccessorOfRejection`; `HooksPaired`; `CursorMissesNothing`, `CancelledUnlessOver` |
| `tools` | runtime: 4 scenarios of up to 5 calls; stream: 2 calls, 3 deliveries, left twice | `OneSerialWriter`, `RevisedOnce`, `PlannedValueStays`, `EveryCallEnds`; `ExecutedOnce`, `AnswersDelivered`, `FailureReachesCaller` |
| `tools_arrival` | the scenarios without cancellation | **violated**: `ArrivalDecides` |

Type invariants are theorems (`JobTypeOK`, `PoolTypeOK`, `WatchTypeOK`, `StreamQueueBound`, `WorkTypeOK`, `DecisionTyped`,
`ThreadTyped`, `BridgeTypes`), or are part of an invariant that is one: of `StructureKept`, `OneSerialWriter`,
`ExecutedOnce`, `HooksPaired`, `SavedOnce`, and of the invariant that proves `OwedAnAnswer`.

Why the bounds are enough: overtaking, superseding and a stranded head need an active run, one that
waits and a newcomer, hence three fires; stopping from a run, retrying and skipping need two. Three
leases are an owner, one that joins it and one that waits; two generations let a waiter open the pool
that it waited for. The watcher's journal of two events is full when two files that are reported are there and one of them changes. A file that changes
after it was reported is reported again, with and without markers, and a change after a baseline that was not reported is told from the
baseline. One end makes every crash and restart between two
transactions, and the proofs of the two safety properties hold for any number. Two attempts of a report let one be lost and tried again, and with three
mishaps both of them be lost, or an answer be lost, the lease run out and the process be forgotten. Histories of one, two and three
evict under a cursor, by chunks and without; a second generator is a competitor or the remains of a lost connection. The decision plans have stages
side by side, a successor, two items that compete for one operation, and a stage after the call. A producer and its reader need two calls, an extra call of
either a third, and two revisions of one generation five. Two deliveries of one call, with another call between, exercise deduplication and layers.
Two sessions are the one a handle is pinned to and a newer one; two events
are a tool's start and what overtakes it, or an event and the end. Two threads with a timeout are enough for one to find the other's late answer. Two proofs
for three outputs make them crowd; one mishap is one lost message, one aged proof, or one race of two threads, after which everything must be
saved. Every bound is a
constant that only a guard of an environment action (a fire, a change, a mishap, an end) reads. `MaxAttempts`, `HistoryLimit`,
`MaxOverlap`, `MaxRuns`, `MaxPending`, `QueueSize`, `MaxHistory`, `MaxFileProofs` are parameters of the code; the model's values are
smaller than the defaults so that the limits are reached.

Deadlock is not checked: a job that was stopped, leases that were closed, a generator that was closed, a
process that ended and a directory that rests have nothing more to do.

### What the violated runs show

* `sched_nested`: a run calls `trigger_now()` and then `stop()`. `_release_slot` of the nested run discards
  the thread, which it shares with the outer run, from `_active_threads`; when the outer run was manual, `stop()` no
  longer takes its early return and waits for the run it was called from. The comment in `stop()` says why that must not be.
* `work_ghost`: Ctrl-C while the answer to the announcement is in flight. The platform has a row, the
  process has no id, `__aexit__` is not owed yet, and no DELETE is sent. The class says that Ctrl-C becomes a clean
  stop "instead of a row the platform has to age out".

* `tools_arrival`: the calls of a tool share one completion event. An extra call that finishes first sets it; a reader
  that waits wakes before the planned producer has a value, and fails. The test that states the order starts its reader later.

### Known limits of properties that hold

* `FiresEnd` is checked with one slot. With two, a waiter that leaves the queue does not wake the next, which
  may sleep beside a free slot until the next release.
* `DrainLeavesNothing` has one controller and no `stop` from a run. A `stop` that comes between `start` setting the flag and starting
  the worker has nothing to join. The theorem has the same two hypotheses.
* `StopNeverAwaitsItself` is checked and proved without nested triggers; with one, `sched_nested` refutes it.
* `WaitersReturn` is about an owning loop that stops taking new requests; newcomers can starve a waiter.
* `EndMeansComplete` has one exception, a loop that shuts down while the source's own error waits for space.
* `EventuallySettled` is about a fire, not about its runs: a run whose report arrived too late, or whose
  cancellation landed while its keepalive was being stopped, is run again.

* `HooksPaired` allows the scope's after hooks to fire twice in two cases, which the code has: after the final event of a
  delegated child, and when the caller leaves while they are reported. `tests/unit/test_hook_execution_modes.py:149` speaks of once per
  invocation, of a stream that raises.
* `ReceivedInOrder` allows one event out of place, or twice: one that was evicted from the history but is still in the queue.
  `_drain_replayed_events` removes from the queue what the history replays, and such an event is in the queue only. A
  browser whose cursor had aged out is told that it may see duplicates (`events/_bridge/streaming.py:113`), and nothing is said of it.
* `WatchCaughtUp` excepts a revision without a marker, and one with the marker of the revision reported before. What was there at a baseline
  that is not reported counts as told.
* `InterruptShownOnce` lets an interrupt be held back that the browser cannot get any more, where `StructureKept` does: more structural events than the history
  holds came after it, its observer raised, the policy dropped it, or another subscriber took it. In a bridge that is closed nothing is shown.
* `CursorMissesNothing` has three exceptions. What the caller asked to leave out. The start of a tool in a session whose tools run here: it is handed
  over when the tool begins, and a caller that leaves before that keeps a position behind it. And an event of which only `hook_fired` items were handed over: they
  carry its position, so a caller that leaves at the firing of the after hooks, before `final`, resumes behind a final event that it never got
  (`scope/execution_hooks.py:126`, `thread.py:360`).
* `CancelledUnlessOver` takes the end from the log, not from the caller: `Client.astream` has seen the final event when the after hooks are
  reported, or when the worker of a synchronous stream is ahead, and a caller that leaves then has not been given the end of a session that is not cancelled.
* `AnswersDelivered` is about a consumer that leaves once. A second cancellation during the end of the generator abandons what is in flight.
* `OwedAnAnswer` says that a thread is owed something; a server that closes its stdout and lives on, or never answers, leaves a call without a
  timeout waiting.
* `SavedOnce` counts the proofs that were lost: a proof that grew old, or that another thread's copy of the dictionary dropped,
  is followed by a second artifact of the same file.
* `EventuallySaved` excepts a vault that cannot commit, a client whose retained proofs are all taken, and, where a call uses private data, a
  file before this one that cannot be saved.

### Observations

Seen while modelling, in code that no doc, comment or test contradicts clearly enough for a violated run:

* `compat/scheduling.py`: the timer checks `max_runs` and fires in two critical sections; a `trigger_now()` between them makes one run more.
* `compat/mcp.py:222`: two first calls start two processes, or initialize one twice; `close()` knows one of them.
* `events/_bridge/bridge.py:599`: generators of the turn before are not told of `reopen()`, whose docstring (line 678) promises a clean slate. One that is
  suspended at the old final event closes the new turn when it goes on (`streaming.py:224`), and what is emitted then goes nowhere; one that ends is subtracted from the
  subscribers of the new turn, and `wait_for_subscriber()` may wait although one is attached.
* `client.py:623`: "An unbounded in-process queue preserves event order", but the starts of local tools are queued when the tools begin.
* `tool_runtime.py:489`: a call that failed or was skipped frees its reservation, a cancelled one keeps it, as `CancelledError` is no `Exception`.
* `tool_runtime.py:528`: the docstring at 513 excludes rewinding an answer, but a later message may ask again while the earlier one's call is in flight.
* `compat/invocation.py:408`: the batch of invocations gathers without draining the others when one fails.
* `private_artifacts.py:284`: published outputs stay among the retained proofs and count against the limit until they are too
  old, while the test at `src/tests/unit/test_security_private_file_intake_characterization.py:383` speaks of pending outputs.
* `private_artifacts.py:783`: a grant whose answer was lost is recovered for an ingestion, but not for an export or a deletion.
* `automatic_vault.py:76`: two callers may both open the vault, and the later one replaces the store.

## 4. Fairness

* `ScheduledJob`: threads run: weak fairness of every step of a timer, a run and a stop that is
  under way. Nobody has to start, stop, pause or trigger.
* `PoolLease`: weak fairness of the steps of a lease's own code. Nobody has to ask for the pool.
* `StreamBridge`: threads and the loop run. The source need not answer, which is why `CallerNotStranded` excepts it and `CloseReleases`
  does not. Strong fairness of a scheduled cancellation: the loop runs every callback it was given, but only where the task is suspended.
* `LocalFileWatch`: the process is opened again, scans and delivers. Strong fairness of accepting and queueing: a send that
  is tried again and again succeeds, and a quiet period that is asked for again and again is over. Without these nothing could be promised.
* `EventBridge`: the loop runs: a put that has room ends, a generator that has something to do does it, and a browser that lost its
  connection comes back. Nobody has to emit or to close.
* `ToolRuntime`, `LocalTools`: tasks go on, tools return, uploads end; the platform need not call, nor the consumer leave.
* `PrivatePublish`: a call is taken in again and again, as a retry of the tool would (strong fairness, because a thread
  is busy with another call in between), the vault works, threads run. Strong fairness of the copy of the
  proofs only makes up for the bound: a race counts as a mishap, so that the guard keeps a thread from it while another is between copy and use.
* `AgentWork`: tasks of a process run, its runner returns, leases run out. Nobody has to be cancelled,
  killed, forgotten or revoked.

## 5. Proofs

Every safety invariant and every action property that a run checks is also a theorem, for every value of the constants, from the
named assumptions of the modules (`JobAssumption`, `ProcessAssumption`, `PoolAssumption`, `StreamAssumption`, `WatchAssumption`,
`McpAssumption`, `LocalAssumption`, `RuntimeAssumption`, `BridgeAssumption`, `PlanAssumption`, `HookAssumption`, `ThreadAssumption`,
`PublishAssumption`), which TLC evaluates in every run of the module. Two theorems, `JobStopNeverAwaitsItself` and
`JobDrainLeavesNothing`, have hypotheses of their own, given below.

* **Scheduled jobs.** `JobInv` is `TypeOK`, `SlotBound`, `ReplaceKeepsLatest` and what they need: fires not
  yet made are `unborn` (`Numbered`), a record that has not claimed keeps its first status (`Untouched`), and the
  queue has no duplicates and holds waiting, uncancelled runs only (`QueueSane`). `SlotBound` alone is not inductive:
  a run admitted from the queue must not be active already, which `QueueSane` says. `NoOvertaking` is an action property that
  follows from the same invariant: a slot is taken in three actions only (`WhoTakesSlots`), and a queue without duplicates gives its head away.

  `AccountedOnce` counts records: the counters are the number of records past `_record_terminal`, and the history has
  each of those past `_record_history` once (`AccountInv`). A record can be finished by three threads, and that one of them
  does it is `RecordInv`: what a `stop` took from the queue is that `stop`'s alone, and a run that still has its slot, or
  is queued, has not been finished by anybody. At rest the two counts agree, because every record is past both.

  `StopNeverAwaitsItself` holds where no run triggers another on its own thread (`~NestedTriggers`): then the threads
  with a slot are the active runs, and a run that waits in `stop` has left its slot (`OwnThread`). `sched_nested` shows that the
  hypothesis is needed. `DrainLeavesNothing` holds for one controller and no `stop` from a run: the controller's timer is the only one and is
  joined, and a scheduled run is known to `_execution_threads` unless its timer has still to launch it (`DrainInv`).
* **Pool leases.** `PoolInv` adds to the three properties that `users` is the number of leases between acquire and
  release (`UsersCounted`), that an owned pool has somebody who will give it up (`OwnerServed`), and that `closing` is up
  exactly while a closer holds the current future (`ClosingKnown`). The counter is why cardinalities are needed: the last
  release must be by the only user.
* **File watcher.** `WatchInv` numbers the events: accepted and pending are 1, 2, 3, ... with the head on both sides at most
  (`Numbered`), and `settle` is called only for an accepted head. `WatchDelivery` maps every step to a step of `Outbox` or a
  stutter. `WatchCursor` follows the log of all events ever recorded (`CursorFollowsLog`).
  `WatchOnlyRestingFiles` is about single steps: whichever step makes the journal longer has compared the candidate.
* **Stream bridge.** `StreamInv` is about `Handed`, what the caller got followed by what is queued: `get` does not change it
  and only a put of `_drain` or the worker's fallback adds to it. `Handed` is the events in order and then none (`InOrder`).
  `EndMeansComplete` needs to know why an end is on its way before it arrives: an exception that waits is the source's own or
  the one cancellation of the owning loop (`ErrorKnown`), a sentinel with only events before it comes from a source that is done
  (`EndKnown`), and the fallback of the worker comes after `_drain`, its exception first (`FallbackLast`). `SourceAhead`
  follows from `InOrder`.

* **Event bridge.** Three invariants, each on top of `BridgeTyped`. `InOrder` is about the browser: what is ahead of it, in its generator's
  hand, in the rest of its replay, or on its way through the queue and not among what it has seen, is newer than what is behind it; `Past` forgets
  what is behind it once it was told that its cursor had aged out. Only events of the history count, and this is the exception
  that `ReceivedInOrder` states. `Accounted` is about the events: each of the history is behind the browser, ahead of it, or excused. `HistoryFull` says
  that the history still has the structural events that its length leaves room for; that eviction, which takes the oldest
  chunk and only without one the oldest event, keeps that is `EvictedOnce`. The oldest of a set is a `CHOOSE`, and exists by the library's well-foundedness of `<`.
  `StructureKept` follows from `Accounted` and `HistoryFull`. For `InterruptShownOnce`, `Fingerprint` says what the fingerprint of an open bridge stands for, an
  interrupt shown since the turn or a session started; that the interrupt which is then held back is not lost is `StructureKept` before the step.
* **Tools of the stream.** `LocalInv` says that a call that is not deferred is seen (`CallsNoted`), that a batch is sent when its tools are
  over (`BatchesGathered`), and how often the consumer has left in each state of source and producer (`LeavingCounted`): an upload is given up only for a consumer
  that leaves twice, which is why `AnswersDelivered` speaks of one that leaves once.
* **Tools of an invocation.** `RuntimeInv` has a part for each property. `LaneKept`: the lane holds the serialized calls that were let in, and
  a worker's call is its head. `OwnersKept`: a key that is not asked again is held by one call from reservation to failure, and its
  result was written by that call, so that an extra call cannot replace it. `RevisionsKept`: a live revision holds the claim of its branch alone, and
  one that succeeded has moved the branch, so that a second one of its generation finds it moved. All of them need that one task of the loop runs
  between two awaits (last line of `CallsTyped`).
* **MCP.** `LocksHeld` says that a request under way holds the lock of its own process, and a lock is held by one; so an answer that a thread takes
  from the shared queue is not one that another waits for, and `OwedAnAnswer` is inductive.
* **Hooks.** What is still to be yielded has one of three shapes: items only (`Quiet`), a final event behind the firing of the after hooks (`Due`), or
  behind the report of it (`Reporting`); each says how often the after hooks were fired. `Between` relates the two generators.
* **Serving.** `WorkInv` relates a process to its claim (`LoopInv`): what was said of it (`told`) and where the loop is, so that a report and
  a hand-back exclude each other; and to its row (`SessionInv`): the DELETE is sent only once the loop has ended. `OneVerdict` is not inductive because it
  does not know that a loop that reports has not handed back yet.
* **Decisions.** `CallInv` relates the three levels: a stage that is over has no question alive, an item that is done has no stage alive, a batch that
  has returned has no item that is not done (`BatchInv`). `GateDecides` needs to know which answers a stage that is `ok` has seen, and
  `NoSuccessorOfRejection` that a stage that ended badly has made its item drain before any successor is considered. The limit of the batch (`LimitInv`) is
  about the cardinality of the set of operations.
* **Bound threads.** `ThreadInv` says where the operation is against position and session (`Place`), and when the flag of a stream that opted in is set
  (`Flag`): before the end can reach the caller, and only when the session has ended. `NothingLost` relates the two ends of a stream: what was taken and is not
  accounted for is in line, and so is, ahead of it, whatever comes before an item of the line; so the maximum that the handle keeps skips nothing.
* **Publications.** `PublishInv` counts proofs: every proof of an output but one was lost, and the one is retained (`ProofsCounted`). A copy of the
  dictionary may bring back a proof that was lost or drop a new one, and `CopyCounted` shows that the count is right in both cases. `Good` says what a thread
  knows: its proof is one the vault has, what it attaches is committed, and without a failure it is all that it is past. As the vault only
  goes on (`Grows`), a step of one thread leaves what the others know.

Only model-checked: liveness, which is out of reach of the prover: `FiresEnd`, `StopReturns`, `WaitersReturn`, `CallerNotStranded`,
`CloseReleases`, `WatchCaughtUp`, `EventuallySaved`, `EventuallySettled`, `TurnEndReached`, `EveryCallEnds` and `FailureReachesCaller`. The three
violated properties have no theorem, as they do not hold; `StopNeverAwaitsItself` has one under a hypothesis.

A proof module may serve several components that run together (`ClientProofs`, `FilesProofs`, `ToolsProofs`, `TurnProofs`); each of its sections
is about one of them and names it.

## 6. Not modelled

* Durations. The heartbeat (25 s, stale after 90 s), the keepalive (40 s of a lease of 120 s), their backoffs and the
  HTTP timeouts meet at boundaries; the models let a lease run out at any time instead.
* Schedule arithmetic, jitter sampling, the module-wide job registry, and the cron builder.
* Parsing, validation, formatting, requests and rendering: no state to go wrong, better tested.
* The lazy opening of the vault, downloads with ranges, hosted jobs, `matching.py`, the HTTP transport of MCP, hooks of one tool call.
* Tunnels, installation, SQL text: I/O.

## 7. Plan

Done: `ScheduledJob`, `PoolLease`, `LocalFileWatch` with `Outbox`, `AgentWork`, `StreamBridge`, `EventBridge`, `ToolRuntime`, `LocalTools`,
`DecisionCall`, `ScopeHooks`, `BoundThread`, `McpClient`, `PrivatePublish`. Next, in the order of importance:

1. An abstract bridge, a log of which a browser sees a suffix, and `EventBridge` shown to implement it where nobody else reads.
2. `ServingClock`: beats, backoffs, the stale window and the lease in ticks; which intervals keep a healthy process known.
3. `matching.py`, the lazy opening of the vault, the development tunnel's relay, the resumption of hosted jobs.

## 8. Running

    tlc -config sched_queue.cfg ScheduledJob.tla
    tlapm ScheduledJobProofs.tla

`PROJECT.json` lists the runs with their configurations, the mutants, the source lines of every definition,
the findings, the hazards and the theorems.
