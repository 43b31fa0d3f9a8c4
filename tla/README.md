# A TLA+ development for lemurclaw

Lemurclaw is a fork of the Codex agent. Its Rust workspace `codex-rs/` holds an
*app server* that serves JSON-RPC to several front ends, a *core* that runs one
agent session per thread, and, around it, an *exec server* that runs processes
for a session and a *thread store* that keeps threads on disk. `lemurclaw-rs/`
is generated from it by `xtask` (renamed crates) and adds a desktop and a browser
front end that talk to the in-process app server; what is said here of
`codex-rs/` holds for the copy.

This directory models the parts in which the concurrency and the failures of the
program meet:

| module | what it is | theorems in | instances in |
|---|---|---|---|
| `SerializedRequests` | abstract: what clients may rely on of the requests of one key | | |
| `RequestQueues` | request queues, connection gates, clean-up, processor-loop exit; implements `SerializedRequests` | `RequestQueuesProofs` | `MCRequestQueues`, `MCQueues*.cfg` |
| `TurnLifecycle` | the active-turn slot of a session and everyone who uses it | `TurnLifecycleProofs`, `TurnSessionsProofs` | `MCTurnLifecycle`, `MCTurns*.cfg` |
| `Approvals` | an approval on its way from a tool call to the clients and back: core, listener and outgoing requests composed | `ApprovalsProofs` | `MCApprovals`, `MCApprovals*.cfg` |
| `AgentControl` | the limits on the agents of a session: registry, residency, execution | `AgentControlProofs` | `MCAgentControl`, `MCAgents.cfg` |
| `ProcessStream` | abstract: what the consumer of a process may rely on | | |
| `ExecRecovery` | an exec-server process and its client over breaking connections; implements `ProcessStream` | `ExecRecoveryProofs` | `MCExecRecovery`, `MCExec*.cfg` |
| `WriterLock` | the lock files of the thread store, shared by processes that may crash | `WriterLockProofs` | `MCWriterLock`, `MCWriterLock.cfg` |

`PROJECT.json` lists the components, the runs, the source lines each definition
stands for, the hazards the properties are aimed at, one mutant per property,
the findings and the theorems.

    tlc -config MCQueuesOrder.cfg MCRequestQueues      # one run
    tlapm RequestQueuesProofs.tla                      # the proofs

## 1. Inventory

### App server (`codex-rs/app-server`)

* **Processor loop** (`lib.rs`, `message_processor.rs`). One task reads transport
  events, keeps the table of connections, dispatches requests and watches for
  shutdown signals. State: connections, `ShutdownState`, clean-up tasks.
* **Request serialization** (`request_serialization.rs`). A request with a
  serialization scope is put into the queue of its key (a thread, a process, a
  global resource); one drain task per key runs them, one exclusive request or a
  run of shared reads at a time. State: a map of `VecDeque`s behind one mutex.
  Other tasks enqueue app-owned work into the same queues. Hard: the drain task
  ends when its queue is empty while others enqueue; order and exclusion must
  survive batches, panics and a closing connection.
* **Connection gate** (`connection_rpc_gate.rs`). A flag behind a mutex and a
  tracker of running handlers; closing it turns queued handlers away, shutting it
  down waits for the running ones. Hard: check of the flag against close.
* **Clean-up** (`connection_cleanup.rs`, `fs_watch.rs`). A task per closed
  connection waits for the gate, at most 30 s, then removes what the connection
  owns. Hard: handlers that outlive the wait.
* **Server-to-client requests** (`outgoing_message.rs`,
  `bespoke_event_handling.rs`). A request to the subscribed clients leaves a
  callback in a table; the first answer takes it; a turn boundary withdraws what
  is pending. Hard: answers, withdrawals and resuming clients in any order.
* **Thread listener** (`request_processors/thread_lifecycle.rs`,
  `thread_state.rs`). One task per thread takes core events and commands of the
  server. Hard: it is the only order between the two.

### Core (`codex-rs/core`)

* **Turn lifecycle** (`tasks/mod.rs`, `state/turn.rs`). The session has one slot,
  `Mutex<Option<ActiveTurn>>`; an `ActiveTurn` has a turn state (`Arc`) and perhaps
  a `RunningTask`. Starting a task, aborting it, finishing it and reserving the
  slot each take the lock several times with awaits in between. Hard: everything
  that happens in those gaps, the 100 ms grace of an abort, a finish that races it.
* **Input queue** (`session/input_queue.rs`). Mail from other agents waits in the
  session's mailbox; input for a turn waits in its turn state. A turn that has
  shown its final answer leaves later mail to the next turn. Hard: nothing may be
  lost on the way, and mail that should wake the session must do so.
* **Idle work and injection** (`session/inject.rs`). Extensions start a turn when
  the session is idle, by reserving the slot first, or add items to whatever runs.
* **Submission loop** (`session/handlers.rs`). One operation at a time: user
  input, commands, interrupt, mail, decisions, shutdown. Its aborts and starts race
  with finishing tasks, with the turn/steer RPC, with the guardian and with
  extensions.
* **Approvals** (`session/mod.rs`, `session/handlers.rs`). A tool call leaves the
  sender of a oneshot channel in the state of the active turn, emits an event and
  waits. Hard: the turn ends, is aborted or replaced while it waits, and a decision
  may be late.
* **Agents** (`agent/registry.rs`, `agent/control/`). Counters, names and slots are
  reserved before an await and committed or given back after it. A V1 session
  limits the agents it knows, a V2 session those it has loaded, unloading idle ones,
  and those that run. Hard: every call can fail at every await, and calls overlap.

### Exec server (`codex-rs/exec-server`)

* **Processes** (`local_process.rs`). Two stream tasks and an exit watcher number
  the events of a process under a lock, retain a bounded amount of output, and
  send each event as a notification after the lock. Stdin writes carry an id so
  that a repeated one is not written twice.
* **Sessions** (`server/session_registry.rs`). A session survives its connection
  for a while; then it expires with its processes.
* **Client** (`client.rs`, `client_recovery.rs`). Puts notifications in order,
  reconnects, resumes the session, reads what it missed. Hard: recovery runs while
  notifications come in, processes start and writes are retried.

### Thread store (`codex-rs/thread-store`)

* **Writer locks** (`local/writer_lock.rs`). Advisory locks on files that are made
  on demand and removed when stale, under a coordination lock. Hard: locks belong to
  open files and not to paths; processes crash.
* **Store operations** (`local/*.rs`). Create, resume, shut down, discard, archive,
  unarchive and delete a thread; each but unarchive holds the thread's writer lock.

Around these: unified exec, in-process server, state database, rollout text, MCP,
hooks, login, network proxy, patches, TUI. `PROJECT.json` says of each why it is
left out, section 8 which are worth a module.

## 2. How the code is modelled

**Granularity.** A step is what one task does under one lock, or between two
awaits at which another task could tell the difference. Steps are merged only
where the state between them is private to the task or every other step commutes
with it:

* taking the task out of the slot, taking its turn's pending input and recording
  it (`FinishTake`): the input is in the finisher's hands from one to the other.
  Input that arrives later goes to the turn state and is *not* part of the step. A
  hook may refuse an item at this point; a refused item counts as recorded, since
  the session has dealt with it;
* inserting the turn and extending its pending input (`StartTaskExtend`); the
  slot lock and the mailbox lock of one drain (`StartTaskDrain`, `Drain`);
* killing an aborted task, writing the interrupt marker, sending TurnAborted and
  clearing what was pending (`HandleTaskAbort`);
* the rechecks of `try_start_turn_if_idle` that give the reservation back.

Killing a task takes effect between two of its steps: tokio aborts a task at an
await. Where a task is overwritten in the slot the release build is modelled: the
`RunningTask` is dropped and its handle aborts it. The failed `debug_assert` is
recorded in `asserted`.

**Data.** Requests are numbers in the order in which the queue mutex was taken;
messages and mail are model values. Of a turn, the model keeps which turn state
is in the slot, which task, what is pending, the mailbox phase, and how many
terminal events were sent. Sampling, tools and hooks are abstracted to a regular
turn that may take pending input, defer or reopen its mailbox, and end at any
time (`EndRun`): errors and hooks do end a turn early, and input may arrive right
after the last look for it. User input counts as recorded once its task is
installed.

### RequestQueues

| state | code |
|---|---|
| `queue`, `present` | the map of `VecDeque`s: contents, keys in it |
| `drainer`, `batch` | the spawned `drain` of a key: waiting for the lock, in `join_all` with its batch, ended, unwound by a panic |
| `status`, `key`, `access`, `gate` | each request's future and what it was queued with |
| `accepting`, `Inflight` | `ConnectionRpcGate.accepting`, tokens of its `TaskTracker` |
| `conn`, `watching` | connection and its clean-up task; entries of `FsWatchState` |
| `signal`, `loop` | `ShutdownState`; the processor task |

Actions: `ConnectionOpened`, `Initialize`, `ConnectionClosed` (the loop's
events); `DispatchSerialized`, `DispatchSpawned`, `EnqueueBackground`; `DrainPop`,
`JoinAll`, `DrainReturn`; `Enter`, `Reject`, `Finish`, `Unwind` (a panic; the build
unwinds), `Watch`, `Unwatch`; `CleanUpDrained`, `CleanUpTimedOut`; `OnSignal`,
`LoopExit`, `ShutdownGate`, `GatesShutdown`, `CleanUpsDrained`. `fs/watch` and
`fs/unwatch` stand for what a handler can leave behind for the clean-up; the real
handlers run under the key of their watch id, here any handler may do it.

`SerializedRequests` is what all this promises to a client, without queues, drain
tasks, gates, connections or shutdown: a request is absent, waiting, running or
over. `Come` numbers it, `Begin` needs its turn (every earlier request of its key
is over, or both only read), `End` may take with it requests that read beside it.
The mapping `Phase` takes a queued request and one whose future exists but has not
passed its gate to waiting, and a finished, rejected or dropped one to over. Beyond
the invariants this says that a request runs at most once, that none is settled out
of its turn, and that a panic, a closed gate or a shutdown ends requests of one key
only, and of those only ones that had their turn.

### TurnLifecycle

| state | code |
|---|---|
| `slot`, `task` | `active_turn`: its turn state, the turn whose `RunningTask` it has |
| `pend`, `nextTurn` | `TurnState.pending_input`, `mailbox_delivery_phase` |
| `mailbox` | `mailbox_pending_mails` |
| `history`, `cleared` | conversation items; what `clear_pending` threw away |
| `pc`, `mine`, `carry`, `victim` | where each process is and its local variables |
| `cancelled`, `ends`, `steerable` | cancellation tokens, terminal events, task kind |

Processes: the submission loop (`Sub`), a caller of `try_start_turn_if_idle`
(`Ext`), a caller of `abort_turn_if_active` (`Guard`), and one task per turn.
`start_task` is `StartTaskDrain`, `StartTaskExtend`, `StartTaskInstall`;
`maybe_start_turn_for_pending_work` is `MaybeStart`, `Reserve`; `abort_all_tasks` is
`AbortAllTasks`, `HandleTaskAbort`; `on_task_finished` is `FinishTake`,
`FinishEvent`, `FinishClear`; the idle attempt is `IdleReserve`, `IdleRecheck`,
`IdleConfirm`. The submission loop's operations are `UserInputSteered`,
`UserInputStarts`, `Command`, `Interrupt`, `Shutdown`, `Communicate`; RPCs beside it
are `SteerRpc`, `Inject`. Input to a turn that cannot be steered is refused and
changes nothing, so it is no action. `on_thread_idle` is how extensions come to
call `try_start_turn_if_idle`; `Ext` may do so at any time.

The constant `Features` selects the operations of an instance, so that each
property can be checked in the largest environment in which the code keeps it
and refuted in the next larger one. `"sleep"` makes the thread durably asleep for
the whole behaviour, when any mail may start a turn.

### Approvals

| state | code |
|---|---|
| `slot`, `task`, `phase` | `active_turn`: the turn whose state and whose task it has; where each turn is between start, abort, finish and its terminal event |
| `aborting` | the turn the submission loop is in the middle of aborting |
| `wait`, `owner`, `waiter` | the tool call of each approval, the turn that asked, the turn state that holds its sender |
| `ops`, `events`, `cmds` | submission queue, events for the listener, `ThreadListenerCommand`s |
| `callbacks`, `response`, `result` | `request_id_to_callback`, the spawned response task, what its callback received |
| `subscribed`, `inbox` | connections of the thread; external: what a client has been asked and has not answered |
| `joined` | no code: the subscribed connections whose start or resume of the thread was answered |

Core: `Ask`, `SendAsk`; `FinishTake`, `FinishSend`, `FinishClear`; the loop's
`TakeInput`, `TakeInterrupt`, `AbortSends`, `AbortClears`, `TakeAnswer`. Listener:
`ListenRequest`, `ListenTurn`, `ListenResolve`, `ListenResume`, `ListenResumeFails`.
Response task: `SendResolve`, `SubmitDecision`. Clients: `Submit`, `Answer`,
`CloseConnection`, `Unsubscribe`, `Attach`, `RequestResume`.

A connection comes to a thread in two ways. A resume subscribes it and then replays
the pending requests to it (`ListenResume`), unless the resume fails in between
(`ListenResumeFails`). A thread/realtime call, or the announcement of a thread,
subscribes it through `ensure_conversation_listener`, which replays nothing
(`Attach`). `joined` tells the two apart. The turn part is a coarser view of what `TurnLifecycle` has in
detail: the three points of a finish and of an abort at which the slot, the
terminal event and the senders change.

### AgentControl

| state | code |
|---|---|
| `tree`, `pathOf`, `total` | `agent_tree`, `thread_paths`, `total_count` of `AgentRegistry` |
| `residents`, `pending` | `V2Residency`: loaded agents, least recently used first; reserved slots |
| `loaded`, `life`, `queued` | threads of the thread manager, what their sessions do, submitted operations |
| `call` | per caller: its step, operation, agent, key, candidate for unloading |

A call is a sequence of steps, one per lock or atomic operation: `TryReserve`,
`CountResidents`, `PopCandidate`, `Inspect`, `StopCandidate`, `StopFails`,
`DropCandidate` (residency); `CountSpawn`, `ReservePath`, `CreateThread`, `FinalizeThread`,
`CommitSpawn`, `CommitSlot` (spawn, reload and resume); `EnsureLoaded`,
`CheckCapacity`, `Deliver` (messages); `CloseSession`, `Bury`, `Forget`, `Release`,
`Uncount` (close, and a thread found dead). What a call still holds is a function
of its step (`HoldsSlot`, `HoldsReservation`, `HoldsPath`), and `Abandon` is what
the drops give back. Sessions start and end turns and may end by themselves.

### ExecRecovery and ProcessStream

| state | code |
|---|---|
| `proc`, `log`, `retained`, `task`, `held`, `killed` | the entry of the process table; its events (number = position); retained output; the stream tasks and the exit watcher, and the event each has numbered and not yet sent |
| `attached`, `expired` | the session in the registry and its notification sender |
| `exec`, `wreq` | the exec and write requests, on the server and back |
| `link`, `wire` | the connection in use and the notifications under way on it |
| `status`, `rec`, `response` | `ConnectionStatus`, the recovery task, the answer to its read |
| `start`, `cleanup` | `start_process` and `cleanup_process_start` |
| `session`, `published`, `pending`, `failure` | session table, `OrderedSessionEvents` |
| `write`, `remembered`, `stdin`, `pipe` | `Session::write`, `AcceptedStdinWriteIds`, how often the process was handed the chunk, whether it has a stdin |

`ProcessStream` has the events of a process, those the consumer has seen and
whether the stream was given up; it lets the consumer see a longer prefix, or give
up once, and nothing after that. `ExecRecovery` implements it with
`seen <- published`, `failed <- failure` (`StreamPromise`).

A write is answered *accepted*, or *refused*: the process is unknown, still starting or
without a stdin (`WriteLooksUp`), or its writer task is gone (`WriteReserveFails`).

`recover_events` is described by what it does with an answer and not chunk by
chunk: which numbers are missing (`Missing`), which of them it takes for the exit
(`ExitBeforeChunk`, `ExitInGap`), what goes to the reorder buffer (`Late`, `Fits`,
`ClosedFits`), and when it reports an error (`RecoverySucceeds`).

### WriterLock

| state | code |
|---|---|
| `file`, `flock`, `fd` | external: the inode at each lock path, the task that has an inode locked, the inode each task has open |
| `coord` | the coordination lock |
| `pc`, `op`, `scan`, `at` | where a call is in acquire or drop, and for which operation; the stale-file scan |
| `cleaned`, `live` | `cleanup_attempted`, `live_recorders` with their guards |
| `dying` | processes that ended and whose files the system still closes, in any order |
| `rollout` | external: where the thread's file is |

Inside a process the mutex per thread lets one operation of a thread run at a
time, so a task is a process and a thread. `acquire` is `TakeCoordination`,
`ScanFile`, `RemoveStale`, `ScanEnds`, `OpenFile`, `TryLock` or `Refused`; the drop
of a guard is `DropTakesCoordination` or `DropUncoordinated`, `CloseGuard`,
`RemoveFile`. Every file operation may fail. `Crash` may happen between any two
steps.

## 3. What the runs check

| run | instance | shows |
|---|---|---|
| `queues_order` | keys `g` (shared reads) and `t`, 1 connection, 3 requests; 2.9M states | `ExclusiveRunsAlone`, `ServedInOrder`, `QueuedHasDrainer`, `ServicePromise` |
| `queues_close` | 1 key with shared reads, 2 connections, 2 requests, fair; 530k states | `QuietAfterDrain`, `QuiescentStop`, `EveryRequestSettles`, `GracefulStopEnds` |
| `turns_user` | user operations and steering; 2 messages, 4 operations, fair; 240k states | `StartFindsNoTask`, `AtMostOneTerminal`, `RunningTurnIsActive`, `NothingLost`, `EveryTurnEnds` |
| `turns_idle` | mail, steering, idle work, deferral, durable sleep; 3 operations, fair; 68k states | `StartFindsNoTask`, `NothingLost`, `WakingMailIsRead`, `ReservationEnds` |
| `turns_alive` | input, commands, mail, guardian, injection; 1.3M states | `ActiveTaskIsAlive` |
| `approvals` | 2 connections, 2 turns, 2 approvals, 2 operations, 1 move (a resume, attach or unsubscribe), fair; 485k states | `DecidedByClient`, `AbortedOnlyWithTurn`, `EveryJoinedAsked`, `EveryAskEnds`, `TypeOK` |
| `agents` | 2 callers, 2 agents, 2 paths, limit 1, 4 calls, V1 and V2, fair; 213k states | `NeverUndercounted`, `KnownWithinLimit`, `PathsAgree`, `PendingIsHeld`, `EveryCallReturns`, `TypeOK` |
| `exec_stream` | 2 outputs, 2 retained, reorder buffer of 1; 1.3M states | `StreamPromise`, `NoDeadSession` |
| `exec_settles` | no output, one write, fair; 384k states | `WrittenOnce`, `SessionSettles`, `OrphanEnds` |
| `writer_lock` | 2 processes, 1 thread, 2 inodes, 5 calls, 1 crash, 2 errors, fair; 234k states | `AtMostOneWriter`, `GuardIsAtPath`, `RefusalIsReal`, `NotMovedUnderWriter`, `EveryCallReturns` |
| `exec_lost` | 2 outputs, 1 retained, reorder buffer of 2 | refutes `ClosedIsComplete` |
| `approvals_late` | 1 connection, 2 turns, 1 approval | refutes `WithdrawnWithItsTurn` |

Where a run does not list `TypeOK`, type correctness is a theorem.

*Queues.* A key's requests are served in enqueue order; a write is alone; no
queued request is left without a drain task; every step is one `SerializedRequests`
allows; a connection that was drained in
time is quiet and owns nothing for ever after; a loop that was not forced stops
only when its handlers have; and under fair scheduling requests settle and
draining ends. Two limits of the code are part of the statements: a panicking
handler leaves its key in the map without a drain task, so later requests of that
key wait for ever; and a connection whose drain timed out may still have handlers.

*Turns.* As long as only the user drives the session, the properties of its run hold,
and so do those of the other run for mail and idle work alone. With other values of `Features` TLC finds
where the combinations depart from what the code says of itself:

| `Features` | property that fails | what the code does |
|---|---|---|
| input, mail | `StartFindsNoTask`, `NothingLost` | user input takes a turn that a finishing task has reserved for mail; both install a task, one is dropped unreported; mail moved into the reserved turn goes with it |
| input, inject | `NothingLost` | items injected into a turn whose task is already gone are dropped with it |
| input, mail, interrupt | `WakingMailIsRead` | an interrupt that takes a task-less turn does not look for pending work, and neither does the turn's former owner |
| input, mail, shutdown | `NoTurnAfterShutdown` | the abort inside shutdown starts a turn for waiting mail |
| input, guardian | `RunningTurnIsActive`, `AtMostOneTerminal` | a task that ends during the grace period of its abort detaches the next turn's task: two run, and the aborted turn is reported over by its finish and again by its abort |

With mail alone the mailbox is looked at before the slot is locked and not again,
so a turn may be made for mail that has been read meanwhile. `ActiveTaskIsAlive`
holds in all of these environments.

`NoTurnAfterShutdown` (no turn goes on after ShutdownComplete) is no property of a
run, since the code does not keep it. It is defined in `TurnLifecycle` and refuted with
`Features = {"input", "mail", "shutdown"}`: `shutdown_session_runtime` aborts the
active turn (`handlers.rs:603`), and `abort_all_tasks` then starts a turn for mail that
waits (`tasks/mod.rs:504-505`), after which the session is shut down around it. The test
`shutdown_complete_does_not_append_to_thread_store_after_shutdown`
(`core/src/session/tests.rs`) shuts down a session without a turn and without mail.

*Approvals.* A tool call runs only on a client's acceptance of this very request
and is not told of a refusal nobody made; a client whose start or resume of the thread
was answered, and who is still subscribed, has every pending request, also after a
resume in the middle; and a wait ends, unless no such client is left or the request is
withdrawn. Both exceptions are real. A client that is subscribed in another way, by
a realtime call or a resume that failed half-way, has only the requests made since; if
the others leave, a call may wait although somebody is subscribed. And a request may
be withdrawn too early (`approvals_late`):
a turn that is finishing has left the slot without a task, user input starts the
next turn at once, and if that asks for an approval before the terminal event of
the first turn is handled, the handler withdraws it. No client can answer it any
more and the call waits until somebody interrupts it. `EveryAskEnds` shows that
of what is modelled nothing but these two leaves a call waiting.

*Agents.* The count is never below the agents that are known, being spawned or
being released, so the V1 limit holds; paths and names stay inverse; slots are
neither leaked nor given back twice; and the search for a resident to unload ends
although others take the slot it frees. Two things the properties do not claim,
because the code does not provide them: `total_count` may stay too high for good
(two overlapping V1 resumes of one agent both count, one registration is released),
and the limit on running V2 agents is checked before a turn starts and counted when
it does, so that several calls may pass together.

*Exec.* While the server still has the output, a consumer sees every event once
and in order, whatever breaks, and is told the end or the failure; a failed client
keeps no session; a write is handed to the process at most once however often it is
retried, and once if the caller is told that it was accepted (a refusal says nothing:
an earlier try may have been accepted and its answer lost); a process nobody follows
is ended. With evicted output (`exec_lost`) the recovery takes the first
gap for the exit it has not heard of; if the real exit arrives after that and
before the session is failed, the gap closes, and the stream ends as complete
without the lost output. In the same instance the events before the evicted gap
were checked to be genuine (1.6M states, no run of its own).

*Writer locks.* One process at a time writes, archives or deletes a thread; a
guard's file stays at its path, so the lock excludes newcomers; a refusal is for a
live guard or a process about to be gone; no rollout is moved under a writer; and
no call hangs on the coordination lock, whatever fails or ends half-way.

**Bounds.** `MaxRequests`: three are enough for a batch of two reads with a write
before or behind it, and for a request that arrives while a drain task is ending;
two, for one of each connection, one running while the other is turned away. Two
connections are enough for one that closes while the other is drained by the
loop. `MaxOps` (turns) bounds submissions and idle attempts, `MaxTurns` and
`MaxStates` the turns and turn states. In `turns_user` an operation starts at most
one turn, so the last two never stop a start; in `turns_idle` a start they stopped
would hang with its reservation and break `ReservationEnds`. In `turns_alive` they
may stop one; its property is proved without bounds. Four operations let a turn be
started, steered, replaced and interrupted, with each finish racing the next
operation; three let two mails and an idle attempt, or one mail and two attempts,
meet. Approvals: two turns for one that finishes or is aborted while the next
asks, two approvals for an answer that could meet the wrong one, two connections
for one that answers while the other leaves; with one move, the other comes back with
or without a replay, or unsubscribes. Agents: with a limit
of one, two callers contend for every slot and count, and four calls are enough to
spawn, find an agent dead, release it and spawn again beside another call. Exec:
two outputs are enough for one published, one missing and the exit around them; the
number of disconnects and recoveries is not bounded. Writer locks: two inodes let
a lock file be replaced under a task that has the old one open; five calls with a
crash cover a stale file left behind, its clean-up and two contenders.
Deadlock is not checked: clients may simply stop, and bounded instances do.

**Fairness.** Spawned tasks are polled again and again by tokio, so each process
takes its next enabled step; timers (the 30 s drain, the 100 ms grace, session
expiry, the recovery timeout) fire; handlers and turns end. Nothing is assumed of
signals, background work, the guardian, of extensions before they call, of callers
and crashes, or that a connection holds. Clients are assumed to answer only in
`EveryAskEnds`, and only while they have joined. A process need not exit unless
it was killed (`WF_vars(killed /\ WatchExit)`), and its pipes end after its exit. A
clean-up's terminate gets through if the client is connected again and again: the
only strong fairness, justified by its loop, which waits for the next connection.
The system closes the files of a process that ended. That handlers, turns and
killed processes end is an assumption about models, tools and systems rather than
about this code.

**Mutants.** Every property of every passing run has a mutant: an
altered copy of one definition, kept right before it in the component's module
(a dropped guard, a missing reset, the wrong end of a queue), under which
TLC finds the property violated.

## 4. What is proved

The `*Proofs` modules prove, for every value of the constants (save the two
conditions stated below, on `Features` and on `Retained`), under the named
assumptions of the modules only (shared keys are keys, values that stand for none
are none, sets of callers, agents and paths are finite, bounds are natural
numbers):

* `RequestQueues`: `TypeOK`, `ExclusiveRunsAlone`, `ServedInOrder`,
  `QueuedHasDrainer`, `QuietAfterDrain`, `QuiescentStop`, and `ServicePromise`:
  every behaviour is one of `SerializedRequests`;
* `TurnLifecycle`: `TypeOK`, `ActiveTaskIsAlive`, whoever drives the session;
  `StartFindsNoTask`, `AtMostOneTerminal`, `RunningTurnIsActive` and `NothingLost`
  for a session driven by its user (`Features` within input, command, interrupt,
  shutdown, steer, defer, sleep) and for one driven by mail and idle work (`Features`
  within mail, steer, idlework, defer, sleep), the latter, but for `NothingLost`, even
  with injected items;
* `Approvals`: `TypeOK`, `DecidedByClient`, `AbortedOnlyWithTurn`,
  `EveryJoinedAsked`;
* `AgentControl`: `NeverUndercounted`, `KnownWithinLimit`, `PathsAgree`,
  `PendingIsHeld`, `TypeOK`;
* `ExecRecovery`: `TypeOK`, `NoDeadSession`, `WrittenOnce`, and, if the server
  retains all output (`Retained >= MaxOutput`), `ClosedIsComplete` and
  `StreamPromise`: every behaviour is one of `ProcessStream`. Without that
  assumption they are false, as `exec_lost` shows, so eviction is the only cause;
* `WriterLock`: `TypeOK`, `AtMostOneWriter`, `GuardIsAtPath`, `RefusalIsReal`,
  `NotMovedUnderWriter`.

**Queues.** None of the first three invariants is inductive: they speak of
running requests and do not say where the others are. `QueueInv` says it: the
requests of a key are, in the order of their numbers, settled ones, then the
batch, then the queue (`QueueSorted`, `PoppedBeforeQueue`, `BatchIsLast`), every
active one is in the batch (`ActiveIsInBatch`), a batch of more than one is all
reads (`BatchShares`), only a joining drain task has a batch (`BatchOfJoining`), and
a key is in the map exactly when it has a drain task (`Drained`). One lemma per
action, or per group of actions that disturb the same parts. The refinement needs
no more than `QueueInv`: a request that was popped has its turn, because everything
of its key before it is settled or reads beside it in the same batch (`InOrder`,
`PoppedHasTurn`). Enqueuing is then a `Come`, passing the gate a `Begin`, and
finishing, being turned away, and the unwinding of a whole batch are `End`s
(`ServiceCome`, `ServiceEnd`, `ServiceStep`); everything else is a stutter.

**Closing.** `CloseInv` adds to `QuietAfterDrain` that a connection being cleaned
up has a closed gate (`GoneIsClosed`), that past the drain every gate is closed and
empty (`StoppingIsClosed`), and that an RPC belongs to a connection that was opened
(`GateWasOpened`): nothing can start behind a wait that began after the close.

**Turns.** `TypeOK` needs `GraceHolds` (whoever waits for a task to end holds its
turn and its turn state). `AliveInv` explains why the slot never keeps a dead task
although tasks get overwritten and detached: the turns somebody is aborting are
cancelled (`VictimCancelled`), the one in the slot is not (`ActiveNotCancelled`), so
an abort never kills the task in the slot; and a new turn has a new number
(`TurnsInOrder`). `ActiveNotCancelled` also shows that the early return of
`handle_task_abort` for an already cancelled task is never taken, which is why the
model does without it.

**Sessions.** The other turn properties are false in general: the table in section 3
has their counterexamples, in which starters race each other, an abort, or items that
arrive for a turn on its way out. There are two ways to drive a session without such
a race, and `TurnSessionsProofs` shows for each of them why it is safe.
With the user alone, only the submission loop starts turns, and it aborts what is in
the slot first. `UserInv` says what it knows at each step (`SubPlaces`: from the
abort to the install there is no task in the slot, and no turn holds the state that
it installs into), that a turn that works is in the slot or is the one being aborted
(`TurnPlaces`), that a terminal event is still to come for both (`EndsOnce`), and
that input waits only in a state with such a task (`PendWatched`).
With mail and idle work, several start turns, and nobody aborts (`NoAborts`). Then
the reservation protects: whoever is between taking the slot and installing a task,
or between leaving its task and giving the slot back, is the one holder of it
(`OneHolder`, `SlotHeld`, `HolderKnows`), so no one else finds it free. `IdleInv` adds
that whatever is pending is in the state that the holder has (`PendHeld`); an
injection breaks just that, as the table shows, since it may come after the last look
of the task that is leaving.
Steering, deferral and durable sleep are in both sets: they do not touch the slot.

**Approvals.** `TurnInv`: the task in the slot is the one turn that runs, and a call
that waits in a running turn has its sender in that turn's state, so only calls of a
cancelled turn are aborted. `RequestInv`: a request passes the event queue, the
callbacks, the command queue and the submission queue once each, and its result is
fixed when its callback is taken, so the decision that arrives is the client's.

**Agents.** `Inv` adds to the four properties the shape of a call at each step and
the types of the two tables (`Calls`, `Tables`), and that a V1 count is within the
limit (`CountWithinLimit`). A candidate that is being stopped is an agent (`Chosen`), so a
failed stop puts an agent back. The counting itself rests on two lemmas about the
cardinality of a set of callers or agents that gains or loses one element. `TypeOK`
adds that the list of residents has no duplicates (`Rest`): `touch` removes an agent
before it appends it.

**Exec.** `Safe` is enough for `NoDeadSession` and `WrittenOnce`: the
recovery task works under the status it set (`Places`), and an answer to a start or
a write says that the process was started, or that the write was remembered before it was
accepted (`Answers`).
`TypeOK` needs that every sequence number in use is one the server gave (`Numbers`),
the end of a recovery's answer among them. The refinement needs `StreamInv`: the log is in the
order the process promises (`Ordered`), all output is retained (`Kept`), what is
published is a prefix of the log (`Prefix`), and the answer to a read tells the truth about the log (`Truthful`). From it follows
that the only event a recovery can miss is the exit, so that its guess is right
(`ExitsAreExits`), and every step is a step of `ProcessStream` or a stutter
(`QuietStep`, `DeliveryStep`, `FailureStep`, `ProcessStep`, combined in `StreamNext`).

**Writer locks.** `Inv` follows the argument in the comments of the code: a lock
needs an open file (`LockNeedsFile`), a guard has its file locked (`GuardLocks`) and
at its path, whoever scans, opens or unlinks has the coordination lock (`CoordHeld`),
so a file about to be removed is nobody's (`Removing`, `Unlinking`) and a file just
opened is still at its path (`TryOpen`, `HandleOfPath`); paths have different files
(`Distinct`); a process that ended does nothing more (`DyingQuiet`).

**Only model-checked.** The liveness properties, since TLAPS does not handle fairness
and `ENABLED`. That the two refuted properties fail is shown by their runs. Every
invariant and every other action property of a run is a theorem; the turn properties
are theorems for all sessions of the kinds their runs instantiate.

## 5. Hazards

`PROJECT.json` lists them at the line where they bite. Each names the properties
that would catch it; where there is none, a note says why: either the part is not
modelled, or the model has the behaviour and no statement of the repository
excludes it (an execution limit passed by several calls, a late cancel answer that
interrupts the next turn, a turn started inside shutdown for waiting mail, a subscriber
that is not sent the pending requests, an unarchive beside a delete of another process).

## 6. Abstractions a reader should know

* Queues: two clients' requests reach the loop in some order; the transport in
  front of it is not modelled, nor is what handlers do to threads. The drains of
  listener and background work after `CleanUpsDrained` are not modelled;
  `"stopped"` is the point where threads are shut down.
* Turns: the submission loop's other exit, a closed channel, is not modelled. The
  order of items within a queue of the session is not modelled, only where each
  item is.
* Approvals: command and patch approvals stand for all answers that wait in a turn
  state. Teardown of the listener, unloading of the thread, guardian aborts, turns
  started by mail, and sends that fail during shutdown are left out.
* Agents: nicknames, registration of the root, metadata restored from rollouts,
  mail that starts no turn, closing of descendants, and an error of the flush before
  an unload are left out.
* Exec: one process, since the sessions of a client share only the connection. The
  link is the connection in use, current or candidate; earlier ones are dropped with
  what they had queued. A read is one step with its answer. Byte limits are folded
  into counts. Protocol errors this server cannot produce are left out, and a caller
  that goes away is seen when the answer comes. A writer task may be gone as soon as its
process was killed or has exited. `Session::read`, signals,
  unregistering, HTTP bodies and network-policy requests are not modelled.
* Writer locks: a batch is a call per thread; the content of rollouts, their
  background writer, and a shutdown that fails (the recorder stays, which is no step)
  are left out. The clean-up's lock and close of one file are one step. Appending to
  a rollout file of a thread that is not live is done by the code outside the lock
  and is not modelled; nor is forking.

## 7. Map of the properties to what could go wrong

* a request run twice, out of turn, or lost with another key's: `ServicePromise`
* lost wake-up between `drain` and `enqueue`: `QueuedHasDrainer`, `EveryRequestSettles`
* handlers behind a closed gate: `QuietAfterDrain`, `QuiescentStop`
* a turn reported over twice or never: `AtMostOneTerminal`, `EveryTurnEnds`
* a turn nobody can reach: `RunningTurnIsActive`
* a session busy for ever: `ActiveTaskIsAlive`, `ReservationEnds`
* input or mail lost or never read: `NothingLost`, `WakingMailIsRead`
* a command run without consent, or a tool call stuck: `DecidedByClient`,
  `AbortedOnlyWithTurn`, `EveryJoinedAsked`, `EveryAskEnds`
* counters and slots that drift: `NeverUndercounted`, `PendingIsHeld`, `PathsAgree`
* output lost, repeated or out of order; a write repeated: `StreamPromise`,
  `WrittenOnce`; a process or consumer left behind: `SessionSettles`, `OrphanEnds`
* two writers of a file, or a lock on a file nobody sees: `AtMostOneWriter`,
  `GuardIsAtPath`; a thread locked for nothing: `RefusalIsReal`

## 8. Not modelled, and what is left

* **Worth a module**: the in-process app server (bounded queues with lossy and
  lossless events), the background writer of rollout files with its flush barrier,
  the job leases of the state database, the process table of unified exec.
* **Out of reach or of little use**: sockets, stdio and the remote-control client
  (I/O), MCP, hooks, login, network proxy and daemon (I/O around the core), code mode
  (a host for a JavaScript engine, off by default), the terminal and graphical front
  ends (rendering), patch application (a string algorithm on files).
* **Worth stating**: `Approvals` with the full `TurnLifecycle` in place of its coarser
  turns; an abstract session (turns that start, take input, end once) implemented by
  `TurnLifecycle` for the two kinds of sessions.
* **Worth proving**: `AtMostOneTerminal` and `RunningTurnIsActive` for user input beside
  idle work. TLC finds them true there, while `StartFindsNoTask` and `NothingLost` fail
  as they do for input and mail.
