# A TLA+ model of web_terminal_acp

web_terminal_acp is a server that runs coding agents in tmux terminals, shows the
terminals in a browser, and drives the agents from a board of *project todo* cards.
The modules here model the part of the backend where several asyncio tasks, HTTP
requests, agents and background loops write the same rows and the same in-memory
sets: `src/backend/app`. Every definition is a translation of code; `PROJECT.json`
gives the lines. Paths below are relative to `src/backend/app` unless they start
with `src/`.

## Inventory

### The system

Two processes run the backend (`src/docker-compose.yml`). The server answers the API and
the websockets and runs the background tasks of dispatches, verifications and the cron
scheduler; `agent-event-worker` persists the agents' events from the stream, and creates
verification tasks of its own. The state is in PostgreSQL (cards, runs, windows, jobs), in
Redis (the event stream) and in the memory of each process (sets of reservations, queues,
connections), which the other one does not see. Within a process concurrency is
cooperative: between two awaits a coroutine runs alone, and at every await any other
request, task, loop or agent event may run. A database transaction isolates what is
uncommitted (read committed, with row locks for writers), not what was read earlier.

| Component | State | Operations | Hard behaviour |
|---|---|---|---|
| Project todo dispatch (`contexts/workspace/application/project_todo_dispatch*.py`, `infrastructure/project_todo_runs_repository.py`, `..._dispatch_recovery_repository.py`) | card rows, run rows, queued rows, `_dispatches_in_progress` | dispatch, queue, patch, comment, board sync, cron tick, background task | a reservation in memory next to rows in the database; awaits of minutes inside a dispatch; restarts |
| Completion verification (`project_todo_completion_verification.py`, `..._background_gate.py`) | one `_verifications_in_progress` per process, the card's stage and its waiting text | schedule, query, defer, review, verdict, retry, recheck | many tasks for one card in two processes, verdicts that arrive late, rows committed by others in between |
| Dependencies (`project_todo_dependencies_repository.py`) | edges between cards | replace, ready queries, cycle check | two replacements that each look for a cycle before the other commits |
| Reviews (`project_todo_reviews_repository.py`) | review columns and snapshots | start and finish a review | same pattern as a dispatch |
| Artifacts (`project_todo_artifacts.py`, `terminal_artifacts/`) | one row per artifact | request, generate, reconcile at startup | generation that dies with the process |
| Worktrees (`git_worktree_coordinator/`) | projections of git state | track, summarise | parsing, no protocol |
| Subscriber writer (`terminal_runtime/application/subscriber_writer.py`) | one bounded queue, its byte counters and the frames in flight, per browser | enqueue, shed, ack, send, close | a slow browser, a full queue, an acknowledgement window |
| Terminal broker (`terminal_runtime/application/broker.py`) | subscribers, attachments, selection | subscribe, attach, publish, select, drop | awaits of the runtime outside of its lock |
| Client agent outbound (`client_agent/outbound.py`) | control queue, per-window output queues | put, rotate, prioritise, close | order of output of one window, producers blocked on a closed writer |
| Client connections (`client_connections.py`, `offline_monitor.py`) | one connection per client | register, replace, expire | a stale disconnect after a reconnect |
| Summary jobs (`summary_jobs_repository/`, `summary_worker.py`) | job rows | enqueue, claim, finish, retry, supersede | a job taken over while its first worker still runs |
| Agent events (`activity/application/agent_event_queue.py`, `agent_event_worker.py`) | a stream with pending entries, dead letters | append, claim, process, acknowledge | at-least-once delivery |
| tmux runtimes, windows, fleet, profiles, operations API, platform, bootstrap, frontend | see `PROJECT.json` | | I/O, generated scripts, facades |

### How the components meet

A board request starts ready cards and then brings the rows up to date with what the
windows say of their agents. An agent event, ingested from the stream, updates the
window row and, if it is a completion, the card that is assigned to the window. With
the setting `project_todo_completion_verification_enabled` (on by default) the last
step creates a verification instead, which completes the card later. A completed or
patched card satisfies its dependents, whose queued dispatches then start. The cron
scheduler starts periodic cards. All of them go through the same reservation.

### What makes each component correct

- *Dispatch*: one terminal per card and dispatch; a reservation neither lost nor held
  for ever; a run ends however its task ends; a board that shows a dispatch in flight
  has something in flight; a periodic card is scheduled again.
- *Verification*: one verification per card and process, whose reservation is handed back
  however it ends; a card whose background work runs is not completed behind its back; the
  agent's completion leads somewhere.
- *Dependencies*: the graph stays acyclic.
- *Terminal path*: bytes of a window arrive in order and once; bounded memory; a slow
  browser delays nobody else.
- *Jobs and events*: every job or event is processed at least once and its effect is
  applied once.

The hazards behind these sentences are listed, line by line, in `PROJECT.json`.

## Plan

1. `TodoDispatch` (done, proved): dispatch, runs, stages, queue, cron, comments; shown to
   implement the abstract `RunLedger`, which knows runs, holders and schedules only.
2. `CompletionVerification` (done, proved): the verification of one card.
3. `SubscriberWriter` (done, proved): counters equal to the queues' content, the window of
   acknowledgements, order, loss only where the code sheds; shown to implement the abstract
   `OutputStream`, which knows nothing of queues, frames and windows.
4. `TerminalBroker` (done, proved): the broker's bookkeeping of attachments and detach
   tasks over an abstract connection of the client.
5. `ClientSession` (done, proved): the websocket handlers and the registry, composed with
   the broker and shown to implement its abstract connection.
6. `AgentEvents` (done, proved): the stream, the event worker and the activity
   columns of a window.

Not reached: the summary queue (a job that is RUNNING for too long is failed when a
follow-up is due), the outbound queues of the client agent, and two replacements of
dependencies that overlap at read committed.

How the modules meet: `ClientSession` instantiates `TerminalBroker` with its registry as
the link. `AgentEvents` ends where a completion is handed to the cards of a window;
`CompletionVerification` starts there: each process has an inbox of completions.
`TodoDispatch` has the whole board with the verification off.
No module that is proved about uses a RECURSIVE operator. The proofs about a module are in
the module of the same name with `Proofs` added; `FoldLemmas` has what they need about
folds over sequences.

## TodoDispatch

A card is a row; a start reserves it (`_dispatches_in_progress`), commits row and run
and creates a background task.

| Model | Code |
|---|---|
| `todo`, `deps`, `queued`, `armed`, `runs`, `count` | card row, dependency rows, queued row, `next_trigger_at is not None`, run rows, `execution_run_count` |
| `agent` | what the window row says of its agent: latest input, latest completion |
| `reserved`, `tasks` | the in-memory set and the asyncio tasks, whose `pc` names the await they are in |
| `sweep[c]` | the list of cards a caller read and now starts one by one |
| `lost` | history: tasks that died with the process |
| `DispatchTodo`, `PatchStatus`, `PatchSatisfies`, `ListTodos`/`ListSync`, `SubmitComment` | the HTTP handlers |
| `SweepStart`, `SweepSkip`, `SweepConflict`, `SweepEnd` | `_dispatch_queued_project_todos` and the cron loop; a conflict is the unique run number computed from a row read earlier |
| `Task*`, `CommentAttach`, `mark_project_todo_dispatch_failed` | the stages of the background task and its error path |
| `AgentInput`, `AgentCompletes`, `Crash` | the agent's events and a restart |

Timestamps are kept only as far as they are compared: `answered` says that the window's
latest completion is not older than `dispatched_at`, `typed` that the latest input is
newer than the row, `input` how many runs had started by the latest input. A run number
names the window it opened.

Merged: the reads and the commit of a start, which nothing separates but flushes; a
patch's commit and its reading of the ready cards. Left out: deletion, moving a card to
another project, editing its schedule or content, requested artifacts, and database
errors other than the conflict of run numbers. The module describes the setting
*verification off*: a completion ends the card at once. The next module describes the
default setting, for one card.

### Its runs

- `dispatch_pair`: two cards with every acyclic dependency, one of them periodic, one
  request, one run each, two user operations, two agent events, under fairness. Enough
  for a queued card to be freed and started while the other one is patched.
  `QueueDrains` needs the deadlines of the waits and a board that is read again. With one
  run and one request no two starts of a card meet, so run numbers do not conflict here.
- `dispatch_cron`: one cron card that reuses its terminal, two runs, three operations,
  three events, one restart. The second run shares the terminal with the first, which is
  where late events of an old run meet a new one, and where a restart leaves runs and
  stages behind. The scheduler may have read the card before a manual dispatch took its
  next run number: `ReservationExact` is checked here again for that conflict.
  520 thousand states. `ImplementsLedger` relates the run to `RunLedger`:
  with the `<<card, run>>` pairs of the live tasks as the holders, every step is a start, a
  comment, a commit, a failure, an observation or a restart of the ledger, or changes
  nothing there. The ledger allows a commit to set a run to DISPATCHED that was seen
  completed meanwhile, because the code does (`project_todo_dispatch_after.py:391`).
- `dispatch_cancelled` and `dispatch_reschedule` end in a violation, see *Findings*.

Deadlock is checked: a board request is always possible.

Fairness: every wait of a background task has a timeout, so a task's next step (or its
failure) comes (WF per card); a request runs to its end (WF); an open board is fetched
again every ten seconds (`src/frontend/src/features/projectTodos/useProjectTodosQuery.ts`),
so reading it is strongly fair; the scheduler loop ticks (WF). Users and agents owe
nothing.

### Its proofs

`TodoDispatchProofs` proves, for all cards, policies and bounds, `TypeOK`,
`ReservationExact`, `TaskOwnsLatestRun`, `StartingRunHasOwner`, `InFlightStageIsLive`,
`DisarmedCronHasOpenRun` and the action property `FailedRunStays`. The only assumption
is `DispatchAssumption` on the constants. The invariant `IInv` conjoins all of them with
two facts none of them says: the runs beyond `count` are unused (else a new run could
inherit a status), and the run of a live task has not failed (else the task's commit
could revive it). `TaskOwnsLatestRun` holds because a start needs a free reservation and
`ReservationExact` says that a free reservation means no task. The steps of a task are
grouped by what they do to the set of tasks (`Move` or `End`), so that the argument
about reservations is made once.

*The refinement.* `DispatchImplementsLedger` maps each kind of step (`QuietStep`,
`StartStep`, `CommentStep`, `MoveStep`, `CommitStep`, `FailStep`, `Crash`) to one action of
`RunLedger` or to a stutter. The guards of the ledger are not in the code; they follow from
the invariant: a card that starts is free because `ReservationExact` leaves an unreserved
card no task, the run that ends is the newest by `TaskOwnsLatestRun`, and it has not failed
before because the run of a live task has not.

## CompletionVerification

One card and its terminal, with verification on, and the two processes that create
verification tasks: the server and the event worker.

| Model | Code |
|---|---|
| `card` | status, `dispatch_stage`, what `dispatch_error` says about waiting, `dispatched_at` |
| `window` | latest and deferred completion, pending subagents, background processes |
| `inbox[p]` | the completions that process `p` has yet to ingest: the server from the websocket, the worker from the stream |
| `task[i]` | verification tasks; `home` is their process, `pc` names the await, `stage` and `wait` what the task read |
| `reserved` | the processes that have the card in their `_verifications_in_progress` |
| `open[c]` | the uncommitted transaction of a board request or of a process that persists a completion: the task it created is already running |
| `waiter` | history: the process whose task last made the card wait |
| `AgentCompletes`, `persist_managed_agent_event`, `DeferCompletion`, `SyncsNothing` | the completion goes to both processes, and what each does with it |
| `sync_*`, `FlushSync`, `CommitSync` | both syncs; the flush takes the row lock, the commit makes stage and window visible |
| `_delayed_verify_todo_completion`, `Skip`, `_release_verification` | the reservation of the task's own process |
| `_defer_...`, `SeesWork`, `Review`, `Recheck` | waiting for background work, then for the final completion |
| `Verdict*`, `complete_...`, `BlockCard` | the auxiliary agent's answer and what follows |
| `BeginDispatch` ... `FailDispatch`, `PatchStatus` | the dispatch of `TodoDispatch`, in four steps, and patches |
| `VerificationFails`, `Crash(p)` | an await that raises, a restart of one of the processes |

Details that decide behaviour and are kept:

- A session writes only the columns that differ from what it read (`Settled`), a writer
  waits for a flushed row and a reader does not (`Unlocked`, `WindowUnlocked`). The
  transaction of a completion reads the window first and the cards later, after what it
  changed of the window has been flushed (`FlushesWindow`); the other process may have
  committed the same completion in between, and created its task.
- The retry is created before its parent has released the reservation, because leaving
  `async with session_factory()` awaits the close of the session (`_release_verification`
  waits for the retry's first step).
- Only the server is connected to the terminal. A task of the worker has no registry and
  sees pending subagents, but no process; a query that fails sees none either
  (`NoBackgroundWork`).

Completions are numbered in the order they happen, and a number is a time. The server
ingests them in order, the worker in any, and after a restart of the worker all of them may
be delivered again. Whether a completion that the window already has is taken for a
duplicate depends on events that are not modelled, so both may happen. The lock of the
event's own row, which the two processes insert, is left out: it only removes interleavings.
Events of subagents are ingested in one step (`AgentEvents` has the two processes on
those). The auxiliary agent is a verdict that may come at any time, with any content. The
three in-flight stages of a dispatch are one. A card that never waited does not reach the
auxiliary agent, so the retry branch without waiting is dead code and is left out, as are
requested artifacts and a change of terminal.

### Two processes

`OneVerification` and `WaitingCardNeedsVerdict` speak of the tasks of one process, because
that is all the reservation gives. Across the processes TLC finds the opposite, in runs
that are not kept:

- Two tasks ask for a verdict on one card, with one completion and nothing else: the worker
  reads the window; the server persists the completion, and its task makes the card wait for
  background work; the worker hands the same completion over (a card that waits is due
  again), and both tasks go on until they ask.
- A task completes without a verdict a card that waits: a completion is ingested while the
  card is moved to DISPATCHED by hand; a board request and the worker both create a task
  before either commits. The worker's task looks at the card first and is about to complete
  it; the server's task makes it wait; the worker's task completes it. Without the manual
  move this was not found with one or two completions.

### Its runs

- `verification_safe`: one dispatch, one completion, one process or subagent, two attempts,
  one mishap (a status patch, a failing task or a restart of either process), one board
  request and three task slots. 1.6 million states. One completion is enough for two tasks
  of each kind: both processes hand it over, and the board finds it again. A retry, a
  recheck and a task of the other process together fill the slots.
- `verification_live`: a periodic card, one dispatch, two completions (the one that waits
  for the subagent and the final one), two slots, one attempt, no mishaps. 810 thousand
  states. `VerificationEnds` is asked only here, because the code has no repair for a card
  that a restart, a failed task, a second dispatch or a manual move to DISPATCHED leaves in
  the stage `verifying` without a waiting text: every later sync passes it over.
- `verification_retry` ends in a violation, see *Findings*. The loop it shows stays within
  the server.

Deadlock is not checked: a card at rest, with every bound used up, has no next step.

Fairness: tasks and transactions run on (WF), a verdict has a timeout
(`project_todo_completion_verification_timeout_seconds`), an open board is fetched again
(SF), a dispatch commits or fails because its waits have deadlines (WF), and background work
ends (WF): with a process that never ends the card waits by design. Nothing is assumed of
the ingestion: a completion that was committed is found by the board.

### Its proofs

`CompletionVerificationProofs` proves, for any number of requests, tasks and attempts,
`TypeOK`, `OneVerification` and the action property `WaitingCardNeedsVerdict`, from
`VerificationAssumption`. `IInv` adds `UnaskedSawNoWait`: a task that is about to
complete the card without a verdict still finds it waiting for nothing, unless a task of the
other process made it wait. It is inductive only together with `OneVerification`: the steps
that make a card wait are taken by a task past the reservation of its process, hence, in
that process, by that very task, which then no longer completes. All steps outside of the
verification tasks are covered by one lemma (`Outside`): they start no task past the
reservation, make no card wait and leave `waiter` alone. A restart (`Crash(p)`) ends the
tasks of `p` and its reservation, and touches nothing of the other process.

## SubscriberWriter

The writer stands between the readers of a terminal's output and one browser tab.

| Model | Code |
|---|---|
| `queue`, `queued`, `ack`, `inFlight`, `frames`, `closed` | the fields of the same names |
| `sending` | the writer's task is in the sender's await |
| `failed` | the broker found the writer failed and is about to drop it |
| `client`, `browser` | the tab: how it acknowledges, and the frames it has not acknowledged |
| `offered`, `wire`, `lost`, `early` | histories: bytes produced, handed over, shed or refused, unacknowledged when acknowledgements began |
| `Accept`, `Refuse` | `_enqueue` returning True or False, with shedding and coalescing |
| `_next_message`, `SendDone`, `SendFails` | one turn of `_run`: splitting or joining, the send, its exception or timeout |
| `EnableAcks`, `AckFrame`, `AckBytes` | `output_ack`: the first one, one without and one with a number of bytes |
| `close` | `close`, by a drop or an unsubscribe |

A payload is the sequence of the positions of its bytes, which is all that order and loss
need; a status is one byte long. The tab is the frontend's worker
(`src/frontend/src/terminalSocketWorker.ts`): it sends an acknowledgement without a number
when the socket opens and then acknowledges bytes it has drawn; a tab that acknowledges
every frame without a number, as the tests of the broker do, is the other value of
`client`, and one that never acknowledges is either without `EnableAcks`. Left out: a
writer without a status sender (the broker publishes statuses only to writers with one)
and empty payloads.

### Its run

`writer`: a queue of three bytes and two messages, frames of two bytes, a window of three,
outputs of one to four bytes (four can never fit), six bytes and one status in all: 80
thousand states. Six bytes are two unacknowledged before acknowledgements begin, a full
window and one that waits; a status in the queue is what makes an output refused after
shedding. Fairness: the task runs on, a send ends or runs into its timeout
(`PUBLISH_OUTPUT_SUBSCRIBER_TIMEOUT_SECONDS`), and a tab that acknowledges goes on; the
terminal, the broker and the start of acknowledgements owe nothing. Deadlock is not
checked: a closed writer stops.

`ImplementsStream` relates the run to `OutputStream`: with `Bytes(queue)` as what is kept
for the tab and `wire` as what was delivered, every step of the writer produces (and keeps
or refuses) the next bytes, delivers the oldest bytes it keeps, begins to repaint, closes,
or changes nothing there. Dropping what is kept is allowed only to a produce for a tab that
acknowledges, or to a close, so that a shed for any other tab, or bytes that overtake
others, would be a step the stream does not have.

### Its proofs

`SubscriberWriterProofs` proves, for all limits, windows and sizes of output, `TypeOK`,
`CountersExact`, `UnackedBounded`, `NothingLostSilently` and `ImplementsStream`, from
`WriterAssumption` alone (the limits are positive numbers).

*The sums.* `queued` and `inFlight` stand for folds over sequences, and the facts needed of
these are inductions over data. They are made without an induction theorem: a set of
numbers with 0 that is closed under the successor is all of `Nat`, because what it leaves
out has no least member (`LeastMember`, `SetInduction`), hence a set of sequences with the
empty one that is closed under Append has them all (`SeqInduction`). What is left is the
value of each fold on `<<>>` and on `Append(s, x)`. A fold is the choice of a function on
sets of positions; `TableExists` builds that function along the prefixes, and `TotalTable`,
`BytesTable` and `KeptTable` read the two equations off it. From these follow what a
concatenation, a slice and a shed do to sums and bytes (`HeldConcat`, `BytesConcat`,
`KeptShape`).

*The invariant.* `IInv` is `Typed`, `Exact`, `Windowed` and `Ordered`. `Exact` is
`CountersExact` and needs only `Typed`: what a shed, a split or a join takes from the queue
is what it takes from the counter. `UnackedBounded` alone is not inductive, because it does
not say why an acknowledgement of bytes leaves enough for the later ones: `Windowed` adds
that nothing is in flight before acknowledgements begin or after a close, that for a tab
which acknowledges frames those in flight are the last ones it still holds (`Ends`), and
that for one which acknowledges bytes the tab holds at most `early` more than is in flight.
`Ordered` adds to `NothingLostSilently` that bytes handed over and queued are counted within
`offered` also after a close, so that what the tab holds is bounded by what was sent.

*The refinement.* Each action maps to one action of `OutputStream` or to a stutter. A turn
of the task delivers as many bytes as its frame has, which are the oldest ones kept because
a frame and the rest of the queue are a cut of the queue's bytes; a send that fails closes
the stream, which it can do only once because a closed writer sends nothing
(`ClosedStaysIdle`).

`OutputDrains` is liveness and stays with TLC.

## TerminalBroker

One terminal view of one remote client: browser sockets attach it and leave, the broker
remembers the attachment and asks the client's agent to attach and detach.

| Model | Code |
|---|---|
| `attachment`, `subs`, `entry` | the view's entries in `_attachments`, `_subscribers`, `_detaches` |
| `detach[a]`, `leave[a]` | the detach task that `a` created, and how far `a` is with closing writers and awaiting it |
| `sock[s]`, `waits`, `behind` | where the handler of a socket is, whose task it awaits, and whether it is resumed before or after the task's creator |
| `spinning` | the loop of `attach` runs without suspending |
| `link`, `cleanup`, `alive`, `wire`, `replies`, `shown` | the client's connection and the agent behind it |
| `Subscribe`, `Wake`, `Look` | `terminal_websocket` and the loop of `attach` |
| `Attached`, `AttachFails` | the reply; a failure, timeout or lost connection |
| `unsubscribe`, `_drop_subscriber_writer`, `FinishClose`, `FinishDetach`, `Detach` | leaving, as a socket or as a writer that failed |
| `clear_client`, `InputFails`, `HandlerClears` | what forgets attachments |

The code between two suspensions is one action. The lock is never held across an await,
so taking it never suspends, and awaiting a task that is done does not suspend either:
`Look` has that case as a disjunct. Left out: selecting another window (which changes what
an attachment names), resizing, a second drop of a writer that was dropped already,
statuses, and sharing an attachment among several clients.

### Its runs

- `broker_reconnect`: two sockets and one connection, under fairness. It ends in a
  violation, see *Findings*.
- Everything else is asked of the composition, below, so that it is asked with a real
  connection.

Fairness: a coroutine that can run is run and a request has a timeout. Browsers, slow
writers, the network and the agent owe nothing.

### Its proofs

`TerminalBrokerProofs` proves `TypeOK`, `NoOrphanAttachment`, `EntryHasOwner` and
`AttachedIsShown` for any sockets and any number of connections, with no assumption. `attach` records an attachment
after an await without looking who is still subscribed; what saves it is that the recording
socket is itself still to unsubscribe. The induction needs `SubscribersPresent` (a writer
belongs to a socket that has not left) and `FreshActors` (an actor that may still take a
writer out has no task yet, so that it can own at most one).

`AttachedIsShown` speaks of a state in which nothing is in flight, so its invariant
(`ShownInv`) has to say what is in flight everywhere else. It need not follow every request
on the wire: the last one decides what the agent shows in the end (`Final`), and it is an
attach whenever somebody is attached over the connection in use or waits for the answer
(`LastShows`). What could break that is a detach sent later, and `DetachAlone` says why none
is: while a detach task runs the view is not attached, nobody else has a task, and whoever
subscribed since waits for this one. That is the promise of `_detaches` in the code, and it
holds only as long as no writer was dropped (`NoDrops`, which `AttachedIsShown` has as its
condition): dropping a writer does not stop the handler of its socket. `DetachRunsAlone`
states it as a theorem of its own.

## ClientSession

The handlers of a client's control websockets and the registry, under the same broker.

| Model | Code |
|---|---|
| `handler[c]` | where the handler of the `c`th connection is: replacing an older one, receiving, draining its queues, clearing |
| `closed`, `registry` | `ClientConnection._closed`, the entry in `_connections` |
| `register`, `Replaced` | `ClientConnectionRegistry.register`, which holds its lock while the old websocket is closed |
| `ReceiveEnds`, `SendAborts`, `unregister`, `ClearsView` | the receive loop, `send`, and the `finally` of `client_agent_websocket` |
| `BrokerStep` | the steps of `TerminalBroker` that leave the connections alone |

The connections are `1..MaxLinks` in the order in which they enter the registry, which the
registry's lock makes the order of `register`. The client's row (online, last seen) and the
offline monitor are left out. A request that is in flight when its connection aborts fails. In the
code one whose reply has come in succeeds, if only its coroutine is still to resume
(`client_connections.py:73-79`): the model takes reply and resumption as one step, so such
a request is either answered before the abort or fails with it.

### Its run

`session`: two sockets and three connections, up to the symmetry of the sockets: 436
thousand states. Three connections are an old one that is still cleaning up, one that is
replaced, and its successor; two sockets are one that leaves and one that comes back.
`ImplementsBroker` says that, with `link` as the registered connection that is not closed
and `cleanup` read off the handlers, every step is a step of `TerminalBroker` or changes
nothing there. Deadlock is not checked: when every bound is used up, nothing happens.

### Its proofs

`ClientSessionProofs` proves, from `SessionAssumption`, `LiveIsRegistered` and
`ImplementsBroker`, and carries the broker's three theorems that a run checks over by the
refinement (`NoOrphanAttachment`, `EntryHasOwner`, `AttachedIsShown`). The
invariant says that connections enter in order (`Numbered`), that a connection leaves the
registry only closed (`Ordered`), and that the registry holds a closed one while its
replacement waits (`Replacing`). The refinement has one step per action: connections open,
are lost, look for a successor, or do nothing to the broker.

## AgentEvents

The events one client sends for one window.

| Model | Code |
|---|---|
| `sent`, `srv`, `srvSaw`, `accepted` | the bulk websocket: the event it handles, its transaction, the acknowledgements |
| `stream`, `delivered`, `pending`, `idle`, `dead` | the Redis stream, the group's position and pending entries, the dead letters |
| `wk`, `recent`, `fresh`, `claimed`, `processed`, `cur` | one iteration of the worker: the tail, the new and the claimed entries, `processed_ids` |
| `seen` | `_recent_tail_seen_ids`, which dies with the process |
| `window`, `rows`, `synced` | activity columns, event rows, completions handed to `sync_project_todos_for_completed_window` |
| `enqueue_managed_agent_event`, `Inline*`, `AgentEventQueueUnavailable` | `_handle_ai_event_message_with_ack_sender` |
| `claim_stale_agent_events`, `read_*`, `Begin`, `Commit`, `ProcessFails` ... `DeleteAcked` | `process_agent_event_queue_once` and `_process_one` |
| `IterationFails`, `Crash`, `Age` | an exception in the iteration (what Redis did stands), a restart, time |

Every event of the agent's own session is persisted twice, by the server and by the worker,
in two processes. A transaction reads the window when it starts; the columns it changed
overwrite the row when it commits, without a lock (`PersistEvent`). An event stands for its
time: they are sent in the order they happened. `Oldest` and `Newest` bound a read by the
batch size. Left out: the burst, generation and user-input columns, summary jobs, indexing,
git tracking and the frontend's invalidation that follow the commit, the counts of
background agents and the launch and finish notices of asynchronous ones, and a client that
sends again (it does not). The worker's transaction for a completion is one step with the
hand-over to the cards, as in the code; what the cards do with it is
`CompletionVerification`'s.

### Its runs

- `events`: three completions, the third from a subagent's session (not persisted by the
  server), the second for a window that is gone; batches of one, two deliveries, two
  failures anywhere; under fairness. 247 thousand states. A batch of one makes the tail
  overtake the backlog with two entries; two failures are what it takes to lose a reply and
  then the worker. `LatestCompletionWins` is stated for events that all reached the stream
  and none of which was both persisted and dead-lettered: only then does a second
  processing repair what two transactions took from each other.
- `events_subagents`: a call and its result, no failure. It ends in a violation, see
  *Findings*.

Deadlock is not checked: at rest, with every event sent, nothing happens.

Fairness: the worker is restarted (`restart: unless-stopped`) and gets on (WF), time passes
(WF of `Age`). Failures and the client owe nothing, and their number is bounded.

### Its proofs

`AgentEventsProofs` proves `TypeOK` and `NoEventLost` from `N \in Nat` alone: for any kinds
of events, batch sizes and numbers of failures. The invariant says of every event, accepted
or not, that it is settled, still deliverable, or neither in the stream nor accepted
(`Accounted`); that nothing is in the stream or delivered that was not sent (`OnlySent`),
so that a new entry is not already behind the group's position; and that what the worker is
about to acknowledge is settled (`AckedSettled`).

`CompletionSynced` and `LatestCompletionWins` are proved for an agent without subagents
(`Calls = {}`), again for any number of events, batches and failures. The hypothesis is
needed: with a call, a completion is deferred while a subagent is pending and becomes the
window's latest one later, without the hand-over. TLC finds both properties violated with
`N = 3`, `Calls = {1}`, `Completions = {2}`, `Results = {3}`, `Sidechain = Bad = {}`; the
last section of *Findings* has the behaviour.

Both processes write columns they read a while ago, so that `window.completed` may go back;
what `CompletionInv` says instead is which completions can no longer be taken away. A
completion that the worker has persisted and will not process again (`Handed`) is in the
window for good, and the transaction the worker is in, if any, has seen it (`Counted`); a
transaction that leaves the column as it read it, because it read a later completion,
leaves a late enough one (`SeenLate`). While the worker has not handed it over the entry is
still in the stream, so that its own transaction comes, which repairs what the server took.

## Findings

- `dispatch_cancelled`: a queued dispatch that a patch cancels is started by the request of
  another patch, which had read the list of the cards it frees before.
- `dispatch_reschedule`: a dispatched cron card that is moved back to TODO by hand keeps
  no next trigger time and is never triggered again.
- `verification_retry`: the retry of an inconclusive verification is turned away by the
  reservation of the task that created it; the next sync starts again at attempt 1, so
  the loop does not end at `max_attempts`.
- `broker_reconnect`: a socket that attaches when the pending detach task is done, but its
  creator has not popped it yet, loops without suspending; the server's event loop stops.
- `events_subagents`: a subagent call and its result are applied twice, by the server and
  by the worker, and may leave the counter of pending subagents at 1; completions of the
  window then wait for the stale-subagent timeout.

### Behaviour the models have and no property forbids

No text of the repository speaks against these, so they are not findings, but for the first.

- The server and the event worker both get past their reservations and ask an auxiliary
  agent for a verdict on the same card; and a task of one process completes, without a
  verdict, a card that a task of the other one made wait. *Two processes* in the section on
  `CompletionVerification` has both. `_verifications_in_progress` is documented as a set of
  the process; a test says more (`src/backend/tests/unit/test_project_todo_completion_verification.py:662`:
  "Concurrent completion events for the same window must not spawn multiple aux-agent
  ephemeral windows for the same todo"), but runs in one process, where that holds.
- A sync commits the stage `verifying` on a card that its own verification task has
  completed already.
- A websocket handler that finds a successor does not clear the view: what was attached
  over a half-open connection stays recorded, later sockets are told they are connected,
  and the agent shows nothing until the last socket leaves.
- An attach that times out, or that is answered after the view was cleared, leaves the
  agent attached without a subscriber.
- Dropping a writer does not close its socket. With a dropped writer the detach may reach
  the agent after the attach of a socket that came back, hence the condition of
  `AttachedIsShown`.
- A failure between XACK and XDEL leaves a settled entry in the stream.
- With Redis unavailable for the newer of two completions, the worker's transaction for the
  older one may overwrite the later time for good.
- A completion deferred behind subagents becomes the window's latest one without being
  handed to the cards; the board's own sync picks it up. A completion of a subagent's
  session moves the latest completion when no subagent is pending.

## What is only model-checked, and what is not modelled

TLC only: liveness (`QueueDrains`, `VerificationEnds`, `OutputDrains`,
`EveryEventSettles`), which rests on fairness, and the five violations. Every safety
property of a passing run is a theorem: without a hypothesis beyond the named assumptions on
the constants, but for `CompletionSynced` and `LatestCompletionWins`, which are proved for
agents without subagents, the case the run checks. The refinements of `RunLedger`,
`OutputStream` and of the broker's abstract connection are theorems too.

Not modelled: the summary and folder split queues, the outbound queues of the client agent,
overlapping replacements of dependencies, reviews and artifacts (which reserve, run and
complete as a dispatch does), a crash of PostgreSQL itself (event transactions commit
without waiting for the disk). Terminal runtimes, windows, fleet, profiles, worktrees,
operations API, platform and frontend are I/O, parsing, single-row operations or
presentation, without a protocol that a model checker would add to.
