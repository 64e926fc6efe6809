# A TLA+ model of the ESP32-S3 web simulator

The simulator lets a browser upload an ESP32-S3 firmware image, runs it in a
private QEMU worker, and relays the worker's display, serial port, board inputs
and debugger.  This directory holds TLA+ specifications of its session service,
TLC configurations that check them on small instances, and TLAPS proofs.

Source paths below are relative to the repository.

## 1. Inventory

| part | source | state it keeps | operations | how it interacts |
|---|---|---|---|---|
| session lifecycle | `src/esp32_s3_simulator/sessions.py` (`SessionManager`, `SessionRecord`) | `state`, `process`, reader tasks, `lifecycle_lock`, `qmp_lock`, private flash file, uploaded image in memory | create, stop, expiry, power off/on, pause, resume, reset, refresh | coroutines of one event loop; awaits the worker, its reader, the locks, QMP |
| replay | `sessions.py` (`start_replay`, `_run_replay`) | `replay_task`, `replay_actions`, `accept_live_input` | start, cancel, apply recorded actions | a background task that launches and terminates workers |
| worker supervision | `sessions.py` (`_launch`, `_terminate_worker`, `_read_serial`, `_read_worker_trace`) | one task per pipe | attach, readiness poll, SIGTERM then SIGKILL, crash handling | its end changes the session |
| serial stream | `sessions.py` (`_publish`, `subscribe_serial`) | `serial_buffer`, bounded subscriber queues | publish, subscribe, unsubscribe | producer: the serial reader; consumers: WebSockets |
| event recording | `sessions.py` (`_record_event`, `list_events`, `diagnostics`), `recording.py` | bounded ring, sequence numbers, drop counts | record, page with a cursor | written by every operation, polled by clients |
| trace sampling | `sessions.py` (`_read_worker_trace`), `tracing.py` | per-source and per-generation counters | parse, count, mark, drop | fed by the worker's stderr |
| session pool | `sessions.py` (`create`, `close`, `_cleanup_loop`) | all sessions | capacity check, expiry, shutdown | `_lock` around the check and the insertion |
| worker broker | `worker_broker.py`, `oci.py` | active workers, output budgets, containers | claim, run, relay, release, reconcile | framed Unix socket with the service; `docker` commands |
| broker client | `broker_protocol.py` | a proxy of the worker's pipes | start, write, terminate, kill, wait | stands in for a local process |
| QMP client | `qmp.py` | none | one command per connection, with a deadline | worker's QMP socket |
| debugger | `gdb.py`, `sessions.py` (`debug_*`) | GDB connection, breakpoints, run task | registers, memory, breakpoint, step, continue | worker's GDB socket; pauses the session |
| framebuffer | `framebuffer.py`, `sessions.py` (`capture_framebuffer`) | previous frame, sequence number | capture, encode | QMP `screendump` |
| firmware, inputs, boards | `firmware.py`, `inputs.py`, `boards.py` | none | validate, pad, translate | pure functions |
| HTTP/WebSocket API | `api.py` | none of its own | routes | calls the session manager |
| launch policy, settings | `qemu.py`, `settings.py`, `worker_process.py`, `cli.py` | configuration | build the command line | read at start |
| browser timeline | `web/src/components/inspector/TimelineInspector.tsx` | cursor, the last events | refresh page by page | polls `list_events` |
| browser client | `web/src` | the session it shows, sockets, polls | start, poll, control, stop | HTTP and WebSockets |
| device models | `emulator/qemu/patches` | QEMU devices | - | inside the worker |

What is hard here is not parallelism but suspension.  All of the service runs on
one event loop, so code between two `await`s is atomic; but almost every
operation checks the session, awaits the worker for up to seconds, and then
assigns.  Meanwhile other requests, the cleanup loop, a replay task and the
worker's own reader change the same record.  Only some of them take
`lifecycle_lock`; QMP requests take `qmp_lock`; a replay takes neither.

What makes each part correct:

* *lifecycle*: at most one worker; every worker can be reached by a later stop;
  a session that ended stays ended and keeps no private data; stop returns and
  the worker is gone; a powered-off session keeps its flash.
* *replay*: starts from the uploaded image, with the complete recording, alone;
  ends; gives live input back.
* *serial stream*: the replayed buffer followed by the live chunks has no gap and
  no duplicate; a stream ends when its worker does; a slow consumer costs a
  bounded queue.
* *recording*: sequence numbers have no gaps; a client that pages with the cursor
  sees every retained event once and learns when it missed some.
* *broker*: one container per session, within capacity; a container outlives
  neither its connection nor the broker; output is bounded.
* *pool*: active sessions never exceed `max_concurrent_sessions`.

## 2. Modules and plan

| module | what | checked by | proved in |
|---|---|---|---|
| `SessionLifecycle`, `MCSessionLifecycle` | one session, its coroutines, replays and workers | `lifecycle`, `replay`, `replay_live`, `replay_two_workers` | `SessionLifecycleProofs` |
| `SessionContract` | what a session promises; `SessionLifecycle` implements it without replays | `lifecycle` | `SessionLifecycleProofs` |
| `SessionPool` | all sessions: capacity, expiry, shutdown | `pool` | `SessionPoolProofs` |
| `SessionDebug`, `MCSessionDebug` | the debugger of one session | `debug` | `SessionDebugProofs` |
| `Recording`, `Timeline` | the event ring, its pages, and the browser that follows them | `timeline` | `TimelineProofs` |
| `TraceSampling`, `MCTraceSampling` | trace limits, as a writer of `Recording` | `trace` | `TraceSamplingProofs` |
| `SerialStream` | buffer, subscriber queues, end of stream | `serial` | `SerialStreamProofs` |
| `WorkerBroker`, `MCWorkerBroker` | claims, containers, reconciliation, close, crash | `broker`, `broker_live` | `WorkerBrokerProofs` |
| `BrokerLink` | one broker connection: input, output, budget, termination | `link` | `BrokerLinkProofs` |

TLC shows each property on a small instance; the proofs hold for every value of the
constants that satisfies the module's `ASSUME`s.  Every invariant that a run checks,
the action property `OnlyPowerOffRevives` and the refinement `ImplementsContract`
are stated by a theorem.  The session's `TypeCorrect`, `ReplaysAreReachable` and
`NeverStuckStarting` include replays; its other theorems assume that no replay is
issued, because with replays what they say is false (section 3).

Each proof has the same shape.  A property is seldom inductive, so a stronger
invariant is stated as a conjunction of named parts; a lemma per group of actions
shows that each part survives each action; and the theorem combines them.  None
uses induction over data: sums are expressed as cardinalities (section 5) or by
witness functions (section 10), and the modules have no recursion.

Only model-checked, because the prover cannot treat fairness: `StopReturns`,
`SignalledWorkersEnd`, `ReplaysEnd`, `LiveInputReturns`, `TimelineCatchesUp`,
`PowerOffEndsStreams`, `ClaimsAreReleased`, `LeftoversAreRemoved`, `ExpiredSessionsEnd`
and `TerminateEnds`.

## 3. `SessionLifecycle`

One session and everything that acts on it.  `Creator` is the request that runs
`create`; `Requests` are slots for later API calls and for the cleanup loop;
`Replays` are slots for `_run_replay` tasks; `Procs` are worker processes.

| model | code |
|---|---|
| `state`, `process`, `lifecycle_lock`, `qmp_lock`, `replay_task`, `accept_live_input`, `replay_actions`, `replay_actions_dropped` | the fields of `SessionRecord` of that name |
| `worker[p]` | the operating system's view: running, sent SIGTERM, sent SIGKILL, gone |
| `reader[p]` | the `_read_serial` task: reading, in the awaits after the end of its pipe, done |
| `pc[t]` | the `await` at which coroutine `t` is suspended |
| `op[t]`, `after[t]`, `cap[t]` | its locals: the operation, what follows `_terminate_worker`, the process (or the replay to join) |
| `flash` | the private flash file: the image, empty (written from a cleared image), or removed with its directory |
| `initial_flash_image` | whether the upload is still in memory |
| `program[r]`, `cancelled` | the tuple a replay was started with, and `Task.cancel` |

A step is the code between two suspensions.  `_terminate_worker` is `Capture`
(release the session's references, SIGTERM), `KillTimeout`, and whichever
`Finish...` continues the caller; with no process to wait for it does not
suspend, and neither does the model.  `_launch` is `Spawn`, `Attach`, `Ready` or
`NotReady`.  `pc = "close"` stands for the `await` in `_close_debugger`, which
suspends only when a debugger is attached; the model always allows it to, which
adds interleavings and removes none.  `QmpAnswer` needs a worker that still runs:
the reply of a QMP command resumes its request before the loop can observe that
the same worker has exited.  It may be a later worker than the one the request
was meant for, since `_open_qmp` retries the session's one socket path.  The four
inputs by QMP are one operation, `"input"`; `reset` is recorded like an input.

Two operations ask nothing of the worker when they end.  Serial input
(`WriteSerial`, and `ReplaySerial` of a replay) takes no lock and waits only for
`stdin.drain()`; the drain may return after the worker is gone, when another
writer's drain took the bytes along (`broker_protocol.py:213-219`), so `Drained` has
no condition.  `Restore` is the end of `power_on`: `_restore_virtual_environment`
makes no QMP call when no device state was set, or when the reader that ended the
session cleared it while `power_on` waited for `qmp_lock`.  Both then record
themselves in whatever session they find.

Left out of this module: the debugger branch of `resume` and `pause` (section 8),
event recording and serial output (sections 4 and 6), the virtual device values that `power_on` restores
(`Restore` and `RestoreFails` are both possible), time (a replay's delays and limits,
the TTL: expiry may come at any moment), `SessionManager.close` (section 9), and the
configuration without QMP.

### Runs

| run | instance | what it checks |
|---|---|---|
| `lifecycle` | 2 requests, 2 worker slots, every operation but replay, fair | `TypeOK`, `AtMostOneWorker`, `TerminalKeepsOnlyStragglers`, `PoweredHasProcess`, `ImplementsContract`, `OnlyPowerOffRevives`, `StopReturns`, `SignalledWorkersEnd` |
| `replay` | 1 request, 2 replay slots | `ReplayReachable`, `StartingIsTransient` |
| `replay_live` | 1 request, 1 replay, fair | `ReplaysEnd`, `LiveInputReturns` |

Two requests and the creator are enough for a lock holder with a waiter, or for a
lock holder and a QMP request whose answer comes late (the invariants also hold
with three requests; `Requests = {q1, q2, q3}` with `SYMMETRY Symmetry` and
`Spec` is within TLC's reach); two worker slots are enough for two workers at once, and a
slot is used again, so the number of power cycles is not bounded.  Two replay slots are needed for a replay that starts while `stop`
still waits for the one it cancelled; `MaxActions = 2` lets a replay hold a power
off followed by a power on.  In every run the recording overflows its bound.

Fairness: the event loop resumes a coroutine whose await is over (weak fairness
of each coroutine's steps); awaits on a worker carry timeouts, so a failing
alternative is always enabled; `asyncio.Lock` is first come, first served
(strong fairness of lock steps); the kernel reaps a killed process.  No fairness
is assumed of clients, of crashes, of a worker's answer to SIGTERM, or of a worker
that should read its serial input: a drain has no timeout, and is sure to end only
when the worker is gone.  Hence the exception `Undrained` in `ReplaysEnd` and
`LiveInputReturns`: a replay that hands serial input to a worker that does not read
waits, with live input shut out, until a stop, an expiry or the worker's end.

### Deviations from the documents

Run `replay_two_workers` ends in a counterexample: it checks what a document of the
repository says (`docs/architecture.md:36`), and the code does otherwise.
`start_replay` checks `state` but takes no lock.  While `power_off` waits for the
worker it signalled, the session is still `running` and its `process` is already
`None`; the replay has nothing to terminate and starts a second worker on the same
flash file.

More of the same kind have no configuration of their own; TLC finds them when the
property is added to a configuration.  None is reachable without two operations
that overlap.  Added to `lifecycle.cfg`:

* `PoweredOffRetainsFlash`: the worker exits by itself as `power_off` begins.  Its
  reader, which checked `session.process` before its own awaits, ends the session
  and removes the directory; `power_off` then reports `powered_off`, with no flash
  left to boot (`docs/protocol.md:84-85`: "while retaining private flash/NVS").
* `state \in Terminal => replay_actions = <<>>` (`docs/security.md:134-136`):
  `TerminalKeepsOnlyStragglers` is what remains of it.  A serial write whose drain
  returns after the session ended, and a `power_on` that waits for `qmp_lock` while
  the reader of its worker ends the session and then finds nothing to restore
  (`sessions.py:877-891`, `597`), append to the recording that was just cleared.

Added to `replay.cfg` (the second to `replay_live.cfg`):

* `TerminalKeepsOnlyStragglers`: the same window in `stop`; the replay outlives it,
  runs in a session shown as stopped, and writes and records there
  (`docs/security.md` says that all of this is destroyed with the session).
* `SignalledWorkersEnd`: `stop` cancels a replay inside the wait of
  `_terminate_worker`.  The session no longer refers to the process, so nobody
  sends SIGKILL to a worker that ignores SIGTERM.
* `ReplayAlone`: an input that was accepted just before the replay began is
  delivered by the retrying QMP client to the replay's worker and recorded among
  the replayed actions (`docs/protocol.md`: "Live input is rejected while replay
  runs").

### Proofs

`SessionLifecycleProofs` proves, for any sets of requests, replays and workers
and any `MaxActions > 0`:

* `TypeCorrect`: `Spec => []TypeOK`, replays included.  `TypeOK` alone is not
  inductive: `Attach` assigns `cap[t]` to `process`, and a replay's power step
  takes the tail of its program.  `ControlOK` adds what the suspended locals look
  like at each await.
* `OneWorkerPerSession`: if no replay is issued,
  `Spec => [](AtMostOneWorker /\ NoOrphanWorker)`.  The invariant, `OneWorkerInv`,
  says who may launch (`LockDiscipline`: a request terminates or launches only
  under the lock and launches only for `power_on`; `CreateDiscipline`: while
  `create` runs, the session has never been running, so only a stop or an expiry
  can hold the lock), that a live worker is the session's or is awaited by
  someone (`LiveIsOwned`), that a launch finds none (`LaunchAlone`), and that
  `powered_off` means no worker and no launch (`OffMeansOff`).  A power off
  may claim the latter because it waited for its own worker, and because nobody
  but the lock holder could have attached another.  Steps that touch no worker
  are covered by one lemma, `QuietStep`.

* `EndedSessionIsClean`, `RunningSessionHasWorker`, `OnlyAPowerOffRevives` and
  `SessionKeepsContract`, if no replay is issued: `TerminalKeepsOnlyStragglers`,
  `PoweredHasProcess`, `OnlyPowerOffRevives` and the refinement of section 9.  They
  share `EndInv`, which adds to `OneWorkerInv` what the end of a session leaves to
  whom.  `Released`: whoever launches a worker, or awaits the end of one, finds
  `session.process` empty, and there is one such waiter at most.  `ReaderOwned`: a serial
  reader that has not ended reads the session's worker or the awaited one.
  `EndedWithWorker` is the part that makes the rest inductive: a worker may outlive
  its session, but then a lock holder or `create` is ending it, and no QMP request is
  pending that could assign `running` or record an input behind the cleared record;
  a pause or reset that still queues for `qmp_lock` finds the ended state and gives up.
  A drain and a restore are not excluded: what they add to an ended session is the
  exception in the property (`StragglerKeeps`).  For the
  refinement every step is put in one of a few classes (`Unseen`, `SeenEnding`,
  `SeenShowing`, `SeenPoweringOff`), each of which is a step of the contract.
* `ReplaysAreReachable` and `NeverStuckStarting`, replays included.  `ReplayInv` adds
  `CancelledAwaited` (a cancelled replay is awaited by the stop that cancelled it)
  to `StartingIsTransient` (a starting session is being launched or terminated, or a
  stop waits for its turn): a replay that is cancelled inside its launch leaves the
  session `starting`, and it is the stop that takes it further.

The only assumptions are on the constants: the sets are disjoint, `None` is in none
of them, the bound is positive.

## 4. `Recording` and `Timeline`

`Recording` has no behaviour of its own: it declares the ring (`events`,
`next_event_sequence`, `events_dropped`, `generation`) and translates
`_record_event` and `list_events`, neither of which suspends, into operators.
`TraceSampling` extends it with a writer and `Timeline` with a reader.

In `Timeline` any operation of the session records events (`Record`), while the
browser's refresh goes through `Refresh` (the timer; a refresh under way is left
alone), `Serve` (the service answers with `ListEvents` at that moment),
`Receive` (the body of the loop in `TimelineInspector.tsx`: drop the list if the
page is truncated, move the cursor, append, keep the last `MaxShown`, and ask
again after a full page) and `RequestFails`, which ends the refresh before or
after the service has answered.  The page is a variable, so that the ring can
overflow between an answer and its arrival.

Run `timeline` (ring of 3, pages of 2, 2 pages per refresh, 4 events shown,
8 events recorded) lets the ring lap the reader in every phase of a refresh, and
fills pages, refreshes and the list to their limits.  `TimelineCatchesUp` assumes
that the timer keeps firing, and that a request which is repeated for ever is
answered and received some day.

`TimelineProofs` proves `RingCorrect`, `TimelineTypes`, `TimelineFaithful` and
`TruncationIsHonest` for all bounds: the ring has no hole, the list on screen is a
run of consecutive events that ends at the cursor, and `cursor_truncated` is said
exactly when an event after the cursor is lost.
The invariant adds `AnswerFollowsCursor`: a page under way is itself a
run of consecutive events, starts after the cursor, ends at `next_after`, and if
it is not truncated it starts right after the cursor, so that appending it keeps
the list a run.  What a page contains is proved from `Nth`, the n-th newer
position, without induction: in a contiguous ring the positions newer than the
cursor are an interval.  That the limit of the browser (500) and of the service
(`max_event_page_size`) may differ does not matter to these theorems; a service
limit below 500 only ends each refresh after its first page.

## 5. `TraceSampling`

`ReadTraceLine(s)` is one turn of `_read_worker_trace` with a line that
`parse_worker_trace_line` recognizes as coming from source `s`; the three cases of
its body are `OverLimit`, `OverGlobalLimit` and `WithinLimits`.  `PowerOn` and
`Replay` reset the counters; by then `_terminate_worker` has awaited the old
worker's trace reader.  `marks` is a history variable.

Run `trace` has three sources, with limits 1, 2 and 0, and a global limit of 2:
the limits of the sources add up to more than the global one, so both limits are
reached in either order, also by the same source; the ring of 2 events overflows.
`SamplingIsDeterministic` is the point of the two-level scheme: how many lines
are recorded is a function of how many came from each source, not of their order.

`TraceSamplingProofs` proves all three invariants for any set of sources and all
limits.  `Lines` has one element per line read in this boot (its source and its
number there) and `Admitted` those within their source's limit, so that "how many in
all" is a cardinality and not a sum over the sources: a line adds one element to the
one set and one or none to the other.  The invariant adds `FlagIsTruncation`, that
`trace_truncation_reported` is set exactly when more were admitted than the global
limit, which is what keeps the second marker from being repeated, and that `Lines`
is finite although `Sources` need not be.

## 6. `SerialStream`

The reader appends chunks to `serial_buffer` and to the queues of `subscribers`
(`Output`, `Publish`); `subscribe_serial` yields the buffer, checks the state,
registers a queue and follows it until `None` (`Subscribe`, `NextBuffered`,
`NextQueued`).  Between two yields the WebSocket sends, which suspends.  `mutated`
is the modification check of Python's deque iterator.  A chunk is the worker that
printed it and its number; `received` is what the client was sent.  The session's
own operations are reduced to their effect on the stream, in the code's order:
`Release` (`_terminate_worker`), `FinishPowerOff`, `FinishStop`, `Boot`,
`LaunchFails`, `WorkerExits`.  They are taken one at a time: what happens when
replays overlap other operations is section 3's subject.

Run `serial` (buffer and queue of 2, 3 chunks per worker, 2 workers, one client)
overflows the buffer and the queue and attaches the client at every point of the
session.  One client is enough: clients share only what the session writes.
`PowerOffEndsStreams` assumes that a send gets over and that power off goes on.

Two properties fail when they are added to `serial.cfg`.  `BufferIsReplayed`
(`docs/protocol.md:97`): the worker prints while the buffer is being sent to a
client that just connected; the iteration over the deque raises, and the stream
ends.  `PowerOffClosesUart`: if the queue of a slow client is full when `None` is published, the
subscriber is discarded, drains its queue, and waits for ever on an open stream.

`SerialStreamProofs` proves `StreamTypes` and `SerialIsContiguous` for any number of
clients and chunks and all sizes.  A chunk reaches a client through the buffer or
through its queue, so `StreamInv` follows both: the buffer is the tail of what the
worker printed (`BufferIsTail`), a client in the middle of an unchanged buffer was
last sent the chunk at its position (`ReplayingIsAt`), and a queue has no hole,
continues what its client was sent and, while it is registered, ends with the last
chunk printed (`QueuesFollow`).  A discarded subscriber keeps the first two of these:
it misses the end, nothing in between.

## 7. `WorkerBroker`

`Connections` are slots for connections of the service.  `pc[k]` is where the
handler (`_handle_connection`, `_run_worker`) is: claiming, about to spawn,
about to send STARTED, running, killing, about to send EXIT, removing, releasing, or
in the part of the `finally` clause that ends a `docker run` still running
(`AbortKill`, `Abandon`), where only a STARTED that could not be sent leads.  `client[k]` is the
service's end (`connect_broker_worker`, `BrokerWorkerProcess`), `cli[k]` the
`docker run` process, `container[s]` the container that has the name of session
`s`.  The daemon is external: a container starts unless its name is taken, ends
by itself, or is removed; every `docker` command may fail or time out
(`DockerFails`), and `docker run` may lose the daemon and leave its container
(`CliDies`).  `leaked` remembers containers that a failed command left behind, and
`stranded` the claims whose handler is gone (`AbandonRaises`).
It is assumed that a `docker run` that was killed, or whose broker died, creates no
container afterwards.

Reconciliation lists, copies the active set, and removes one container after the
other (`SweepList`, `SweepSnapshot`, `SweepRemove`), with handlers in between; a
command that fails ends the round (`SweepFails`), one that cannot be started at all
ends the loop (`SweepDies`);
`close` copies the active sessions and their processes and cleans them up while
their handlers go on; `Crash` loses everything but the containers.

Run `broker` (2 sessions, 2 connections, 1 worker slot, up to 2 control frames
under way, every kind of failure) checks the claims and the containers: two
connections are enough for a competition for the slot and for a session that is
asked for again while its first handler cleans up.  `broker_live` (1 session)
checks that claims are released, also while the broker closes, and leftovers
removed.  It
assumes that the loop resumes handlers, that wall time ends a worker, that the
broker is started again, and that a removal which is repeated for ever succeeds
some day; not that clients behave or that any one `docker` command succeeds.

Both liveness properties, and the two invariants on claims and containers, have an
exception that the code makes necessary:

* a claim can be stranded (`worker_broker.py:348-353`).  The client is gone before
  STARTED is sent; the `finally` clause finds `docker run` still running and awaits
  `docker kill`; `docker run` exits meanwhile and asyncio reaps it; the unguarded
  `process.kill()` raises `ProcessLookupError`, and neither `rm` nor `_release`
  follows.  The session stays active, without a handler, and its capacity slot is
  lost until the broker is started again; if its container outlived the failed kill,
  reconciliation spares it as active.
* the reconcile loop can die (`worker_broker.py:190`, `195-202`).  An `OSError` of
  `create_subprocess_exec` in `_docker_output` is no `OciPolicyError`; it ends the
  task, `_runtime_healthy` keeps its value, and leftovers stay until the next start.

`RestartIsAccepted`, added to `broker.cfg`, fails (`docs/architecture.md:136-137`):
the handler sends EXIT before it removes the container and releases the claim.  To the service EXIT
is the end of the worker, so a replay, which starts the next worker at once, is
refused as if the broker were full, and the session fails.

`WorkerBrokerProofs` proves `BrokerTypes`, `ClaimsAreExclusive` and
`NoContainerIsForgotten` for any number of sessions, connections and workers and any
combination of failures.  `ClaimInv` says that claims that are not stranded and
handlers correspond (`Exclusive`, `HandlersClaim`, `ClaimsHaveHandlers`), that a broker that does not serve
has no handlers, and how a container goes: once a handler is past its worker its
`docker run` is over (`RunIsOver`), so that when it comes to the release the container
is gone or known to be left behind (`RemovedAtRelease`).  Without `RunIsOver` a container
could appear between its removal and the release of the claim.  `Sessions` and
`Connections` may be infinite; that `active` is finite is part of the invariant.

Left out: the content of the launch policy in `oci.py` (a violation is one of the
ways in which `SpawnFails`), the encoding of frames, and ping.  Stdin and the output
relay are section 10's; here exceeding the budget is one of the reasons of
`Supervise`.

## 8. `SessionDebug`

API requests and at most one GDB connection share the debugger of a session.
`Requests` are slots for API calls, `RunTasks` for `_continue_under_debugger` tasks,
`Clients` for `GdbRemoteClient` objects.  `pc[t]` is the await of a coroutine: for
`qmp_lock` or its answer, for the connection and its negotiation, for the client's
lock, for a reply, for a run task.  `held[t]` is its local variable: the client it
got from `_debug_client`, which need not be the session's any more.  Every debug
operation begins with `refresh_state` (`Begin`, `QmpExecute`, `Learn`), goes on with
`_debug_client` (`DebugChecked`, `Attach`, `Negotiated`) and sends its commands
(`Send`, `Reply`, `CommandFails`).  `Resume` starts a run task; `ControlDone`,
`RunAwaited` and `PauseTimesOut` are the end of `pause`; `Abandon` is
`_close_debugger` with the cancelled task's `finally` clause.

The stub in QEMU is external: it serves one connection, stops the machine when a
client connects or when a request finds it running, answers in order, and may refuse
a breakpoint.  `replies` carry the request they answer, so that a reply in the wrong
hands can be seen.  Two history variables: `doubt` holds the addresses whose last
request ended without an answer, and `late` says that a command on this connection
was given up while its reply was still to come.

Run `debug` (2 requests, 1 run task, 2 clients, 1 address) has two requests that
connect at once, requests that hold the client of a connection that is gone, and
operations of one and of several commands.  Its properties also hold with two
addresses and a quota of 1, without reads, which takes TLC longer (7 million states)
and adds requests that the quota refuses.  A command may time out with one request or
reply under way (`MaxLate = 1`, a bound on how many late replies pile up).  After that
the client stays in use (`gdb.py:132-135`) and the next command takes the late reply
for its own: nothing is claimed of the answers on that connection any more
(`AnswersMatch` is conditional on `late`), and all addresses are in doubt.  A new
connection ends the former, a power cycle the latter.

What the code does not keep, each refuted when it is added to `debug.cfg`
(`BreakpointQuota` with `Addresses = {a1, a2}`):

* `BreakpointQuota`: requests that overlap pass the check together
  (`docs/protocol.md:179-180`: at most 32).  `QuotaExcessIsBounded`, which is what
  remains, is proved and not part of the run.
* `AnswersMatch` without its condition on `late`: a command that follows a timed-out
  one on the same client is given the other's answer.
* `PowerOffClosesDebugger`: a request inside `connect` assigns its client after
  `_close_debugger` (`docs/architecture.md:134-136`).  The client fails at its first
  use and stays until the next power off.
* `RunTaskReachable` (with two run tasks): the `finally` clause of
  `_continue_under_debugger` clears `debug_run_task` whosever it is, so `pause` does
  not await, and `power_off` does not cancel, the successor.

`SessionDebugProofs` proves `DebuggerTypes`, `AnswersAreMatched`, `BreakpointsAreKnown`
and `QuotaExcess` for any number of run tasks, clients, addresses and late replies,
every quota, and any finite set of requests (the bound on the excess is their
number).  In `DebugInv` one coroutine at most awaits a reply on a connection
(`OneReader`), it uses the session's client (`ClientIsCurrent`: whoever cancels it
also closes its connection), and `Matched` lists what may then be under way: the
request, its answer, a stop that a continue is still owed, or nothing.  A timeout
with something under way breaks `Matched`, and nothing else does (`Synced`: `Matched`
holds unless `late`, and then every address is in doubt); the next connection starts
with nothing under way and restores it.  `AnswersTell` says what an answer
that has not been read means for the worker's breakpoints.  The quota counts what is
set and what is being set (`Reserved`): the check passes only below the quota, and
each request reserves one.

A resume by QMP may also overlap the attach of a debugger: the `cont` is then
followed by a continue command that the stub, finding the machine running, takes as
a request to stop.  The session shows `running` until the next poll.

## 9. `SessionContract` and `SessionPool`

`SessionContract` is the abstract session: `shown`, whether a worker runs, whether
the flash image exists, and whether an operation is at work.  Its actions say how
these go together: a worker starts only in a starting session with its image and
beside no other; `running` and `paused` are assigned only while a worker runs;
`powered_off` only when none does; an ended session has no image, and no worker
unless somebody is still ending it.  `SessionLifecycle!ImplementsContract` is the
refinement, with `alive` mapped to the existence of a live worker process and `busy`
to `create` under way or a held `lifecycle_lock`.  Run `lifecycle` checks it and
`SessionKeepsContract` proves it; with replays it does not hold, for the reasons in
section 3.

`SessionPool` has several sessions at that level of detail, with the requests that
create, stop and power cycle them, the worker's exit with its reader (which ends the
session after its awaits), the cleanup loop and `close`.  Run `pool` (2 sessions,
1 slot, 2 requests, fair) lets a session take the slot of another in every phase of
the latter's end, expires sessions in every state, and closes the service at any time
when no request is under way, as uvicorn does.  The service may stop there, so
deadlock is not checked.  Fairness is that of section 3, and the cleanup loop wakes
again after its five seconds.  `CloseEndsSessions` is stated for workers that were
told to end: a `close` that cancels the cleanup loop inside `_terminate_worker` loses
the SIGKILL with it.

`ActiveWithinCapacity` (`docs/architecture.md:35`: "One reserved capacity slot per
active session") is refuted when it is added to `pool.cfg`: a `power_off` that passed
its check before its worker crashed makes the ended session `powered_off`, hence
active, after the slot went to another session.  No second worker can come of it:
its image is gone, so `power_on` fails (`WorkersWithinCapacity`).

`SessionPoolProofs` proves `PoolTypes`, `CapacityIsKept` and `NothingSurvivesClose` for
every capacity and any number of sessions and requests.  Because active sessions may
exceed the capacity, the invariant counts something else: a session holds one of
`Slots` while a worker runs for it, or while it is active and its image exists.
Only `create` takes a slot, after it has counted the active sessions, which include
every slot; a launch needs the image, a session that ended has none
(`EndedIsPrivate`) and never gets it back.  `Owned` says that a session is worked on by its
creator, before anybody else knows it, or by the holder of its lock; `ClosingEnds`
that `close` still has a session on its list, is stopping it, or has ended it.

## 10. `BrokerLink`

One connection between the service and the broker after STARTED.  On the service's
side: the writers of serial input (`Write`, `Drain`, `SendChunk`, `Drained`,
`Cancel`), `terminate` and `kill` with their tasks (`Ask`, `SendControl`), and
`_receive`.  They share a `FrameWriter`: `Send` takes its lock and writes, `Flushed` is
the return of its drain.  On the broker's: `_relay_control` (`relay` is the frame it is working
on), the two `_pump_output` tasks with their common budget, the supervision that
waits for the first reason to end the worker, and EXIT.  `up` and `down` are the
frames under way.  A drain waits while the transport holds more than `Room` frames,
and the relay while the worker's stdin holds more than `Room` chunks; nothing obliges
the worker to read.  `Crash` is the death of the broker's process.

Run `link` (2 writers, 2 chunks, `Room = 0`, one byte per stream and a limit of 1)
has two writers in one drain, a drain that is cancelled between two chunks, an output
limit that either pump exceeds, and input before and behind TERMINATE.  The
connection ends, so deadlock is not checked.  `TerminateEnds` assumes that both event
loops resume their tasks, that the docker commands return (not that they succeed) and
that the wall time comes; nothing of the worker.  It is the wall time that it rests
on: TERMINATE and KILL queue behind the input on the same socket, the relay awaits
the worker's stdin before it reads the next frame, and neither `docker stop` nor
`docker kill` is tried until then.  `_terminate_worker` in `sessions.py` waits all
that time, holding `lifecycle_lock`.

A writer that is cancelled inside `FrameWriter.send` leaves its frame in the transport
and gives the lock up (`broker_protocol.py:184-187`), so the next sender writes behind
a transport that is still full: the frames under way to the broker have no bound but
the number of writes, and `TypeOK` states none.  The pumps are not cancelled, so
towards the service at most one frame lies behind a full transport.

Input can be lost without a sign: a drain takes the chunks of all writers, and if
its coroutine is cancelled (`api.py:355-360` cancels the receiving half of a serial
WebSocket when its other half ends) the rest of them is gone, while their own
writers' drains find nothing to send and return.

`BrokerLinkProofs` proves `LinkTypes`, `InputInOrder` and `OutputDelivered` for any
number of writers, chunks and bytes and every size.  `StdinInOrder` follows from
`Ordered`, which adds that no chunk is newer than the last one written; every step
moves chunks from one place of the path to the next, drops them, or writes a newer one.
`OutputIsDelivered` needs an account of bytes in frames under way.  `Feeds` gives it
without a recursive sum: a function on the positions of `down` whose differences are
the frames, and whose last value is what will have been received.  Then
`OutputIsAccounted` says that what was received, is under way or is not yet pumped is
what was printed, and that the budget covers the rest; `EndsInOrder`, `ExitIsLast`
and `ExitMeansDelivered` give the order worker, pumps, EXIT, exit code.

## 11. What is not modelled

Pixel conversion, firmware and input validation and board tables are pure data; the
API routes and the launch configuration keep no state; the device models are C code
inside QEMU; the release scripts are sequential clients of the service.  The browser
beyond its timeline keeps only what the last answer said.  Sessions and the broker
are not composed in one model: a session that restarts its worker through the broker
multiplies two state spaces that each fill a run.  Found by reading, outside the
models: a replay writes its flash image with mode `0o600` (`sessions.py:706`), which
the broker's policy refuses (`oci.py:259` wants `0o660`).
