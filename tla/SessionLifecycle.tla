-------------------------- MODULE SessionLifecycle --------------------------
(***************************************************************************)
(* One session of SessionManager (src/esp32_s3_simulator/sessions.py): its *)
(* state, its worker processes, and the coroutines that act on it.  Every  *)
(* coroutine runs on one event loop, so a step of this module is the code  *)
(* between two suspensions: `pc' names the await at which a coroutine is   *)
(* suspended, and whatever another coroutine does meanwhile interleaves.   *)
(*                                                                         *)
(*   Creator    the request that runs SessionManager.create                *)
(*   Requests   slots for later API requests and for the cleanup loop      *)
(*   Replays    slots for background _run_replay tasks                     *)
(*   Procs      worker processes (QEMU or a broker proxy); a slot is used  *)
(*              again once its process is gone and nothing refers to it    *)
(***************************************************************************)
EXTENDS Naturals, Sequences

CONSTANTS
    Procs, Requests, Replays, Creator,
    None,           \* Python's None
    Ops,            \* the operations that clients and the cleanup loop issue
    MaxActions      \* Settings.max_recording_events

AllOps == {"stop", "expire", "power_off", "power_on",
           "serial", "input", "pause", "resume", "refresh", "reset", "replay"}

Tasks == {Creator} \cup Requests \cup Replays

ASSUME OpsAssumption == Ops \subseteq AllOps
ASSUME MaxActionsAssumption == MaxActions \in Nat \ {0}
ASSUME DistinctAssumption ==
    /\ Creator \notin Requests \cup Replays
    /\ Requests \cap Replays = {}
    /\ Procs \cap Tasks = {}
    /\ None \notin Procs \cup Tasks

VARIABLES
    state,                  \* SessionRecord.state
    process,                \* SessionRecord.process
    worker,                 \* what the operating system says of each process
    reader,                 \* the _read_serial task of each process
    pc,                     \* the await at which each coroutine is suspended
    op,                     \* the operation each coroutine performs
    after,                  \* what follows the _terminate_worker it is in
    cap,                    \* the process (or replay) held in its local variable
    lifecycle_lock, qmp_lock,
    replay_task, cancelled, program, accept_live_input,
    flash,                  \* runtime_directory / "flash.bin"
    initial_flash_image,    \* is the uploaded image still in memory?
    replay_actions, replay_actions_dropped

taskVars   == <<pc, op, after, cap>>
lockVars   == <<lifecycle_lock, qmp_lock>>
workerVars == <<process, worker, reader>>
replayVars == <<replay_task, cancelled, program, accept_live_input>>
dataVars   == <<flash, initial_flash_image, replay_actions, replay_actions_dropped>>

vars == <<state, workerVars, taskVars, lockVars, replayVars, dataVars>>

States   == {"starting", "running", "paused", "powered_off",
             "stopped", "failed", "expired"}
Active   == {"starting", "running", "paused", "powered_off"}
Terminal == States \ Active
Powered  == {"running", "paused"}

Actions   == {"serial", "input", "power_off", "power_on"}
QmpOps    == {"input", "pause", "resume", "refresh", "reset"}
LockedPcs == {"close", "wait", "spawn", "attach", "ready", "restore"}
Pcs       == LockedPcs \cup {"idle", "scanned", "join", "lock", "qmp_lock", "qmp",
                             "drain", "queued", "replaying"}

WorkerType ==
    /\ process \in Procs \cup {None}
    /\ worker \in [Procs -> {"none", "alive", "termed", "killed", "exited"}]
    /\ reader \in [Procs -> {"none", "reading", "exiting", "done"}]

TaskType ==
    /\ pc \in [Tasks -> Pcs]
    /\ op \in [Tasks -> AllOps \cup {"create", "none"}]
    /\ after \in [Tasks -> {"none", "stop", "power_off", "abort", "discard", "restart"}]
    /\ cap \in [Tasks -> Procs \cup Replays \cup {None}]

LockType ==
    /\ lifecycle_lock \in Requests \cup {None}
    /\ qmp_lock \in Requests \cup {None}

ReplayType ==
    /\ replay_task \in Replays \cup {None}
    /\ cancelled \subseteq Replays
    /\ program \in [Replays -> Seq(Actions)]
    /\ accept_live_input \in BOOLEAN

DataType ==
    /\ flash \in {"image", "blank", "gone"}
    /\ initial_flash_image \in BOOLEAN
    /\ replay_actions \in Seq(Actions) /\ Len(replay_actions) <= MaxActions
    /\ replay_actions_dropped \in BOOLEAN

\* The type invariant: which values each variable may take, and that the replay
\* recording never exceeds max_recording_events (_append_replay_action).
TypeOK ==
    state \in States /\ WorkerType /\ TaskType /\ LockType /\ ReplayType /\ DataType

\* create has written the flash image and is about to launch the worker.
Init ==
    /\ state = "starting"
    /\ process = None
    /\ worker = [p \in Procs |-> "none"]
    /\ reader = [p \in Procs |-> "none"]
    /\ pc = [t \in Tasks |-> IF t = Creator THEN "spawn" ELSE "idle"]
    /\ op = [t \in Tasks |-> IF t = Creator THEN "create" ELSE "none"]
    /\ after = [t \in Tasks |-> "none"]
    /\ cap = [t \in Tasks |-> None]
    /\ lifecycle_lock = None /\ qmp_lock = None
    /\ replay_task = None /\ cancelled = {}
    /\ program = [r \in Replays |-> <<>>]
    /\ accept_live_input = TRUE
    /\ flash = "image" /\ initial_flash_image = TRUE
    /\ replay_actions = <<>> /\ replay_actions_dropped = FALSE

-----------------------------------------------------------------------------
(* Helpers *)

Live(p) == worker[p] \in {"alive", "termed", "killed"}

WorkerGone == \A p \in Procs : ~Live(p)

\* Some worker listens on the session's one QMP socket path and answers.
QmpAnswers == \E p \in Procs : worker[p] \in {"alive", "termed"}

\* A slot whose process is gone and that nothing refers to.
FreeProcs == {p \in Procs : /\ ~Live(p)
                            /\ reader[p] \in {"none", "done"}
                            /\ process # p
                            /\ \A t \in Tasks : cap[t] # p}

\* Control passes to the next await of coroutine t.
Suspend(t, where) == pc' = [pc EXCEPT ![t] = where]

\* Coroutine t returns or raises: its locals are gone.
Return(t) ==
    /\ pc' = [pc EXCEPT ![t] = "idle"]
    /\ op' = [op EXCEPT ![t] = "none"]
    /\ after' = [after EXCEPT ![t] = "none"]
    /\ cap' = [cap EXCEPT ![t] = None]

\* Mutant: the lock is not released.
KeepLock(t) == UNCHANGED lockVars

\* `async with session.lifecycle_lock' ends.
Release(t) ==
    /\ lifecycle_lock' = IF lifecycle_lock = t THEN None ELSE lifecycle_lock
    /\ UNCHANGED qmp_lock

\* Coroutine t calls _terminate_worker, whose first await closes the debugger.
BeginTerminate(t, what) ==
    /\ pc' = [pc EXCEPT ![t] = "close"]
    /\ after' = [after EXCEPT ![t] = what]
    /\ cap' = [cap EXCEPT ![t] = None]

\* Mutant: the recorded input is not cleared.
DestroyButRecording ==
    /\ flash' = "gone"
    /\ initial_flash_image' = FALSE
    /\ UNCHANGED <<replay_actions, replay_actions_dropped>>

\* _clear_private_session_data and rmtree of the runtime directory.
DestroyPrivateData ==
    /\ flash' = "gone"
    /\ initial_flash_image' = FALSE
    /\ replay_actions' = <<>>
    /\ UNCHANGED replay_actions_dropped

\* Mutant: the oldest action is not dropped.
AppendWithoutDropping(a) ==
    /\ replay_actions' = Append(replay_actions, a)
    /\ UNCHANGED <<replay_actions_dropped, flash, initial_flash_image>>

\* _append_replay_action: a full recording forgets its oldest action.
AppendReplayAction(a) ==
    /\ IF Len(replay_actions) >= MaxActions
         THEN /\ replay_actions' = Append(Tail(replay_actions), a)
              /\ replay_actions_dropped' = TRUE
         ELSE /\ replay_actions' = Append(replay_actions, a)
              /\ UNCHANGED replay_actions_dropped
    /\ UNCHANGED <<flash, initial_flash_image>>

\* Mutant: the finally clause clears replay_task without the identity test.
EndReplayForgetsSuccessor(r) ==
    /\ accept_live_input' = TRUE
    /\ replay_task' = None
    /\ cancelled' = cancelled \ {r}
    /\ program' = [program EXCEPT ![r] = <<>>]
    /\ Return(r)

\* Mutant: live input is not accepted again.
EndReplayShutsInput(r) ==
    /\ replay_task' = IF replay_task = r THEN None ELSE replay_task
    /\ cancelled' = cancelled \ {r}
    /\ program' = [program EXCEPT ![r] = <<>>]
    /\ Return(r)
    /\ UNCHANGED accept_live_input

\* The finally clause of _run_replay, and the end of the task.
EndReplay(r) ==
    /\ accept_live_input' = TRUE
    /\ replay_task' = IF replay_task = r THEN None ELSE replay_task
    /\ cancelled' = cancelled \ {r}
    /\ program' = [program EXCEPT ![r] = <<>>]
    /\ Return(r)

\* Mutant: the failed launch leaves the session starting.
ReplayRaisedLeavesStarting(r) ==
    EndReplay(r) /\ UNCHANGED <<state, dataVars, lockVars>>

\* An exception other than CancelledError reaches _run_replay.
ReplayRaised(r) ==
    /\ IF state = "starting"
         THEN state' = "failed" /\ DestroyPrivateData
         ELSE UNCHANGED <<state, dataVars>>
    /\ EndReplay(r)
    /\ UNCHANGED lockVars

\* A recorded action is over: the request returns, a replay goes on to the next.
ActionDone(t) ==
    IF t \in Replays
      THEN /\ Suspend(t, "replaying")
           /\ op' = [op EXCEPT ![t] = "replay"]
           /\ after' = [after EXCEPT ![t] = "none"]
           /\ cap' = [cap EXCEPT ![t] = None]
           /\ program' = [program EXCEPT ![t] = Tail(program[t])]
           /\ UNCHANGED <<lockVars, replay_task, cancelled, accept_live_input>>
      ELSE /\ Return(t) /\ Release(t) /\ UNCHANGED replayVars

-----------------------------------------------------------------------------
(* _launch *)

\* Coroutine t may take its next step (a cancelled task only sees CancelledError).
Runs(t) == t \notin cancelled

\* The worker process starts, in the session's runtime directory.
Spawn(t) ==
    /\ Runs(t) /\ pc[t] = "spawn"
    /\ flash # "gone"
    /\ \E p \in FreeProcs :
          /\ worker' = [worker EXCEPT ![p] = "alive"]
          /\ reader' = [reader EXCEPT ![p] = "none"]
          /\ cap' = [cap EXCEPT ![t] = p]
    /\ Suspend(t, "attach")
    /\ UNCHANGED <<state, process, op, after, lockVars, replayVars, dataVars>>

\* _launch raises: each caller's except clause.
LaunchRaised(t) ==
    \/ /\ op[t] = "create"
       /\ state' = "failed"
       /\ DestroyPrivateData
       /\ Return(t)
       /\ UNCHANGED <<lockVars, replayVars>>
    \/ /\ op[t] = "power_on"
       /\ BeginTerminate(t, "discard")
       /\ UNCHANGED <<state, op, lockVars, replayVars, dataVars>>
    \/ /\ op[t] = "replay"
       /\ ReplayRaised(t)

\* The executable or the broker refuses, or the runtime directory is missing.
SpawnFails(t) ==
    /\ Runs(t) /\ pc[t] = "spawn"
    /\ LaunchRaised(t)
    /\ UNCHANGED workerVars

\* The awaited process object is recorded and its serial reader started.
Attach(t) ==
    /\ Runs(t) /\ pc[t] = "attach"
    /\ process' = cap[t]
    /\ reader' = [reader EXCEPT ![cap[t]] = "reading"]
    /\ Suspend(t, "ready")
    /\ UNCHANGED <<state, worker, op, after, cap, lockVars, replayVars, dataVars>>

\* Mutant: the state is not read again.
LaunchIgnoresState(t) == process = cap[t] /\ worker[cap[t]] # "exited"

\* The condition re-read after _wait_for_qmp_running.
LaunchStillCurrent(t) ==
    /\ process = cap[t]
    /\ worker[cap[t]] # "exited"
    /\ state = "starting"

\* _launch succeeds; power_on goes on to restore the virtual device state, and
\* has to wait when another request holds qmp_lock or there is state to send.
Ready(t) ==
    /\ Runs(t) /\ pc[t] = "ready"
    /\ LaunchStillCurrent(t)
    /\ state' = "running"
    /\ \/ /\ op[t] = "create"
          /\ Return(t)
          /\ UNCHANGED <<lockVars, replayVars, dataVars>>
       \/ /\ op[t] = "replay"
          /\ Suspend(t, "replaying")
          /\ cap' = [cap EXCEPT ![t] = None]
          /\ UNCHANGED <<op, after, lockVars, replayVars, dataVars>>
       \/ /\ op[t] = "power_on"
          /\ Suspend(t, "restore")
          /\ UNCHANGED <<op, after, cap, lockVars, replayVars, dataVars>>
       \/ /\ op[t] = "power_on" /\ qmp_lock = None
          /\ AppendReplayAction("power_on")
          /\ ActionDone(t)
    /\ UNCHANGED workerVars

\* The worker is not ready in time, or is no longer the session's worker.
NotReady(t) ==
    /\ Runs(t) /\ pc[t] = "ready"
    /\ BeginTerminate(t, "abort")
    /\ UNCHANGED <<state, op, workerVars, lockVars, replayVars, dataVars>>

\* _restore_virtual_environment succeeds under qmp_lock, and power_on with it.
\* It asks nothing of the worker when no state was set, or when the reader that
\* ended the session meanwhile has cleared it.
Restore(t) ==
    /\ Runs(t) /\ pc[t] = "restore"
    /\ qmp_lock = None
    /\ AppendReplayAction("power_on")
    /\ ActionDone(t)
    /\ UNCHANGED <<state, workerVars>>

RestoreFails(t) ==
    /\ Runs(t) /\ pc[t] = "restore"
    /\ qmp_lock = None
    /\ BeginTerminate(t, "discard")
    /\ UNCHANGED <<state, op, workerVars, lockVars, replayVars, dataVars>>

-----------------------------------------------------------------------------
(* _terminate_worker *)

\* The session lets go of its worker, and a worker that still runs gets SIGTERM.
Capture(t) ==
    /\ Runs(t) /\ pc[t] = "close" /\ process # None
    /\ cap' = [cap EXCEPT ![t] = process]
    /\ process' = None
    /\ worker' = [worker EXCEPT ![process] = IF @ = "alive" THEN "termed" ELSE @]
    /\ Suspend(t, "wait")
    /\ UNCHANGED <<state, reader, op, after, lockVars, replayVars, dataVars>>

\* Mutant: process.wait() without the timeout.
WaitForever(t) == FALSE

\* Three seconds passed and process.wait() has not returned.
KillTimeout(t) ==
    /\ Runs(t) /\ pc[t] = "wait"
    /\ worker[cap[t]] = "termed"
    /\ worker' = [worker EXCEPT ![cap[t]] = "killed"]
    /\ UNCHANGED <<state, process, reader, taskVars, lockVars, replayVars, dataVars>>

\* Mutant: _terminate_worker does not wait for the process to end.
TerminatedUnwaited(t) ==
    Runs(t) /\ (pc[t] = "wait" \/ (pc[t] = "close" /\ process = None))

\* The awaits of _terminate_worker are over: the process and its reader ended.
\* A session that has no process leaves nothing to await.
Terminated(t) ==
    /\ Runs(t)
    /\ \/ pc[t] = "close" /\ process = None
       \/ pc[t] = "wait" /\ worker[cap[t]] = "exited" /\ reader[cap[t]] = "done"

\* The rest of stop.
FinishStop(t) ==
    /\ Terminated(t) /\ after[t] = "stop"
    /\ state' = IF op[t] = "expire" THEN "expired" ELSE "stopped"
    /\ DestroyPrivateData
    /\ Return(t) /\ Release(t)
    /\ UNCHANGED <<workerVars, replayVars>>

\* Mutant: the state is not assigned.
FinishPowerOffKeepsState(t) ==
    /\ Terminated(t) /\ after[t] = "power_off"
    /\ AppendReplayAction("power_off")
    /\ ActionDone(t)
    /\ UNCHANGED <<state, workerVars>>

\* The rest of _power_off_worker and of power_off (or of that replay step).
FinishPowerOff(t) ==
    /\ Terminated(t) /\ after[t] = "power_off"
    /\ state' = "powered_off"
    /\ AppendReplayAction("power_off")
    /\ ActionDone(t)
    /\ UNCHANGED workerVars

\* _launch has terminated the worker it could not use, and raises.
FinishAbort(t) ==
    /\ Terminated(t) /\ after[t] = "abort"
    /\ LaunchRaised(t)
    /\ UNCHANGED workerVars

\* The except clause of _power_on_worker; the exception goes on to the caller.
FinishDiscard(t) ==
    /\ Terminated(t) /\ after[t] = "discard"
    /\ state' = "failed"
    /\ DestroyPrivateData
    /\ IF t \in Replays
         THEN EndReplay(t) /\ UNCHANGED lockVars
         ELSE Return(t) /\ Release(t) /\ UNCHANGED replayVars
    /\ UNCHANGED workerVars

\* _run_replay rewrites the flash from memory and starts a new generation.
FinishRestart(r) ==
    /\ Terminated(r) /\ after[r] = "restart"
    /\ flash' = IF initial_flash_image THEN "image" ELSE "blank"
    /\ replay_actions' = <<>> /\ replay_actions_dropped' = FALSE
    /\ state' = "starting"
    /\ Suspend(r, "spawn")
    /\ after' = [after EXCEPT ![r] = "none"]
    /\ cap' = [cap EXCEPT ![r] = None]
    /\ UNCHANGED <<initial_flash_image, op, workerVars, lockVars, replayVars>>

-----------------------------------------------------------------------------
(* stop, expiry and the power requests *)

\* stop takes the replay task away from the session and cancels it.
BeginStop(q, o) ==
    /\ op' = [op EXCEPT ![q] = o]
    /\ replay_task' = None
    /\ IF replay_task # None /\ pc[replay_task] # "idle"
         THEN /\ cancelled' = cancelled \cup {replay_task}
              /\ Suspend(q, "join")
              /\ cap' = [cap EXCEPT ![q] = replay_task]
         ELSE /\ Suspend(q, "lock")
              /\ UNCHANGED <<cancelled, cap>>
    /\ UNCHANGED <<state, workerVars, after, lockVars, program,
                   accept_live_input, dataVars>>

Stop(q) == "stop" \in Ops /\ pc[q] = "idle" /\ BeginStop(q, "stop")

\* _cleanup_loop lists the session, then stops the sessions listed before it.
ExpiryScan(q) ==
    /\ "expire" \in Ops /\ pc[q] = "idle"
    /\ \A t \in Requests : op[t] # "expire"
    /\ state \in Active
    /\ Suspend(q, "scanned")
    /\ op' = [op EXCEPT ![q] = "expire"]
    /\ UNCHANGED <<state, workerVars, after, cap, lockVars, replayVars, dataVars>>

Expire(q) == pc[q] = "scanned" /\ BeginStop(q, "expire")

\* gather(replay_task) returns.
Joined(q) ==
    /\ pc[q] = "join" /\ pc[cap[q]] = "idle"
    /\ Suspend(q, "lock")
    /\ cap' = [cap EXCEPT ![q] = None]
    /\ UNCHANGED <<state, workerVars, op, after, lockVars, replayVars, dataVars>>

RequestPower(q, o) ==
    /\ o \in {"power_off", "power_on"} \cap Ops /\ pc[q] = "idle"
    /\ Suspend(q, "lock")
    /\ op' = [op EXCEPT ![q] = o]
    /\ UNCHANGED <<state, workerVars, after, cap, lockVars, replayVars, dataVars>>

\* Coroutine q obtains lifecycle_lock.
Lock(q) ==
    /\ pc[q] = "lock" /\ lifecycle_lock = None
    /\ lifecycle_lock' = q
    /\ UNCHANGED qmp_lock

StopUnderLock(q) ==
    /\ Lock(q) /\ op[q] \in {"stop", "expire"}
    /\ BeginTerminate(q, "stop")
    /\ UNCHANGED <<state, workerVars, op, replayVars, dataVars>>

\* Mutant: power_on does not check the state.
MayPowerOnAlways == accept_live_input

\* The checks power_off and power_on make once they hold the lock.
MayPowerOff == accept_live_input /\ state \in Powered
MayPowerOn  == accept_live_input /\ state = "powered_off"

PowerOff(q) ==
    /\ Lock(q) /\ op[q] = "power_off" /\ MayPowerOff
    /\ BeginTerminate(q, "power_off")
    /\ UNCHANGED <<state, workerVars, op, replayVars, dataVars>>

PowerOn(q) ==
    /\ Lock(q) /\ op[q] = "power_on" /\ MayPowerOn
    /\ state' = "starting"
    /\ Suspend(q, "spawn")
    /\ UNCHANGED <<workerVars, op, after, cap, replayVars, dataVars>>

PowerRefused(q) ==
    /\ pc[q] = "lock" /\ lifecycle_lock = None
    /\ \/ op[q] = "power_off" /\ ~MayPowerOff
       \/ op[q] = "power_on" /\ ~MayPowerOn
    /\ Return(q)
    /\ UNCHANGED <<state, workerVars, lockVars, replayVars, dataVars>>

-----------------------------------------------------------------------------
(* Requests that talk to the worker over QMP: board input, pause, resume,  *)
(* reset, and the refresh that every GET of a session makes                *)

\* What each request checks before it waits for qmp_lock ...
QmpAdmits(o) ==
    /\ o # "refresh" => accept_live_input
    /\ o = "input" => state = "running"
    /\ o = "resume" => state = "paused"
    /\ o = "refresh" => state \in Powered

\* ... and what it checks once it holds it.
QmpStillAdmits(o) ==
    /\ o = "pause" => state = "running"
    /\ o = "reset" => state \in Powered

QmpBegin(q, o) ==
    /\ o \in QmpOps \cap Ops /\ pc[q] = "idle"
    /\ QmpAdmits(o)
    /\ Suspend(q, "qmp_lock")
    /\ op' = [op EXCEPT ![q] = o]
    /\ UNCHANGED <<state, workerVars, after, cap, lockVars, replayVars, dataVars>>

QmpLock(q) ==
    /\ pc[q] = "qmp_lock" /\ qmp_lock = None
    /\ IF QmpStillAdmits(op[q])
         THEN Suspend(q, "qmp") /\ qmp_lock' = q /\ UNCHANGED <<op, after, cap>>
         ELSE Return(q) /\ UNCHANGED qmp_lock
    /\ UNCHANGED <<state, workerVars, lifecycle_lock, replayVars, dataVars>>

\* The state a request assigns when the worker has answered.
StateAfterQmp(o) ==
    CASE o = "pause"   -> {"paused"}
      [] o = "resume"  -> {"running"}
      [] o = "refresh" -> Powered
      [] OTHER         -> {state}

QmpAnswer(q) ==
    /\ pc[q] = "qmp" /\ QmpAnswers
    /\ state' \in StateAfterQmp(op[q])
    /\ IF op[q] \in {"input", "reset"}
         THEN AppendReplayAction("input") ELSE UNCHANGED dataVars
    /\ qmp_lock' = None
    /\ Return(q)
    /\ UNCHANGED <<workerVars, lifecycle_lock, replayVars>>

QmpFails(q) ==
    /\ pc[q] = "qmp"
    /\ qmp_lock' = None
    /\ Return(q)
    /\ UNCHANGED <<state, workerVars, lifecycle_lock, replayVars, dataVars>>

-----------------------------------------------------------------------------
(* Serial input: write_serial, and a replayed serial action, hold no lock  *)
(* and await only stdin.drain()                                            *)

\* What both check before they write.
MayWriteSerial == state = "running" /\ process # None

WriteSerial(q) ==
    /\ "serial" \in Ops /\ pc[q] = "idle"
    /\ accept_live_input /\ MayWriteSerial
    /\ Suspend(q, "drain")
    /\ op' = [op EXCEPT ![q] = "serial"]
    /\ UNCHANGED <<state, workerVars, after, cap, lockVars, replayVars, dataVars>>

\* drain returns.  It may do so after the worker is gone, when another writer
\* took the bytes along or close() dropped them, and the input is recorded.
Drained(t) ==
    /\ Runs(t) /\ pc[t] = "drain"
    /\ AppendReplayAction("serial")
    /\ IF t \in Replays
         THEN ActionDone(t) ELSE Return(t) /\ UNCHANGED <<lockVars, replayVars>>
    /\ UNCHANGED <<state, workerVars>>

\* The write or the drain raises.
DrainFails(t) ==
    /\ Runs(t) /\ pc[t] = "drain"
    /\ IF t \in Replays
         THEN ReplayRaised(t)
         ELSE Return(t) /\ UNCHANGED <<state, lockVars, replayVars, dataVars>>
    /\ UNCHANGED workerVars

-----------------------------------------------------------------------------
(* Replay *)

\* What start_replay checks, without holding any lock.
MayReplay ==
    /\ state \in Powered
    /\ replay_task # None => pc[replay_task] = "idle"
    /\ ~replay_actions_dropped
    /\ replay_actions # <<>>

StartReplay(r) ==
    /\ "replay" \in Ops /\ pc[r] = "idle"
    /\ \A q \in Requests : cap[q] # r
    /\ MayReplay
    /\ accept_live_input' = FALSE
    /\ replay_task' = r
    /\ program' = [program EXCEPT ![r] = replay_actions]
    /\ Suspend(r, "queued")
    /\ op' = [op EXCEPT ![r] = "replay"]
    /\ UNCHANGED <<state, workerVars, after, cap, lockVars, cancelled, dataVars>>

\* The task's first step.
RunReplay(r) ==
    /\ Runs(r) /\ pc[r] = "queued"
    /\ accept_live_input' = FALSE
    /\ BeginTerminate(r, "restart")
    /\ UNCHANGED <<state, workerVars, op, lockVars, replay_task, cancelled,
                   program, dataVars>>

\* The next recorded action is due.
NextAction(r) == Head(program[r])

ReplayInput(r) ==
    /\ Runs(r) /\ pc[r] = "replaying" /\ program[r] # <<>>
    /\ NextAction(r) = "input"
    /\ qmp_lock = None /\ QmpAnswers
    /\ AppendReplayAction("input")
    /\ program' = [program EXCEPT ![r] = Tail(@)]
    /\ UNCHANGED <<state, workerVars, taskVars, lockVars, replay_task,
                   cancelled, accept_live_input>>

ReplaySerial(r) ==
    /\ Runs(r) /\ pc[r] = "replaying" /\ program[r] # <<>>
    /\ NextAction(r) = "serial" /\ MayWriteSerial
    /\ op' = [op EXCEPT ![r] = "serial"]
    /\ Suspend(r, "drain")
    /\ UNCHANGED <<state, workerVars, after, cap, lockVars, replayVars, dataVars>>

\* The worker does not answer, or the session cannot take serial input.
ReplayInputFails(r) ==
    /\ Runs(r) /\ pc[r] = "replaying" /\ program[r] # <<>>
    /\ \/ NextAction(r) = "input"
       \/ NextAction(r) = "serial" /\ ~MayWriteSerial
    /\ ReplayRaised(r)
    /\ UNCHANGED workerVars

ReplayPowerOff(r) ==
    /\ Runs(r) /\ pc[r] = "replaying" /\ program[r] # <<>>
    /\ NextAction(r) = "power_off"
    /\ op' = [op EXCEPT ![r] = "power_off"]
    /\ BeginTerminate(r, "power_off")
    /\ UNCHANGED <<state, workerVars, lockVars, replayVars, dataVars>>

ReplayPowerOn(r) ==
    /\ Runs(r) /\ pc[r] = "replaying" /\ program[r] # <<>>
    /\ NextAction(r) = "power_on"
    /\ op' = [op EXCEPT ![r] = "power_on"]
    /\ state' = "starting"
    /\ Suspend(r, "spawn")
    /\ UNCHANGED <<workerVars, after, cap, lockVars, replayVars, dataVars>>

ReplayCompletes(r) ==
    /\ Runs(r) /\ pc[r] = "replaying" /\ program[r] = <<>>
    /\ EndReplay(r)
    /\ UNCHANGED <<state, workerVars, lockVars, dataVars>>

(***************************************************************************)
(* CancelledError is raised at the await where the replay is suspended.  A *)
(* task that never started has no finally clause to run; a process that is *)
(* still starting is closed; cancelling gather(reader_task) cancels the    *)
(* reader.                                                                 *)
(***************************************************************************)
CancelReplay(r) ==
    /\ r \in cancelled
    /\ IF pc[r] = "queued"
         THEN /\ Return(r)
              /\ cancelled' = cancelled \ {r}
              /\ program' = [program EXCEPT ![r] = <<>>]
              /\ UNCHANGED <<replay_task, accept_live_input>>
         ELSE EndReplay(r)
    /\ worker' = IF pc[r] = "attach" /\ Live(cap[r])
                   THEN [worker EXCEPT ![cap[r]] = "killed"] ELSE worker
    /\ \/ UNCHANGED reader
       \/ /\ pc[r] = "wait" /\ worker[cap[r]] = "exited"
          /\ reader' = [reader EXCEPT ![cap[r]] = "done"]
    /\ UNCHANGED <<state, process, lockVars, dataVars>>

-----------------------------------------------------------------------------
(* The worker and its serial reader *)

\* A worker ends: by itself, on SIGTERM, or killed.
WorkerExit(p) ==
    /\ Live(p)
    /\ worker' = [worker EXCEPT ![p] = "exited"]
    /\ UNCHANGED <<state, process, reader, taskVars, lockVars, replayVars, dataVars>>

\* End of stdout and process.wait(): a reader whose worker was taken is done.
ReaderExit(p) ==
    /\ reader[p] = "reading" /\ worker[p] = "exited"
    /\ reader' = [reader EXCEPT ![p] = IF process = p THEN "exiting" ELSE "done"]
    /\ UNCHANGED <<state, process, worker, taskVars, lockVars, replayVars, dataVars>>

\* After it awaited the trace reader and the debugger, it does not look again.
ReaderFinish(p) ==
    /\ reader[p] = "exiting"
    /\ reader' = [reader EXCEPT ![p] = "done"]
    /\ IF state \in {"starting", "running", "paused"}
         THEN state' \in {"stopped", "failed"} ELSE UNCHANGED state
    /\ DestroyPrivateData
    /\ UNCHANGED <<process, worker, taskVars, lockVars, replayVars>>

-----------------------------------------------------------------------------
(* Steps that wait for a lock, steps that do not, and what clients may ask *)

LockStep(t) ==
    \/ Restore(t) \/ RestoreFails(t)
    \/ /\ t \in Requests
       /\ \/ StopUnderLock(t) \/ PowerOff(t) \/ PowerOn(t) \/ PowerRefused(t)
          \/ QmpLock(t)

LaunchStep(t) ==
    \/ Spawn(t) \/ SpawnFails(t) \/ Attach(t) \/ Ready(t) \/ NotReady(t)

TerminateStep(t) ==
    \/ Capture(t) \/ KillTimeout(t)
    \/ FinishStop(t) \/ FinishPowerOff(t) \/ FinishAbort(t) \/ FinishDiscard(t)

RequestStep(q) == Expire(q) \/ Joined(q) \/ QmpAnswer(q) \/ QmpFails(q)

DrainStep(t) == Drained(t) \/ DrainFails(t)

ReplayStep(r) ==
    \/ RunReplay(r) \/ FinishRestart(r)
    \/ ReplayInput(r) \/ ReplaySerial(r) \/ ReplayInputFails(r)
    \/ ReplayPowerOff(r) \/ ReplayPowerOn(r)
    \/ ReplayCompletes(r) \/ CancelReplay(r)

ReaderStep(p) == ReaderExit(p) \/ ReaderFinish(p)

ClientStep(q) ==
    \/ Stop(q) \/ ExpiryScan(q)
    \/ \E o \in {"power_off", "power_on"} : RequestPower(q, o)
    \/ \E o \in QmpOps : QmpBegin(q, o)
    \/ WriteSerial(q)

Next ==
    \/ \E t \in Tasks : LockStep(t) \/ LaunchStep(t) \/ TerminateStep(t) \/ DrainStep(t)
    \/ \E q \in Requests : RequestStep(q) \/ ClientStep(q)
    \/ \E r \in Replays : ReplayStep(r) \/ StartReplay(r)
    \/ \E p \in Procs : WorkerExit(p) \/ ReaderStep(p)

Spec == Init /\ [][Next]_vars

(***************************************************************************)
(* Fairness.  The event loop resumes every coroutine whose await is over,  *)
(* and the awaits on a worker carry timeouts (readiness, QMP, the three    *)
(* seconds before SIGKILL); asyncio.Lock wakes its waiters in order; the   *)
(* kernel reaps a killed process.  Nothing makes a client call, a worker   *)
(* exit by itself or on SIGTERM, nor one that runs read its serial input:  *)
(* drain has no timeout, and is sure to end only when the worker is gone.  *)
(***************************************************************************)
Fairness ==
    /\ \A t \in Tasks : WF_vars(LaunchStep(t) \/ TerminateStep(t)) /\ SF_vars(LockStep(t))
    /\ \A q \in Requests : WF_vars(RequestStep(q))
    /\ \A t \in Requests \cup Replays : WF_vars(WorkerGone /\ DrainStep(t))
    /\ \A r \in Replays : WF_vars(ReplayStep(r))
    /\ \A p \in Procs : /\ WF_vars(worker[p] = "killed" /\ WorkerExit(p))
                        /\ WF_vars(ReaderStep(p))

FairSpec == Spec /\ Fairness

-----------------------------------------------------------------------------
\* What the session's state stands for in SessionContract: a worker is alive,
\* the flash image exists, and create or a holder of the lock is at work.
Contract == INSTANCE SessionContract
                WITH shown <- state,
                     alive <- \E p \in Procs : Live(p),
                     private <- (flash # "gone"),
                     busy <- (pc[Creator] # "idle" \/ lifecycle_lock # None)

-----------------------------------------------------------------------------
(* Properties *)

\* Two workers never run at once: not after a power cycle, nor when stop,
\* expiry, a crash and a power request meet (architecture.md: at most one
\* worker per session).  Two QEMU processes would write one flash file.
AtMostOneWorker == \A p, q \in Procs : Live(p) /\ Live(q) => p = q

\* A worker that nobody has signalled yet is one the session can still reach:
\* it is session.process, or a launch is about to make it so.  A worker that
\* fails this is out of reach of every later stop.
NoOrphanWorker ==
    \A p \in Procs : worker[p] = "alive" =>
        \/ process = p
        \/ \E t \in Tasks : pc[t] = "attach" /\ cap[t] = p

\* A session that ended holds neither flash file, nor uploaded image, nor any
\* input recorded before it ended, whichever of stop, expiry, crash, failed
\* launch and late answers came last (the order of clear, assign and rmtree in
\* each).  All that its recording may hold is what two stragglers add after the
\* end without asking the worker or the state again: a serial write whose drain
\* returns, and a power_on that finds no device state to restore.
TerminalKeepsOnlyStragglers ==
    state \in Terminal => /\ flash = "gone"
                          /\ ~initial_flash_image
                          /\ replay_actions \in Seq({"serial", "power_on"})

\* When no launch and no lock holder is at work, a session shown as running or
\* paused has a worker process object: the late answers of pause, resume and
\* refresh never leave it shown as running with nothing behind it.
PoweredHasProcess ==
    (state \in Powered /\ lifecycle_lock = None /\ pc[Creator] = "idle")
        => process # None

\* A session that ended becomes active again only as powered_off, and only by
\* a power_off that passed its check before the session ended.
OnlyPowerOffRevives ==
    [][(state \in Terminal /\ state' \in Active)
         => /\ state' = "powered_off"
            /\ lifecycle_lock # None
            /\ op[lifecycle_lock] = "power_off"]_vars

\* A powered-off session keeps its flash image (protocol.md: power off retains
\* private flash/NVS; power on cold boots that same image).
PoweredOffRetainsFlash == state = "powered_off" => flash = "image"

\* Every stop, and every expiry, returns: whoever holds the lock, whatever the
\* worker does with SIGTERM, and whichever replay it must cancel first.
StopReturns ==
    \A q \in Requests :
        (op[q] \in {"stop", "expire"}) ~> (pc[q] = "idle")

\* A worker that was sent SIGTERM ends, even one that ignores the signal.
SignalledWorkersEnd ==
    \A p \in Procs : (worker[p] = "termed") ~> (worker[p] = "exited")

\* A replay waits for a worker that runs to read its serial input.
Undrained(r) == pc[r] = "drain" /\ ~WorkerGone

\* A replay ends, completed, failed or cancelled, wherever it is, unless it hands
\* serial input to a worker that does not read it.
ReplaysEnd == \A r \in Replays : (pc[r] # "idle") ~> (pc[r] = "idle" \/ Undrained(r))

\* Live input that replay shut out comes back, unless the session ends or the
\* replay is stuck on such a worker: no way out of _run_replay leaves
\* accept_live_input false for good.
LiveInputReturns ==
    (~accept_live_input)
        ~> (accept_live_input \/ state \in Terminal \/ \E r \in Replays : Undrained(r))

\* While a replay feeds its recorded actions, nothing else is delivered and
\* recorded (protocol.md: live input is rejected while replay runs).
ReplayAlone ==
    [][\A r \in Replays :
          (pc[r] = "replaying" /\ replay_actions' # replay_actions
                               /\ replay_actions' # <<>>)
             => program'[r] # program[r]]_vars

\* A replay that was not cancelled is session.replay_task, so that a later stop
\* finds it and start_replay refuses a second one; the finally clause of a
\* cancelled replay must not forget its successor.
ReplayReachable ==
    \A r \in Replays : (pc[r] # "idle" /\ r \notin cancelled) => replay_task = r

\* Coroutine t launches or terminates the worker, or is a stop on its way to.
InHand(t) ==
    \/ pc[t] \in {"spawn", "attach", "ready", "close", "wait"}
    \/ op[t] \in {"stop", "expire"} /\ pc[t] \in {"join", "lock"}

\* A session that is starting is in the hands of a coroutine that will change
\* its state: each way in which a launch fails or is cancelled ends in another
\* state or in a stop.  A session stuck in starting would hold its capacity
\* slot and refuse every control request.
StartingIsTransient ==
    state = "starting" => \E t \in Tasks : InHand(t)

\* Without replays a session keeps its contract (SessionContract), in any
\* interleaving of create, stop, expiry, power cycles, crashes of the worker
\* and late QMP answers.
ImplementsContract == Contract!Spec
=============================================================================
