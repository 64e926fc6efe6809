----------------------------- MODULE SessionPool -----------------------------
(***************************************************************************)
(* The sessions of one SessionManager (sessions.py) together: admission by *)
(* create, the cleanup loop that expires them, and close at the end of the *)
(* service's life (api.py, lifespan).                                      *)
(*                                                                         *)
(*   Sessions   the sessions that create may make                          *)
(*   Requests   slots for API requests                                     *)
(*   Cleaner    the task of _cleanup_loop                                  *)
(*   Closer     the coroutine that runs close                              *)
(*                                                                         *)
(* A session is taken as SessionContract describes it: paused is running,  *)
(* and stopped, failed and expired are "ended".  Replays, QMP and the      *)
(* debugger are left to the other modules.                                 *)
(***************************************************************************)
EXTENDS Naturals, FiniteSets

CONSTANTS
    Sessions, Requests, Cleaner, Closer, None,
    MaxSessions         \* Settings.max_concurrent_sessions

ASSUME PoolAssumption ==
    /\ MaxSessions \in Nat \ {0}
    /\ Cleaner \notin Requests /\ Closer \notin Requests \cup {Cleaner}
    /\ None \notin Sessions \cup Requests \cup {Cleaner, Closer}

VARIABLES
    shown,              \* SessionRecord.state, "none" before create
    worker,             \* the session's worker: "none", "alive", "termed", "killed"
    attached,           \* is it still session.process?
    reader,             \* its _read_serial: "none", "reading" or about to end the session
    private,            \* the runtime directory and its flash image exist
    lifecycle_lock,
    expired,            \* sessions whose expires_at has passed
    pc, op, target,     \* where each coroutine is, in which operation, on which session
    listed,             \* the sessions the cleanup loop or close has yet to stop
    service             \* "up", "closing" or "down"

recordVars  == <<shown, worker, attached, reader, private>>
taskVars    == <<pc, op, target>>
vars == <<recordVars, lifecycle_lock, expired, taskVars, listed, service>>

Tasks  == Requests \cup {Cleaner, Closer}
Active == {"starting", "running", "powered_off"}

TypeOK ==
    /\ shown \in [Sessions -> Active \cup {"none", "ended"}]
    /\ worker \in [Sessions -> {"none", "alive", "termed", "killed"}]
    /\ reader \in [Sessions -> {"none", "reading", "exiting"}]
    /\ attached \in [Sessions -> BOOLEAN] /\ private \in [Sessions -> BOOLEAN]
    /\ lifecycle_lock \in [Sessions -> Tasks \cup {None}]
    /\ expired \subseteq Sessions
    /\ pc \in [Tasks -> {"idle", "probe", "lock", "launch", "ready", "wait"}]
    /\ op \in [Tasks -> {"none", "create", "stop", "power_off", "power_on"}]
    /\ target \in [Tasks -> Sessions \cup {None}]
    /\ \A t \in Tasks : pc[t] \in {"lock", "launch", "ready", "wait"} => shown[target[t]] # "none"
    /\ listed \in [{Cleaner, Closer} -> SUBSET Sessions]
    /\ service \in {"up", "closing", "down"}

Init ==
    /\ shown = [s \in Sessions |-> "none"]
    /\ worker = [s \in Sessions |-> "none"]
    /\ attached = [s \in Sessions |-> FALSE] /\ reader = [s \in Sessions |-> "none"]
    /\ private = [s \in Sessions |-> FALSE]
    /\ lifecycle_lock = [s \in Sessions |-> None]
    /\ expired = {}
    /\ pc = [t \in Tasks |-> "idle"] /\ op = [t \in Tasks |-> "none"]
    /\ target = [t \in Tasks |-> None]
    /\ listed = [t \in {Cleaner, Closer} |-> {}]
    /\ service = "up"

-----------------------------------------------------------------------------
(* Helpers *)

Suspend(t, where) == pc' = [pc EXCEPT ![t] = where]

Return(t) ==
    /\ pc' = [pc EXCEPT ![t] = "idle"] /\ op' = [op EXCEPT ![t] = "none"]
    /\ target' = [target EXCEPT ![t] = None]

Lock(t) ==
    /\ pc[t] = "lock" /\ lifecycle_lock[target[t]] = None
    /\ lifecycle_lock' = [lifecycle_lock EXCEPT ![target[t]] = t]

\* Coroutine t leaves `async with session.lifecycle_lock', if it is in it.
Release(t) ==
    lifecycle_lock' = [s \in Sessions |-> IF lifecycle_lock[s] = t THEN None ELSE lifecycle_lock[s]]

\* _terminate_worker: the session lets go of its process, which gets SIGTERM ...
Terminate(t) ==
    LET s == target[t]
    IN  /\ attached' = [attached EXCEPT ![s] = FALSE]
        /\ worker' = [worker EXCEPT ![s] = IF @ = "alive" THEN "termed" ELSE @]
        /\ Suspend(t, "wait")

\* Mutant: the worker's end is not awaited.
TerminatedUnwaited(t) == pc[t] = "wait"

\* ... and awaits the end of the process and of its reader.
Terminated(t) ==
    pc[t] = "wait" /\ worker[target[t]] = "none" /\ reader[target[t]] = "none"

End(s) ==
    /\ shown' = [shown EXCEPT ![s] = "ended"]
    /\ private' = [private EXCEPT ![s] = FALSE]
    /\ UNCHANGED <<worker, attached, reader>>

-----------------------------------------------------------------------------
(* create, and the launch it shares with power_on *)

Create(q) ==
    /\ service = "up" /\ pc[q] = "idle"
    /\ Suspend(q, "probe") /\ op' = [op EXCEPT ![q] = "create"]
    /\ UNCHANGED <<recordVars, lifecycle_lock, expired, target, listed, service>>

ActiveCount == Cardinality({s \in Sessions : shown[s] \in Active})

\* Mutant: the session is launched before it is in the table.
AdmitUnlisted(q, s) ==
    /\ pc[q] = "probe" /\ ActiveCount < MaxSessions
    /\ shown[s] = "none"
    /\ private' = [private EXCEPT ![s] = TRUE]
    /\ Suspend(q, "launch") /\ target' = [target EXCEPT ![q] = s]
    /\ UNCHANGED <<shown, worker, attached, reader, lifecycle_lock, expired, op, listed, service>>

\* The worker is ready and _lock held: there is room, the image is valid and written.
Admit(q, s) ==
    /\ pc[q] = "probe" /\ ActiveCount < MaxSessions
    /\ shown[s] = "none"
    /\ shown' = [shown EXCEPT ![s] = "starting"]
    /\ private' = [private EXCEPT ![s] = TRUE]
    /\ Suspend(q, "launch") /\ target' = [target EXCEPT ![q] = s]
    /\ UNCHANGED <<worker, attached, reader, lifecycle_lock, expired, op, listed, service>>

\* No worker available, no room, or an invalid image.
Refuse(q) ==
    /\ pc[q] = "probe"
    /\ Return(q)
    /\ UNCHANGED <<recordVars, lifecycle_lock, expired, listed, service>>

\* _launch: the worker starts in the session's directory.
Launch(q) ==
    /\ pc[q] = "launch" /\ private[target[q]]
    /\ worker' = [worker EXCEPT ![target[q]] = "alive"]
    /\ attached' = [attached EXCEPT ![target[q]] = TRUE]
    /\ reader' = [reader EXCEPT ![target[q]] = "reading"]
    /\ Suspend(q, "ready")
    /\ UNCHANGED <<shown, private, lifecycle_lock, expired, op, target, listed, service>>

LaunchFails(q) ==
    /\ pc[q] = "launch"
    /\ End(target[q])
    /\ Return(q) /\ Release(q)
    /\ UNCHANGED <<expired, listed, service>>

Ready(q) ==
    LET s == target[q]
    IN  /\ pc[q] = "ready"
        /\ attached[s] /\ worker[s] # "none" /\ shown[s] = "starting"
        /\ shown' = [shown EXCEPT ![s] = "running"]
        /\ Return(q) /\ Release(q)
        /\ UNCHANGED <<worker, attached, reader, private, expired, listed, service>>

NotReady(q) ==
    /\ pc[q] = "ready"
    /\ Terminate(q)
    /\ UNCHANGED <<shown, reader, private, lifecycle_lock, expired, op, target, listed, service>>

-----------------------------------------------------------------------------
(* stop, power_off and power_on *)

\* A client knows a session once create has returned it.
Returned(s) ==
    shown[s] # "none" /\ \A t \in Requests : ~(op[t] = "create" /\ target[t] = s)

Request(q, o, s) ==
    /\ service = "up" /\ pc[q] = "idle" /\ Returned(s)
    /\ Suspend(q, "lock")
    /\ op' = [op EXCEPT ![q] = o] /\ target' = [target EXCEPT ![q] = s]
    /\ UNCHANGED <<recordVars, lifecycle_lock, expired, listed, service>>

Stop(t) ==
    /\ Lock(t) /\ op[t] = "stop" /\ attached[target[t]]
    /\ Terminate(t)
    /\ UNCHANGED <<shown, reader, private, expired, op, target, listed, service>>

\* A session without a process has nothing to wait for.
StopIdle(t) ==
    /\ pc[t] = "lock" /\ lifecycle_lock[target[t]] = None
    /\ op[t] = "stop" /\ ~attached[target[t]]
    /\ End(target[t])
    /\ Return(t)
    /\ UNCHANGED <<lifecycle_lock, expired, listed, service>>

PowerOff(q) ==
    /\ Lock(q) /\ op[q] = "power_off" /\ shown[target[q]] = "running"
    /\ Terminate(q)
    /\ UNCHANGED <<shown, reader, private, expired, op, target, listed, service>>

PowerOn(q) ==
    /\ Lock(q) /\ op[q] = "power_on" /\ shown[target[q]] = "powered_off"
    /\ shown' = [shown EXCEPT ![target[q]] = "starting"]
    /\ Suspend(q, "launch")
    /\ UNCHANGED <<worker, attached, reader, private, expired, op, target, listed, service>>

PowerRefused(q) ==
    /\ pc[q] = "lock" /\ lifecycle_lock[target[q]] = None
    /\ \/ op[q] = "power_off" /\ shown[target[q]] # "running"
       \/ op[q] = "power_on" /\ shown[target[q]] # "powered_off"
    /\ Return(q)
    /\ UNCHANGED <<recordVars, lifecycle_lock, expired, listed, service>>

\* Three seconds passed.
KillTimeout(t) ==
    /\ pc[t] = "wait" /\ worker[target[t]] = "termed"
    /\ worker' = [worker EXCEPT ![target[t]] = "killed"]
    /\ UNCHANGED <<shown, attached, reader, private, lifecycle_lock, expired, taskVars,
                   listed, service>>

\* The rest of stop, and of a launch that failed.
FinishEnd(t) ==
    /\ Terminated(t) /\ op[t] # "power_off"
    /\ End(target[t])
    /\ Return(t) /\ Release(t)
    /\ UNCHANGED <<expired, listed, service>>

FinishPowerOff(q) ==
    /\ Terminated(q) /\ op[q] = "power_off"
    /\ shown' = [shown EXCEPT ![target[q]] = "powered_off"]
    /\ Return(q) /\ Release(q)
    /\ UNCHANGED <<worker, attached, reader, private, expired, listed, service>>

-----------------------------------------------------------------------------
(* The worker and its serial reader *)

WorkerExit(s) ==
    /\ worker[s] # "none"
    /\ worker' = [worker EXCEPT ![s] = "none"]
    /\ UNCHANGED <<shown, attached, reader, private, lifecycle_lock, expired, taskVars,
                   listed, service>>

ReaderExit(s) ==
    /\ reader[s] = "reading" /\ worker[s] = "none"
    /\ reader' = [reader EXCEPT ![s] = IF attached[s] THEN "exiting" ELSE "none"]
    /\ UNCHANGED <<shown, worker, attached, private, lifecycle_lock, expired, taskVars,
                   listed, service>>

ReaderFinish(s) ==
    /\ reader[s] = "exiting"
    /\ reader' = [reader EXCEPT ![s] = "none"]
    /\ shown' = [shown EXCEPT ![s] = IF @ \in {"starting", "running"} THEN "ended" ELSE @]
    /\ private' = [private EXCEPT ![s] = FALSE]
    /\ UNCHANGED <<worker, attached, lifecycle_lock, expired, taskVars, listed, service>>

-----------------------------------------------------------------------------
(* _cleanup_loop and close *)

\* session_ttl_seconds pass (120 by default, where a launch may take 10).
Expire(s) ==
    /\ Returned(s) /\ expired' = expired \cup {s}
    /\ UNCHANGED <<recordVars, lifecycle_lock, taskVars, listed, service>>

\* Mutant: only running sessions expire.
CleanerScanRunning ==
    /\ service = "up" /\ pc[Cleaner] = "idle" /\ listed[Cleaner] = {}
    /\ listed' = [listed EXCEPT ![Cleaner] = {s \in expired : shown[s] = "running"}]
    /\ UNCHANGED <<recordVars, lifecycle_lock, expired, taskVars, service>>

CleanerScan ==
    /\ service = "up" /\ pc[Cleaner] = "idle" /\ listed[Cleaner] = {}
    /\ listed' = [listed EXCEPT ![Cleaner] = {s \in expired : shown[s] \in Active}]
    /\ UNCHANGED <<recordVars, lifecycle_lock, expired, taskVars, service>>

\* The cleanup loop, or close, stops the sessions it listed one after the other.
StopNext(t) ==
    /\ pc[t] = "idle"
    /\ \E s \in listed[t] :
          /\ listed' = [listed EXCEPT ![t] = @ \ {s}]
          /\ target' = [target EXCEPT ![t] = s]
    /\ Suspend(t, "lock") /\ op' = [op EXCEPT ![t] = "stop"]
    /\ UNCHANGED <<recordVars, lifecycle_lock, expired, service>>

\* Mutant: close stops the sessions that run.
ToClose == {s \in Sessions : shown[s] = "running"}

Known == {s \in Sessions : shown[s] # "none"}

(***************************************************************************)
(* close, once the server has answered its requests (uvicorn, external).   *)
(* Cancelling the cleanup loop inside a stop releases the session's lock,  *)
(* and the SIGKILL that stop might have sent is lost with it.              *)
(***************************************************************************)
Close ==
    /\ service = "up" /\ \A q \in Requests : pc[q] = "idle"
    /\ service' = "closing"
    /\ Return(Cleaner) /\ Release(Cleaner)
    /\ listed' = [listed EXCEPT ![Cleaner] = {}, ![Closer] = Known]
    /\ UNCHANGED <<recordVars, expired>>

Closed ==
    /\ service = "closing" /\ pc[Closer] = "idle" /\ listed[Closer] = {}
    /\ service' = "down"
    /\ UNCHANGED <<recordVars, lifecycle_lock, expired, taskVars, listed>>

-----------------------------------------------------------------------------
LockStep(t)  == Stop(t) \/ StopIdle(t)
PowerStep(q) == PowerOff(q) \/ PowerOn(q) \/ PowerRefused(q)
StopStep(t)  == KillTimeout(t) \/ FinishEnd(t)

LaunchStep(q) ==
    \/ (\E s \in Sessions : Admit(q, s)) \/ Refuse(q)
    \/ Launch(q) \/ LaunchFails(q) \/ Ready(q) \/ NotReady(q) \/ FinishPowerOff(q)

ClientStep(q) ==
    \/ Create(q)
    \/ \E s \in Sessions, o \in {"stop", "power_off", "power_on"} : Request(q, o, s)

CloserStep == Close \/ Closed

Next ==
    \/ \E t \in Tasks : LockStep(t) \/ StopStep(t)
    \/ \E q \in Requests : ClientStep(q) \/ PowerStep(q) \/ LaunchStep(q)
    \/ \E s \in Sessions : WorkerExit(s) \/ ReaderExit(s) \/ ReaderFinish(s) \/ Expire(s)
    \/ CleanerScan \/ StopNext(Cleaner) \/ StopNext(Closer) \/ CloserStep

Spec == Init /\ [][Next]_vars

(***************************************************************************)
(* Fairness, as in SessionLifecycle: the event loop resumes coroutines and *)
(* asyncio.Lock wakes its waiters in order, awaits on a worker time out,   *)
(* the kernel reaps a killed process, and the cleanup loop wakes again     *)
(* after its five seconds.  Nothing makes a client call, a session expire, *)
(* a worker exit by itself or on SIGTERM, or the service close.            *)
(***************************************************************************)
Fairness ==
    /\ \A q \in Requests : /\ WF_vars(StopStep(q) \/ LaunchStep(q))
                           /\ SF_vars(LockStep(q) \/ PowerStep(q))
    /\ \A t \in {Cleaner, Closer} : WF_vars(StopStep(t) \/ StopNext(t)) /\ SF_vars(LockStep(t))
    /\ \A s \in Sessions : /\ WF_vars(worker[s] = "killed" /\ WorkerExit(s))
                           /\ WF_vars(ReaderExit(s) \/ ReaderFinish(s))
    /\ WF_vars(CleanerScan) /\ WF_vars(Closed)

FairSpec == Spec /\ Fairness

-----------------------------------------------------------------------------
(* Properties *)

\* No more workers run than there are capacity slots: a slot is free only once
\* its session's worker is gone, whoever ended the session, and a session that
\* a late power_off revived has no flash image left to start a worker from.
WorkersWithinCapacity ==
    Cardinality({s \in Sessions : worker[s] # "none"}) <= MaxSessions

\* One slot per active session (architecture.md).  Not so: a power_off that
\* passed its check before the worker crashed makes the ended session active
\* again after its slot went to another one.
ActiveWithinCapacity == ActiveCount <= MaxSessions

\* A session whose time is over ends, unless the service closes first: neither
\* a stuck worker, nor a request on the same session, nor the sessions stopped
\* before it keep the cleanup loop from it.
ExpiredSessionsEnd ==
    \A s \in Sessions :
        (s \in expired /\ shown[s] \in Active) ~> (shown[s] = "ended" \/ service # "up")

\* When close has returned every session has ended, and a worker that still
\* runs has been told to end, even if close interrupted the stop that told it.
CloseEndsSessions ==
    service = "down" => \A s \in Sessions :
        shown[s] \in {"none", "ended"} /\ ~private[s] /\ worker[s] # "alive"
=============================================================================
