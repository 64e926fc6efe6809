---------------------------- MODULE WorkerBroker ----------------------------
(***************************************************************************)
(* OciWorkerBroker (worker_broker.py) between the session service, which   *)
(* speaks to it through broker_protocol.py, and a Docker daemon.  Each     *)
(* connection asks for one worker of one session; its handler claims the   *)
(* session, runs `docker run --rm --name <session>', relays control        *)
(* frames, reports EXIT, removes the container by name and releases the    *)
(* claim.  A docker command may fail or time out at any time.  Besides the *)
(* handlers there are the reconciliation loop, close, and a crash of the   *)
(* broker followed by its restart.                                         *)
(*                                                                         *)
(* A step is the code between two suspensions, or a docker command that    *)
(* takes effect.  A container has the name of its session: kill, stop and  *)
(* rm act on whichever container has that name.  A handler whose finally   *)
(* clause raises is gone, and its claim stranded: nothing of this process  *)
(* releases it.                                                            *)
(***************************************************************************)
EXTENDS Naturals, FiniteSets, Sequences

CONSTANTS
    Sessions,
    Connections,    \* slots for connections of the service
    MaxWorkers,     \* OciBrokerSettings.max_workers
    MaxControl,     \* bound on control frames under way on one connection
    None,
    Failures        \* which failures happen: subset of {"docker", "crash", "close"}

ASSUME BrokerAssumption ==
    /\ MaxWorkers \in Nat \ {0} /\ MaxControl \in Nat
    /\ None \notin Sessions \cup Connections
    /\ Failures \subseteq {"docker", "crash", "close"}

VARIABLES
    broker,         \* "down", "starting", "serving" or "closing"
    healthy,        \* _runtime_healthy
    active,         \* _active
    stranded,       \* history: claims whose handler raised in its finally clause
    pc,             \* where the handler of a connection is
    session,        \* the session it was started for
    cli,            \* its `docker run' process
    client,         \* the other end: connect_broker_worker, BrokerWorkerProcess
    control,        \* control frames on their way to the handler
    container,      \* session |-> the connection its container runs for
    leaked,         \* history: the removal of the container failed or was skipped
    sweep, listed, kept,    \* _reconcile_loop ("dead" once it raised) and its locals
    cleanup         \* what close still has to clean up, and whether a process is known

brokerVars == <<broker, healthy, active, stranded>>
handlerVars == <<pc, session, cli>>
dockerVars == <<container, leaked>>
sweepVars == <<sweep, listed, kept>>
vars == <<brokerVars, handlerVars, client, control, dockerVars, sweepVars, cleanup>>

Claimed == {"spawn", "spawned", "running", "kill", "exit",
            "abort", "abandon", "rm", "release"}

TypeOK ==
    /\ broker \in {"down", "starting", "serving", "closing"}
    /\ healthy \in BOOLEAN
    /\ active \subseteq Sessions /\ stranded \subseteq active
    /\ pc \in [Connections -> Claimed \cup {"none", "claim"}]
    /\ session \in [Connections -> Sessions \cup {None}]
    /\ cli \in [Connections -> {"none", "starting", "running", "exited"}]
    /\ \A k \in Connections : pc[k] \in {"none", "claim", "spawn"} => cli[k] = "none"
    /\ client \in [Connections -> {"none", "waiting", "attached",
                                   "exited", "refused", "gone"}]
    /\ \A k \in Connections : control[k] \in Seq({"terminate", "kill"})
                                /\ Len(control[k]) <= MaxControl
    /\ container \in [Sessions -> Connections \cup {None}]
    /\ leaked \subseteq {s \in Sessions : container[s] # None}
    /\ sweep \in {"idle", "listed", "removing", "dead"}
    /\ listed \subseteq Sessions /\ kept \subseteq Sessions
    /\ cleanup \subseteq Sessions \X BOOLEAN

Init ==
    /\ broker = "down"
    /\ healthy = FALSE
    /\ active = {} /\ stranded = {}
    /\ pc = [k \in Connections |-> "none"]
    /\ session = [k \in Connections |-> None]
    /\ cli = [k \in Connections |-> "none"]
    /\ client = [k \in Connections |-> "none"]
    /\ control = [k \in Connections |-> <<>>]
    /\ container = [s \in Sessions |-> None]
    /\ leaked = {}
    /\ sweep = "idle" /\ listed = {} /\ kept = {}
    /\ cleanup = {}

Goto(k, label) == pc' = [pc EXCEPT ![k] = label]

-----------------------------------------------------------------------------
(* Docker commands.                                                        *)

\* kill, stop or rm --force: no container has the name afterwards.
Removed(s) ==
    /\ container' = [container EXCEPT ![s] = None]
    /\ leaked' = leaked \ {s}

\* The command fails or times out.
DockerFails(s) ==
    /\ "docker" \in Failures
    /\ leaked' = IF container[s] = None THEN leaked ELSE leaked \cup {s}
    /\ UNCHANGED container

\* _docker_control
DockerControl(s) == Removed(s) \/ DockerFails(s)

\* The daemon creates and starts the container; a name in use is a conflict,
\* on which `docker run' exits.
ContainerStarts(k) ==
    /\ cli[k] = "starting"
    /\ IF container[session[k]] = None
       THEN /\ container' = [container EXCEPT ![session[k]] = k]
            /\ cli' = [cli EXCEPT ![k] = "running"]
       ELSE cli' = [cli EXCEPT ![k] = "exited"] /\ UNCHANGED container
    /\ UNCHANGED <<brokerVars, pc, session, client, control, leaked, sweepVars, cleanup>>

\* The firmware's QEMU ends, and --rm removes its container.
ContainerEnds(k) ==
    /\ cli[k] = "running" /\ container[session[k]] = k
    /\ Removed(session[k])
    /\ UNCHANGED <<brokerVars, handlerVars, client, control, sweepVars, cleanup>>

\* `docker run' ends after its container ...
CliExits(k) ==
    /\ cli[k] = "running" /\ container[session[k]] # k
    /\ cli' = [cli EXCEPT ![k] = "exited"]
    /\ UNCHANGED <<brokerVars, pc, session, client, control, dockerVars, sweepVars, cleanup>>

\* ... or loses the daemon, and leaves its container behind.
CliDies(k) ==
    /\ "docker" \in Failures
    /\ cli[k] \in {"starting", "running"}
    /\ cli' = [cli EXCEPT ![k] = "exited"]
    /\ UNCHANGED <<brokerVars, pc, session, client, control, dockerVars, sweepVars, cleanup>>

-----------------------------------------------------------------------------
(* The service's end of a connection.                                      *)

\* connect_broker_worker sends START.
Connect(k, s) ==
    /\ broker = "serving"
    /\ pc[k] = "none" /\ client[k] \notin {"waiting", "attached"}
    /\ client' = [client EXCEPT ![k] = "waiting"]
    /\ session' = [session EXCEPT ![k] = s]
    /\ Goto(k, "claim")
    /\ control' = [control EXCEPT ![k] = <<>>]
    /\ UNCHANGED <<brokerVars, cli, dockerVars, sweepVars, cleanup>>

\* The answer takes too long, or the service goes away.
Disconnect(k) ==
    /\ client[k] \in {"waiting", "attached"}
    /\ client' = [client EXCEPT ![k] = "gone"]
    /\ UNCHANGED <<brokerVars, handlerVars, control, dockerVars, sweepVars, cleanup>>

\* BrokerWorkerProcess.terminate, and kill when that was not enough.
SendControl(k) ==
    /\ client[k] = "attached" /\ Len(control[k]) < MaxControl
    /\ control' = [control EXCEPT ![k] =
                     Append(@, IF @ = <<>> THEN "terminate" ELSE "kill")]
    /\ UNCHANGED <<brokerVars, handlerVars, client, dockerVars, sweepVars, cleanup>>

-----------------------------------------------------------------------------
(* The handler of a connection: _handle_connection, _run_worker.           *)

\* Mutant: the capacity is not checked under the lock.
MayClaimUnchecked(s) == healthy /\ s \notin active

MayClaim(s) == healthy /\ s \notin active /\ Cardinality(active) < MaxWorkers

\* ERROR, if the client is still there.
Refused(k) == IF client[k] = "waiting" THEN "refused" ELSE client[k]

Claim(k) ==
    /\ pc[k] = "claim"
    /\ IF MayClaim(session[k])
       THEN /\ active' = active \cup {session[k]}
            /\ Goto(k, "spawn")
            /\ UNCHANGED <<session, client>>
       ELSE /\ client' = [client EXCEPT ![k] = Refused(k)]
            /\ Goto(k, "none")
            /\ session' = [session EXCEPT ![k] = None]
            /\ UNCHANGED active
    /\ UNCHANGED <<broker, healthy, stranded, cli, control, dockerVars, sweepVars, cleanup>>

\* The session directory breaks the policy (ERROR follows the release), or
\* `docker' cannot be executed (ERROR at once).
SpawnFails(k) ==
    /\ pc[k] = "spawn"
    /\ Goto(k, "rm")
    /\ client' = client \/ client' = [client EXCEPT ![k] = Refused(k)]
    /\ UNCHANGED <<brokerVars, session, cli, control, dockerVars, sweepVars, cleanup>>

\* create_subprocess_exec: `docker run' exists before the handler goes on.
Spawn(k) ==
    /\ pc[k] = "spawn"
    /\ Goto(k, "spawned")
    /\ cli' = [cli EXCEPT ![k] = "starting"]
    /\ UNCHANGED <<brokerVars, session, client, control, dockerVars, sweepVars, cleanup>>

\* The process is registered and STARTED sent, to whoever still listens.
Started(k) ==
    /\ pc[k] = "spawned"
    /\ Goto(k, "running")
    /\ client' = [client EXCEPT ![k] = IF @ = "waiting" THEN "attached" ELSE @]
    /\ UNCHANGED <<brokerVars, session, cli, control, dockerVars, sweepVars, cleanup>>

\* The client has closed the connection and STARTED raises: on to the finally
\* clause, which kills a `docker run' that has not exited.
StartedFails(k) ==
    /\ pc[k] = "spawned" /\ client[k] = "gone"
    /\ Goto(k, IF cli[k] = "exited" THEN "rm" ELSE "abort")
    /\ UNCHANGED <<brokerVars, session, cli, client, control, dockerVars, sweepVars, cleanup>>

\* docker kill; `docker run' may exit in the meantime.
AbortKill(k) ==
    /\ pc[k] = "abort"
    /\ DockerControl(session[k])
    /\ Goto(k, "abandon")
    /\ UNCHANGED <<brokerVars, session, cli, client, control, sweepVars, cleanup>>

\* process.kill() and wait().
Abandon(k) ==
    /\ pc[k] = "abandon"
    /\ cli' = [cli EXCEPT ![k] = "exited"]
    /\ Goto(k, "rm")
    /\ UNCHANGED <<brokerVars, session, client, control, dockerVars, sweepVars, cleanup>>

\* process.kill() of a `docker run' that asyncio has already reaped raises
\* ProcessLookupError: neither rm nor _release follows.
AbandonRaises(k) ==
    /\ pc[k] = "abandon" /\ cli[k] = "exited"
    /\ stranded' = stranded \cup {session[k]}
    /\ leaked' = IF container[session[k]] = None THEN leaked ELSE leaked \cup {session[k]}
    /\ Goto(k, "none")
    /\ session' = [session EXCEPT ![k] = None]
    /\ cli' = [cli EXCEPT ![k] = "none"]
    /\ UNCHANGED <<broker, healthy, active, client, control, container, sweepVars, cleanup>>

\* _relay_control: docker stop or docker kill.
Relay(k) ==
    /\ pc[k] = "running" /\ control[k] # <<>> /\ cli[k] # "exited"
    /\ control' = [control EXCEPT ![k] = Tail(@)]
    /\ DockerControl(session[k])
    /\ UNCHANGED <<brokerVars, handlerVars, client, sweepVars, cleanup>>

\* The client is gone, or the wall time or the output budget is used up.
Supervise(k) ==
    /\ pc[k] = "running" /\ cli[k] # "exited"
    /\ Goto(k, "kill")
    /\ UNCHANGED <<brokerVars, session, cli, client, control, dockerVars, sweepVars, cleanup>>

\* Mutant: waits for `docker run' although docker kill has failed.
KillWaits(k) ==
    /\ pc[k] = "kill"
    /\ DockerControl(session[k])
    /\ cli[k] = "exited"
    /\ Goto(k, "exit")
    /\ UNCHANGED <<brokerVars, session, cli, client, control, sweepVars, cleanup>>

\* docker kill, then process.kill() of `docker run' whatever came of it.
Kill(k) ==
    /\ pc[k] = "kill"
    /\ DockerControl(session[k])
    /\ cli' = [cli EXCEPT ![k] = "exited"]
    /\ Goto(k, "exit")
    /\ UNCHANGED <<brokerVars, session, client, control, sweepVars, cleanup>>

WorkerEnded(k) ==
    /\ pc[k] = "running" /\ cli[k] = "exited"
    /\ Goto(k, "exit")
    /\ UNCHANGED <<brokerVars, session, cli, client, control, dockerVars, sweepVars, cleanup>>

\* EXIT: wait() of the service returns.
SendExit(k) ==
    /\ pc[k] = "exit"
    /\ client' = [client EXCEPT ![k] = IF @ = "attached" THEN "exited" ELSE @]
    /\ Goto(k, "rm")
    /\ UNCHANGED <<brokerVars, session, cli, control, dockerVars, sweepVars, cleanup>>

\* Mutant: trusts --rm.
RemoveNothing(k) ==
    /\ pc[k] = "rm"
    /\ Goto(k, "release")
    /\ UNCHANGED <<brokerVars, session, cli, client, control, dockerVars, sweepVars, cleanup>>

Remove(k) ==
    /\ pc[k] = "rm"
    /\ DockerControl(session[k])
    /\ Goto(k, "release")
    /\ UNCHANGED <<brokerVars, session, cli, client, control, sweepVars, cleanup>>

\* Mutant: _processes keeps its entry.
ReleaseKeepsProcess(k) ==
    /\ pc[k] = "release"
    /\ active' = active \ {session[k]}
    /\ client' = [client EXCEPT ![k] = Refused(k)]
    /\ Goto(k, "none")
    /\ session' = [session EXCEPT ![k] = None]
    /\ UNCHANGED <<broker, healthy, stranded, cli, control, dockerVars, sweepVars, cleanup>>

Release(k) ==
    /\ pc[k] = "release"
    /\ active' = active \ {session[k]}
    /\ client' = [client EXCEPT ![k] = Refused(k)]
    /\ Goto(k, "none")
    /\ session' = [session EXCEPT ![k] = None]
    /\ cli' = [cli EXCEPT ![k] = "none"]
    /\ UNCHANGED <<broker, healthy, stranded, control, dockerVars, sweepVars, cleanup>>

-----------------------------------------------------------------------------
(* Reconciliation: reconcile_managed_containers in _reconcile_loop.        *)

SweepList ==
    /\ broker = "serving" /\ sweep = "idle"
    /\ sweep' = "listed"
    /\ listed' = {s \in Sessions : container[s] # None}
    /\ UNCHANGED <<brokerVars, handlerVars, client, control, dockerVars, kept, cleanup>>

SweepSnapshot ==
    /\ sweep = "listed"
    /\ sweep' = "removing"
    /\ kept' = active
    /\ UNCHANGED <<brokerVars, handlerVars, client, control, dockerVars, listed, cleanup>>

\* Mutant: rm without --force leaves a running container alone.
SweepRemoveStopped(s) ==
    /\ sweep = "removing" /\ s \in listed \ kept
    /\ listed' = listed \ {s}
    /\ UNCHANGED <<brokerVars, handlerVars, client, control, dockerVars, sweep, kept, cleanup>>

SweepRemove(s) ==
    /\ sweep = "removing" /\ s \in listed \ kept
    /\ Removed(s)
    /\ listed' = listed \ {s}
    /\ UNCHANGED <<brokerVars, handlerVars, client, control, sweep, kept, cleanup>>

\* Every container was kept or removed: the runtime is healthy.
SweepEnds ==
    /\ sweep = "removing" /\ listed \subseteq kept
    /\ healthy' = TRUE
    /\ sweep' = "idle" /\ listed' = {} /\ kept' = {}
    /\ UNCHANGED <<broker, active, stranded, handlerVars, client, control, dockerVars, cleanup>>

\* OciPolicyError, in verification or a removal: no new workers until the
\* next round.
SweepFails ==
    /\ "docker" \in Failures
    /\ broker = "serving" /\ sweep # "dead"
    /\ healthy' = FALSE
    /\ sweep' = "idle" /\ listed' = {} /\ kept' = {}
    /\ UNCHANGED <<broker, active, stranded, handlerVars, client, control, dockerVars, cleanup>>

\* OSError, in _docker_output: it ends _reconcile_loop, and healthy stays.
SweepDies ==
    /\ "docker" \in Failures
    /\ broker = "serving" /\ sweep = "idle"
    /\ sweep' = "dead"
    /\ UNCHANGED <<brokerVars, handlerVars, client, control, dockerVars, listed, kept, cleanup>>

-----------------------------------------------------------------------------
(* The life of the broker.                                                 *)

BeginStart ==
    /\ broker = "down"
    /\ broker' = "starting"
    /\ UNCHANGED <<healthy, active, stranded, handlerVars, client, control, dockerVars,
                   sweepVars, cleanup>>

\* start: every managed container is removed before the socket exists.
StartupRemove(s) ==
    /\ broker = "starting" /\ container[s] # None
    /\ Removed(s)
    /\ UNCHANGED <<brokerVars, handlerVars, client, control, sweepVars, cleanup>>

StartupFails ==
    /\ "docker" \in Failures
    /\ broker = "starting"
    /\ broker' = "down"
    /\ UNCHANGED <<healthy, active, stranded, handlerVars, client, control, dockerVars,
                   sweepVars, cleanup>>

Serve ==
    /\ broker = "starting"
    /\ \A s \in Sessions : container[s] = None
    /\ broker' = "serving"
    /\ healthy' = TRUE
    /\ UNCHANGED <<active, stranded, handlerVars, client, control, dockerVars, sweepVars, cleanup>>

\* _processes has an entry for the session.
Registered(s) ==
    \E k \in Connections : session[k] = s /\ cli[k] # "none" /\ pc[k] # "spawned"

\* close: no new claims, no sweep, and copies of _active and _processes.
BeginClose ==
    /\ "close" \in Failures
    /\ broker = "serving"
    /\ broker' = "closing"
    /\ healthy' = FALSE
    /\ sweep' = "idle" /\ listed' = {} /\ kept' = {}
    /\ cleanup' = {<<s, Registered(s)>> : s \in active}
    /\ UNCHANGED <<active, stranded, handlerVars, client, control, dockerVars>>

\* _force_cleanup, while the handler of the session goes on; a process that
\* was not registered in time is not killed.
ForceCleanup(s, registered) ==
    /\ broker = "closing" /\ <<s, registered>> \in cleanup
    /\ DockerControl(s)
    /\ cli' = [k \in Connections |->
                 IF registered /\ session[k] = s /\ cli[k] \in {"starting", "running"}
                 THEN "exited" ELSE cli[k]]
    /\ cleanup' = cleanup \ {<<s, registered>>}
    /\ UNCHANGED <<brokerVars, pc, session, client, control, sweepVars>>

\* wait_closed: every connection has ended, and the process with them.
Closed ==
    /\ broker = "closing" /\ cleanup = {}
    /\ \A k \in Connections : pc[k] = "none"
    /\ broker' = "down"
    /\ active' = {} /\ stranded' = {}
    /\ UNCHANGED <<healthy, handlerVars, client, control, dockerVars, sweepVars, cleanup>>

\* The broker process dies; containers and clients are on their own.
Crash ==
    /\ "crash" \in Failures
    /\ broker \in {"serving", "closing"}
    /\ broker' = "down"
    /\ healthy' = FALSE
    /\ active' = {} /\ stranded' = {}
    /\ pc' = [k \in Connections |-> "none"]
    /\ session' = [k \in Connections |-> None]
    /\ cli' = [k \in Connections |-> "none"]
    /\ client' = [k \in Connections |->
                    IF client[k] \in {"waiting", "attached"} THEN "gone" ELSE client[k]]
    /\ sweep' = "idle" /\ listed' = {} /\ kept' = {}
    /\ cleanup' = {}
    /\ UNCHANGED <<control, dockerVars>>

-----------------------------------------------------------------------------
Handler(k) ==
    \/ Claim(k) \/ Spawn(k) \/ SpawnFails(k) \/ Started(k) \/ StartedFails(k)
    \/ WorkerEnded(k) \/ Kill(k) \/ SendExit(k)
    \/ AbortKill(k) \/ Abandon(k) \/ AbandonRaises(k) \/ Remove(k) \/ Release(k)

Daemon(k) == ContainerStarts(k) \/ ContainerEnds(k) \/ CliExits(k) \/ CliDies(k)

Core(k) == \/ \E s \in Sessions : Connect(k, s)
           \/ Disconnect(k) \/ SendControl(k)

Broker ==
    \/ SweepList \/ SweepSnapshot \/ SweepEnds \/ SweepFails \/ SweepDies
    \/ BeginStart \/ StartupFails \/ Serve \/ BeginClose \/ Closed \/ Crash
    \/ \E s \in Sessions :
           \/ SweepRemove(s) \/ StartupRemove(s)
           \/ \E registered \in BOOLEAN : ForceCleanup(s, registered)

Next == \/ Broker
        \/ \E k \in Connections :
               Handler(k) \/ Relay(k) \/ Supervise(k) \/ Daemon(k) \/ Core(k)

Spec == Init /\ [][Next]_vars

\* The loop resumes handlers, sweeps and close; wall time ends a worker; the
\* broker is restarted; docker does not fail for ever.
FairSpec ==
    /\ Spec
    /\ \A k \in Connections : /\ WF_vars(Handler(k))
                              /\ WF_vars(Supervise(k) \/ WorkerEnded(k))
                              /\ SF_vars(Remove(k) /\ Removed(session[k]))
    /\ WF_vars(BeginStart) /\ SF_vars(Serve)
    /\ WF_vars(SweepList) /\ SF_vars(SweepSnapshot) /\ SF_vars(SweepEnds)
    /\ WF_vars(Closed)
    /\ \A s \in Sessions : /\ SF_vars(SweepRemove(s))
                           /\ SF_vars(StartupRemove(s))
                           /\ WF_vars(\E registered \in BOOLEAN : ForceCleanup(s, registered))

-----------------------------------------------------------------------------
(* A session is active as long as exactly one handler is between its claim *)
(* and its release, and there are never more of them than workers allowed: *)
(* nothing is claimed twice and no claim is lost, whatever fails on the    *)
(* way, except a claim whose handler raised in the finally clause, which   *)
(* has no handler any more (_claim, _release, _run_worker).                *)
ClaimsMatchHandlers ==
    /\ Cardinality(active) <= MaxWorkers
    /\ \A s \in Sessions :
           Cardinality({k \in Connections : pc[k] \in Claimed /\ session[k] = s})
               = IF s \in active \ stranded THEN 1 ELSE 0

(* While the broker serves, every container is claimed by a handler that   *)
(* will remove it, or is one whose removal failed or was skipped; a crash  *)
(* of the broker leaves none (start, the finally clause of _run_worker).   *)
ContainersAreClaimed ==
    broker = "serving" =>
        \A s \in Sessions : container[s] # None => s \in (active \ stranded) \cup leaked

(* Every claim is released again, also when docker fails and whether or    *)
(* not the client is still there, unless the finally clause raised.        *)
ClaimsAreReleased ==
    \A s \in Sessions : s \in active ~> (s \notin active \/ s \in stranded)

(* A container that was left behind is removed some day, unless the loop   *)
(* that does it has died or a stranded claim makes it keep the container.  *)
LeftoversAreRemoved ==
    \A s \in Sessions : s \in leaked ~> (s \notin leaked \/ sweep = "dead" \/ s \in stranded)

(* "Power on starts a fresh QEMU process from that same image"             *)
(* (docs/architecture.md): a healthy broker does not refuse a worker for   *)
(* the sake of one whose exit it has already reported.                     *)
RestartIsAccepted ==
    [][\A k \in Connections :
          (pc[k] = "claim" /\ client[k] = "waiting" /\ client'[k] = "refused" /\ healthy)
              => \E j \in Connections : pc[j] \in Claimed /\ client[j] # "exited"]_vars
=============================================================================
