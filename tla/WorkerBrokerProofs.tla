------------------------- MODULE WorkerBrokerProofs -------------------------
(***************************************************************************)
(* Proofs about WorkerBroker, for every number of sessions, connections    *)
(* and workers and whichever of docker, the broker and its close fail.     *)
(***************************************************************************)
EXTENDS WorkerBroker, FiniteSetTheorems, TLAPS

TypeInv == TypeOK /\ control \in [Connections -> Seq({"terminate", "kill"})]

\* A claim belongs to one handler unless it is stranded, and a handler past its
\* claim has it.
Exclusive ==
    \A j, k \in Connections :
        (pc[j] \in Claimed /\ pc[k] \in Claimed /\ session[j] = session[k]) => j = k

HandlersClaim ==
    /\ \A k \in Connections : pc[k] # "none" => session[k] \in Sessions
    /\ \A k \in Connections : pc[k] \in Claimed => session[k] \in active \ stranded

ClaimsHaveHandlers ==
    \A s \in active \ stranded : \E k \in Connections : pc[k] \in Claimed /\ session[k] = s

WithinCapacity == IsFiniteSet(active) /\ Cardinality(active) <= MaxWorkers

\* A broker that does not serve yet has no handlers.
DownIsQuiet ==
    broker \in {"down", "starting"} => \A k \in Connections : pc[k] = "none"

\* `docker run' is over when the container is removed, so that no container
\* appears between its removal and the release of the claim.
RunIsOver ==
    \A k \in Connections :
        pc[k] \in {"exit", "rm", "release"} => cli[k] \in {"none", "exited"}

RemovedAtRelease ==
    \A k \in Connections :
        pc[k] = "release" => \/ container[session[k]] = None
                             \/ session[k] \in leaked

ClaimInv ==
    /\ TypeInv /\ Exclusive /\ HandlersClaim /\ ClaimsHaveHandlers /\ WithinCapacity
    /\ DownIsQuiet /\ RunIsOver /\ RemovedAtRelease /\ ContainersAreClaimed

\* What a docker command does to the containers, whether or not it succeeds.
LEMMA DockerControlEffect ==
    ASSUME TypeInv, NEW s \in Sessions, DockerControl(s)
    PROVE  /\ container' \in [Sessions -> Connections \cup {None}]
           /\ leaked' \subseteq {x \in Sessions : container'[x] # None}
           /\ \A x \in Sessions : container'[x] \in {container[x], None}
           /\ \A x \in Sessions : x \in leaked => container'[x] = None \/ x \in leaked'
           /\ container'[s] = None \/ s \in leaked'
<1>1. CASE Removed(s)
  BY <1>1 DEF Removed, TypeInv, TypeOK
<1>2. CASE DockerFails(s)
  BY <1>2 DEF DockerFails, TypeInv, TypeOK
<1> QED
  BY <1>1, <1>2 DEF DockerControl

\* The two outcomes of a claim ...
Granted(k) ==
    /\ pc[k] = "claim"
    /\ session[k] \notin active /\ Cardinality(active) < MaxWorkers
    /\ active' = active \cup {session[k]}
    /\ Goto(k, "spawn")
    /\ UNCHANGED <<broker, healthy, stranded, session, cli, client, control, dockerVars,
                   sweepVars, cleanup>>

Denied(k) ==
    /\ pc[k] = "claim"
    /\ client' = [client EXCEPT ![k] = Refused(k)]
    /\ Goto(k, "none")
    /\ session' = [session EXCEPT ![k] = None]
    /\ UNCHANGED <<brokerVars, cli, control, dockerVars, sweepVars, cleanup>>

LEMMA ClaimOutcomes == \A k \in Connections : Claim(k) => Granted(k) \/ Denied(k)
  BY DEF Claim, Granted, Denied, MayClaim, brokerVars

\* ... and of the start of a container.
Created(k) ==
    /\ cli[k] = "starting" /\ container[session[k]] = None
    /\ container' = [container EXCEPT ![session[k]] = k]
    /\ cli' = [cli EXCEPT ![k] = "running"]
    /\ UNCHANGED <<brokerVars, pc, session, client, control, leaked, sweepVars, cleanup>>

Conflicts(k) ==
    /\ cli[k] = "starting" /\ container[session[k]] # None
    /\ cli' = [cli EXCEPT ![k] = "exited"]
    /\ UNCHANGED <<brokerVars, pc, session, client, control, dockerVars, sweepVars, cleanup>>

LEMMA StartOutcomes ==
    \A k \in Connections : ContainerStarts(k) => Created(k) \/ Conflicts(k)
  BY DEF ContainerStarts, Created, Conflicts, dockerVars

\* The steps of a handler ...
LEMMA HandlerStep ==
    ASSUME ClaimInv, NEW k \in Connections, Handler(k)
    PROVE  ClaimInv'
<1>1. CASE Granted(k)
  <2>1. TypeInv'
    BY <1>1, BrokerAssumption DEF Granted, ClaimInv, TypeInv, Exclusive,
       HandlersClaim, RemovedAtRelease, ContainersAreClaimed, TypeOK, Claimed,
       brokerVars, handlerVars, dockerVars, sweepVars, Removed, DockerFails,
       DockerControl, Goto
  <2>2. Exclusive'
    BY <1>1, BrokerAssumption DEF Granted, ClaimInv, TypeInv, Exclusive,
       HandlersClaim, Removed, DockerFails, DockerControl, Goto
  <2>3. HandlersClaim'
    BY <1>1, BrokerAssumption DEF Granted, ClaimInv, TypeInv, Exclusive,
       HandlersClaim, RemovedAtRelease, ContainersAreClaimed, TypeOK, Claimed,
       Removed, DockerFails, DockerControl, Goto
  <2>4. ClaimsHaveHandlers'
    BY <1>1, BrokerAssumption DEF Granted, ClaimInv, TypeInv, Exclusive,
       HandlersClaim, ClaimsHaveHandlers, WithinCapacity, DownIsQuiet, RunIsOver,
       RemovedAtRelease, ContainersAreClaimed, TypeOK, Claimed, Removed, DockerFails,
       DockerControl, Goto
  <2>5. WithinCapacity'
    <3>1. /\ active' = active \cup {session[k]}
          /\ session[k] \notin active /\ Cardinality(active) < MaxWorkers
      BY <1>1 DEF Granted
    <3>2. IsFiniteSet(active')
      BY <3>1, FS_AddElement DEF ClaimInv, WithinCapacity
    <3>3. Cardinality(active') = Cardinality(active) + 1
      BY <3>1, FS_AddElement DEF ClaimInv, WithinCapacity
    <3>4. Cardinality(active) \in Nat
      BY FS_CardinalityType DEF ClaimInv, WithinCapacity
    <3> QED
      BY <3>1, <3>2, <3>3, <3>4, BrokerAssumption DEF WithinCapacity
  <2>6. DownIsQuiet'
    BY <1>1, BrokerAssumption DEF Granted, ClaimInv, TypeInv, Exclusive,
       HandlersClaim, ClaimsHaveHandlers, WithinCapacity, DownIsQuiet, RunIsOver
  <2>7. RunIsOver'
    BY <1>1, BrokerAssumption DEF Granted, ClaimInv, TypeInv, Exclusive,
       HandlersClaim, ClaimsHaveHandlers, WithinCapacity, DownIsQuiet, RunIsOver,
       Removed, DockerFails, DockerControl, Goto
  <2>8. RemovedAtRelease'
    BY <1>1, BrokerAssumption DEF Granted, ClaimInv, TypeInv, Exclusive,
       HandlersClaim, RemovedAtRelease, ContainersAreClaimed, TypeOK, Claimed,
       brokerVars, handlerVars, dockerVars, sweepVars, Removed, DockerFails,
       DockerControl, Goto
  <2>9. ContainersAreClaimed'
    BY <1>1, BrokerAssumption DEF Granted, ClaimInv, TypeInv, Exclusive,
       HandlersClaim, RemovedAtRelease, ContainersAreClaimed, TypeOK, Claimed,
       brokerVars, handlerVars, dockerVars, sweepVars
  <2> QED
    BY <2>1, <2>2, <2>3, <2>4, <2>5, <2>6, <2>7, <2>8, <2>9 DEF ClaimInv
<1>2. CASE Denied(k)
  <2>1. TypeInv'
    BY <1>2, BrokerAssumption DEF Denied, Refused, ClaimInv, TypeInv, Exclusive,
       HandlersClaim, RemovedAtRelease, ContainersAreClaimed, TypeOK, Claimed,
       brokerVars, handlerVars, dockerVars, sweepVars, Removed, DockerFails,
       DockerControl, Goto
  <2>2. Exclusive'
    BY <1>2, BrokerAssumption DEF Denied, Refused, ClaimInv, TypeInv, Exclusive,
       HandlersClaim, RemovedAtRelease, ContainersAreClaimed, TypeOK, Claimed,
       Removed, DockerFails, DockerControl, Goto
  <2>3. HandlersClaim'
    BY <1>2, BrokerAssumption DEF Denied, Refused, ClaimInv, TypeInv, Exclusive,
       HandlersClaim, RemovedAtRelease, ContainersAreClaimed, TypeOK, Claimed,
       brokerVars, handlerVars, dockerVars, sweepVars, Removed, DockerFails,
       DockerControl, Goto
  <2>4. ClaimsHaveHandlers'
    BY <1>2, BrokerAssumption DEF Denied, Refused, ClaimInv, TypeInv, Exclusive,
       HandlersClaim, ClaimsHaveHandlers, WithinCapacity, DownIsQuiet, RunIsOver,
       RemovedAtRelease, ContainersAreClaimed, TypeOK, Claimed, brokerVars,
       handlerVars, dockerVars, sweepVars, Removed, DockerFails, DockerControl, Goto
  <2>5. WithinCapacity'
    BY <1>2, BrokerAssumption DEF Denied, Refused, ClaimInv, TypeInv, Exclusive,
       HandlersClaim, ClaimsHaveHandlers, WithinCapacity, DownIsQuiet, RunIsOver,
       brokerVars, handlerVars, dockerVars, sweepVars
  <2>6. DownIsQuiet'
    BY <1>2, BrokerAssumption DEF Denied, Refused, ClaimInv, TypeInv, Exclusive,
       HandlersClaim, ClaimsHaveHandlers, WithinCapacity, DownIsQuiet, RunIsOver,
       brokerVars, handlerVars, dockerVars, sweepVars
  <2>7. RunIsOver'
    BY <1>2, BrokerAssumption DEF Denied, Refused, ClaimInv, TypeInv, Exclusive,
       HandlersClaim, ClaimsHaveHandlers, WithinCapacity, DownIsQuiet, RunIsOver,
       Removed, DockerFails, DockerControl, Goto
  <2>8. RemovedAtRelease'
    BY <1>2, BrokerAssumption DEF Denied, Refused, ClaimInv, TypeInv, Exclusive,
       HandlersClaim, RemovedAtRelease, ContainersAreClaimed, TypeOK, Claimed,
       brokerVars, handlerVars, dockerVars, sweepVars, Removed, DockerFails,
       DockerControl, Goto
  <2>9. ContainersAreClaimed'
    BY <1>2, BrokerAssumption DEF Denied, Refused, ClaimInv, TypeInv, Exclusive,
       HandlersClaim, RemovedAtRelease, ContainersAreClaimed, TypeOK, Claimed,
       brokerVars, handlerVars, dockerVars, sweepVars
  <2> QED
    BY <2>1, <2>2, <2>3, <2>4, <2>5, <2>6, <2>7, <2>8, <2>9 DEF ClaimInv
<1>3. CASE Spawn(k)
  <2>1. /\ WithinCapacity' /\ ContainersAreClaimed'
    BY <1>3, BrokerAssumption DEF Spawn, ClaimInv, TypeInv, Exclusive, HandlersClaim,
       ClaimsHaveHandlers, WithinCapacity, DownIsQuiet, RunIsOver, RemovedAtRelease,
       ContainersAreClaimed, TypeOK, Claimed, brokerVars, handlerVars, dockerVars,
       sweepVars
  <2>2. TypeInv'
    BY <1>3, BrokerAssumption DEF Spawn, ClaimInv, TypeInv, Exclusive, HandlersClaim,
       RemovedAtRelease, ContainersAreClaimed, TypeOK, Claimed, brokerVars,
       handlerVars, dockerVars, sweepVars, Removed, DockerFails, DockerControl, Goto
  <2>3. Exclusive'
    BY <1>3, BrokerAssumption DEF Spawn, ClaimInv, TypeInv, Exclusive, HandlersClaim,
       RemovedAtRelease, ContainersAreClaimed, TypeOK, Claimed, Removed, DockerFails,
       DockerControl, Goto
  <2>4. HandlersClaim'
    BY <1>3, BrokerAssumption DEF Spawn, ClaimInv, TypeInv, Exclusive, HandlersClaim,
       RemovedAtRelease, ContainersAreClaimed, TypeOK, Claimed, brokerVars,
       handlerVars, dockerVars, sweepVars, Removed, DockerFails, DockerControl, Goto
  <2>5. ClaimsHaveHandlers'
    BY <1>3, BrokerAssumption DEF Spawn, ClaimInv, TypeInv, Exclusive, HandlersClaim,
       ClaimsHaveHandlers, WithinCapacity, DownIsQuiet, RunIsOver, RemovedAtRelease,
       ContainersAreClaimed, TypeOK, Claimed, brokerVars, handlerVars, dockerVars,
       sweepVars, Removed, DockerFails, DockerControl, Goto
  <2>6. DownIsQuiet'
    BY <1>3, BrokerAssumption DEF Spawn, ClaimInv, TypeInv, Exclusive, HandlersClaim,
       ClaimsHaveHandlers, WithinCapacity, DownIsQuiet, RunIsOver, brokerVars,
       handlerVars, dockerVars, sweepVars
  <2>7. RunIsOver'
    BY <1>3, BrokerAssumption DEF Spawn, ClaimInv, TypeInv, Exclusive, HandlersClaim,
       ClaimsHaveHandlers, WithinCapacity, DownIsQuiet, RunIsOver, Removed,
       DockerFails, DockerControl, Goto
  <2>8. RemovedAtRelease'
    BY <1>3, BrokerAssumption DEF Spawn, ClaimInv, TypeInv, Exclusive, HandlersClaim,
       RemovedAtRelease, ContainersAreClaimed, TypeOK, Claimed, brokerVars,
       handlerVars, dockerVars, sweepVars, Removed, DockerFails, DockerControl, Goto
  <2> QED
    BY <2>1, <2>2, <2>3, <2>4, <2>5, <2>6, <2>7, <2>8 DEF ClaimInv
<1>4. CASE SpawnFails(k)
  <2>1. /\ WithinCapacity' /\ ContainersAreClaimed'
    BY <1>4, BrokerAssumption DEF SpawnFails, Refused, ClaimInv, TypeInv, Exclusive,
       HandlersClaim, ClaimsHaveHandlers, WithinCapacity, DownIsQuiet, RunIsOver,
       RemovedAtRelease, ContainersAreClaimed, TypeOK, Claimed, brokerVars,
       handlerVars, dockerVars, sweepVars
  <2>2. TypeInv'
    BY <1>4, BrokerAssumption DEF SpawnFails, Refused, ClaimInv, TypeInv, Exclusive,
       HandlersClaim, RemovedAtRelease, ContainersAreClaimed, TypeOK, Claimed,
       brokerVars, handlerVars, dockerVars, sweepVars, Removed, DockerFails,
       DockerControl, Goto
  <2>3. Exclusive'
    BY <1>4, BrokerAssumption DEF SpawnFails, Refused, ClaimInv, TypeInv, Exclusive,
       HandlersClaim, RemovedAtRelease, ContainersAreClaimed, TypeOK, Claimed,
       Removed, DockerFails, DockerControl, Goto
  <2>4. HandlersClaim'
    BY <1>4, BrokerAssumption DEF SpawnFails, Refused, ClaimInv, TypeInv, Exclusive,
       HandlersClaim, RemovedAtRelease, ContainersAreClaimed, TypeOK, Claimed,
       brokerVars, handlerVars, dockerVars, sweepVars, Removed, DockerFails,
       DockerControl, Goto
  <2>5. ClaimsHaveHandlers'
    BY <1>4, BrokerAssumption DEF SpawnFails, Refused, ClaimInv, TypeInv, Exclusive,
       HandlersClaim, ClaimsHaveHandlers, WithinCapacity, DownIsQuiet, RunIsOver,
       RemovedAtRelease, ContainersAreClaimed, TypeOK, Claimed, brokerVars,
       handlerVars, dockerVars, sweepVars, Removed, DockerFails, DockerControl, Goto
  <2>6. DownIsQuiet'
    BY <1>4, BrokerAssumption DEF SpawnFails, Refused, ClaimInv, TypeInv, Exclusive,
       HandlersClaim, ClaimsHaveHandlers, WithinCapacity, DownIsQuiet, RunIsOver,
       brokerVars, handlerVars, dockerVars, sweepVars
  <2>7. RunIsOver'
    BY <1>4, BrokerAssumption DEF SpawnFails, Refused, ClaimInv, TypeInv, Exclusive,
       HandlersClaim, ClaimsHaveHandlers, WithinCapacity, DownIsQuiet, RunIsOver,
       RemovedAtRelease, ContainersAreClaimed, TypeOK, Claimed, Removed, DockerFails,
       DockerControl, Goto
  <2>8. RemovedAtRelease'
    BY <1>4, BrokerAssumption DEF SpawnFails, Refused, ClaimInv, TypeInv, Exclusive,
       HandlersClaim, RemovedAtRelease, ContainersAreClaimed, TypeOK, Claimed,
       brokerVars, handlerVars, dockerVars, sweepVars, Removed, DockerFails,
       DockerControl, Goto
  <2> QED
    BY <2>1, <2>2, <2>3, <2>4, <2>5, <2>6, <2>7, <2>8 DEF ClaimInv
<1>5. CASE Started(k)
  <2>1. /\ WithinCapacity' /\ ContainersAreClaimed'
    BY <1>5, BrokerAssumption DEF Started, ClaimInv, TypeInv, Exclusive,
       HandlersClaim, ClaimsHaveHandlers, WithinCapacity, DownIsQuiet, RunIsOver,
       RemovedAtRelease, ContainersAreClaimed, TypeOK, Claimed, brokerVars,
       handlerVars, dockerVars, sweepVars
  <2>2. TypeInv'
    BY <1>5, BrokerAssumption DEF Started, ClaimInv, TypeInv, Exclusive,
       HandlersClaim, RemovedAtRelease, ContainersAreClaimed, TypeOK, Claimed,
       brokerVars, handlerVars, dockerVars, sweepVars, Removed, DockerFails,
       DockerControl, Goto
  <2>3. Exclusive'
    BY <1>5, BrokerAssumption DEF Started, ClaimInv, TypeInv, Exclusive,
       HandlersClaim, RemovedAtRelease, ContainersAreClaimed, TypeOK, Claimed,
       Removed, DockerFails, DockerControl, Goto
  <2>4. HandlersClaim'
    BY <1>5, BrokerAssumption DEF Started, ClaimInv, TypeInv, Exclusive,
       HandlersClaim, RemovedAtRelease, ContainersAreClaimed, TypeOK, Claimed,
       brokerVars, handlerVars, dockerVars, sweepVars, Removed, DockerFails,
       DockerControl, Goto
  <2>5. ClaimsHaveHandlers'
    BY <1>5, BrokerAssumption DEF Started, ClaimInv, TypeInv, Exclusive,
       HandlersClaim, ClaimsHaveHandlers, WithinCapacity, DownIsQuiet, RunIsOver,
       RemovedAtRelease, ContainersAreClaimed, TypeOK, Claimed, brokerVars,
       handlerVars, dockerVars, sweepVars, Removed, DockerFails, DockerControl, Goto
  <2>6. DownIsQuiet'
    BY <1>5, BrokerAssumption DEF Started, ClaimInv, TypeInv, Exclusive,
       HandlersClaim, ClaimsHaveHandlers, WithinCapacity, DownIsQuiet, RunIsOver,
       brokerVars, handlerVars, dockerVars, sweepVars
  <2>7. RunIsOver'
    BY <1>5, BrokerAssumption DEF Started, ClaimInv, TypeInv, Exclusive,
       HandlersClaim, ClaimsHaveHandlers, WithinCapacity, DownIsQuiet, RunIsOver,
       Removed, DockerFails, DockerControl, Goto
  <2>8. RemovedAtRelease'
    BY <1>5, BrokerAssumption DEF Started, ClaimInv, TypeInv, Exclusive,
       HandlersClaim, RemovedAtRelease, ContainersAreClaimed, TypeOK, Claimed,
       brokerVars, handlerVars, dockerVars, sweepVars, Removed, DockerFails,
       DockerControl, Goto
  <2> QED
    BY <2>1, <2>2, <2>3, <2>4, <2>5, <2>6, <2>7, <2>8 DEF ClaimInv
<1>6. CASE StartedFails(k)
  <2>1. /\ WithinCapacity' /\ ContainersAreClaimed'
    BY <1>6, BrokerAssumption DEF StartedFails, ClaimInv, TypeInv, Exclusive,
       HandlersClaim, ClaimsHaveHandlers, WithinCapacity, DownIsQuiet, RunIsOver,
       RemovedAtRelease, ContainersAreClaimed, TypeOK, Claimed, brokerVars,
       handlerVars, dockerVars, sweepVars
  <2>2. TypeInv'
    BY <1>6, BrokerAssumption DEF StartedFails, ClaimInv, TypeInv, Exclusive,
       HandlersClaim, RemovedAtRelease, ContainersAreClaimed, TypeOK, Claimed,
       brokerVars, handlerVars, dockerVars, sweepVars, Removed, DockerFails,
       DockerControl, Goto
  <2>3. Exclusive'
    BY <1>6, BrokerAssumption DEF StartedFails, ClaimInv, TypeInv, Exclusive,
       HandlersClaim, RemovedAtRelease, ContainersAreClaimed, TypeOK, Claimed,
       Removed, DockerFails, DockerControl, Goto
  <2>4. HandlersClaim'
    BY <1>6, BrokerAssumption DEF StartedFails, ClaimInv, TypeInv, Exclusive,
       HandlersClaim, RemovedAtRelease, ContainersAreClaimed, TypeOK, Claimed,
       brokerVars, handlerVars, dockerVars, sweepVars, Removed, DockerFails,
       DockerControl, Goto
  <2>5. ClaimsHaveHandlers'
    BY <1>6, BrokerAssumption DEF StartedFails, ClaimInv, TypeInv, Exclusive,
       HandlersClaim, ClaimsHaveHandlers, WithinCapacity, DownIsQuiet, RunIsOver,
       RemovedAtRelease, ContainersAreClaimed, TypeOK, Claimed, brokerVars,
       handlerVars, dockerVars, sweepVars, Removed, DockerFails, DockerControl, Goto
  <2>6. DownIsQuiet'
    BY <1>6, BrokerAssumption DEF StartedFails, ClaimInv, TypeInv, Exclusive,
       HandlersClaim, ClaimsHaveHandlers, WithinCapacity, DownIsQuiet, RunIsOver,
       brokerVars, handlerVars, dockerVars, sweepVars
  <2>7. RunIsOver'
    BY <1>6, BrokerAssumption DEF StartedFails, ClaimInv, TypeInv, Exclusive,
       HandlersClaim, ClaimsHaveHandlers, WithinCapacity, DownIsQuiet, RunIsOver,
       Removed, DockerFails, DockerControl, Goto
  <2>8. RemovedAtRelease'
    BY <1>6, BrokerAssumption DEF StartedFails, ClaimInv, TypeInv, Exclusive,
       HandlersClaim, RemovedAtRelease, ContainersAreClaimed, TypeOK, Claimed,
       brokerVars, handlerVars, dockerVars, sweepVars, Removed, DockerFails,
       DockerControl, Goto
  <2> QED
    BY <2>1, <2>2, <2>3, <2>4, <2>5, <2>6, <2>7, <2>8 DEF ClaimInv
<1>7. CASE WorkerEnded(k)
  <2>1. /\ WithinCapacity' /\ ContainersAreClaimed'
    BY <1>7, BrokerAssumption DEF WorkerEnded, ClaimInv, TypeInv, Exclusive,
       HandlersClaim, ClaimsHaveHandlers, WithinCapacity, DownIsQuiet, RunIsOver,
       RemovedAtRelease, ContainersAreClaimed, TypeOK, Claimed, brokerVars,
       handlerVars, dockerVars, sweepVars
  <2>2. TypeInv'
    BY <1>7, BrokerAssumption DEF WorkerEnded, ClaimInv, TypeInv, Exclusive,
       HandlersClaim, RemovedAtRelease, ContainersAreClaimed, TypeOK, Claimed,
       brokerVars, handlerVars, dockerVars, sweepVars, Removed, DockerFails,
       DockerControl, Goto
  <2>3. Exclusive'
    BY <1>7, BrokerAssumption DEF WorkerEnded, ClaimInv, TypeInv, Exclusive,
       HandlersClaim, RemovedAtRelease, ContainersAreClaimed, TypeOK, Claimed,
       Removed, DockerFails, DockerControl, Goto
  <2>4. HandlersClaim'
    BY <1>7, BrokerAssumption DEF WorkerEnded, ClaimInv, TypeInv, Exclusive,
       HandlersClaim, RemovedAtRelease, ContainersAreClaimed, TypeOK, Claimed,
       brokerVars, handlerVars, dockerVars, sweepVars, Removed, DockerFails,
       DockerControl, Goto
  <2>5. ClaimsHaveHandlers'
    BY <1>7, BrokerAssumption DEF WorkerEnded, ClaimInv, TypeInv, Exclusive,
       HandlersClaim, ClaimsHaveHandlers, WithinCapacity, DownIsQuiet, RunIsOver,
       RemovedAtRelease, ContainersAreClaimed, TypeOK, Claimed, brokerVars,
       handlerVars, dockerVars, sweepVars, Removed, DockerFails, DockerControl, Goto
  <2>6. DownIsQuiet'
    BY <1>7, BrokerAssumption DEF WorkerEnded, ClaimInv, TypeInv, Exclusive,
       HandlersClaim, ClaimsHaveHandlers, WithinCapacity, DownIsQuiet, RunIsOver,
       brokerVars, handlerVars, dockerVars, sweepVars
  <2>7. RunIsOver'
    BY <1>7, BrokerAssumption DEF WorkerEnded, ClaimInv, TypeInv, Exclusive,
       HandlersClaim, ClaimsHaveHandlers, WithinCapacity, DownIsQuiet, RunIsOver,
       Removed, DockerFails, DockerControl, Goto
  <2>8. RemovedAtRelease'
    BY <1>7, BrokerAssumption DEF WorkerEnded, ClaimInv, TypeInv, Exclusive,
       HandlersClaim, RemovedAtRelease, ContainersAreClaimed, TypeOK, Claimed,
       brokerVars, handlerVars, dockerVars, sweepVars, Removed, DockerFails,
       DockerControl, Goto
  <2> QED
    BY <2>1, <2>2, <2>3, <2>4, <2>5, <2>6, <2>7, <2>8 DEF ClaimInv
<1>8. CASE Kill(k)
  <2>1. TypeInv'
    BY <1>8, BrokerAssumption, DockerControlEffect DEF Kill, ClaimInv, TypeInv,
       Exclusive, HandlersClaim, ClaimsHaveHandlers, ContainersAreClaimed, TypeOK,
       Claimed, brokerVars, handlerVars, dockerVars, sweepVars, Goto
  <2>2. Exclusive'
    BY <1>8, BrokerAssumption, DockerControlEffect DEF Kill, ClaimInv, TypeInv,
       Exclusive, HandlersClaim, ClaimsHaveHandlers, ContainersAreClaimed, TypeOK,
       Claimed, brokerVars, handlerVars, dockerVars, sweepVars, Goto
  <2>3. HandlersClaim'
    BY <1>8, BrokerAssumption, DockerControlEffect DEF Kill, ClaimInv, TypeInv,
       Exclusive, HandlersClaim, ClaimsHaveHandlers, ContainersAreClaimed, TypeOK,
       Claimed, brokerVars, handlerVars, dockerVars, sweepVars, Goto
  <2>4. ClaimsHaveHandlers'
    BY <1>8, BrokerAssumption, DockerControlEffect DEF Kill, ClaimInv, TypeInv,
       Exclusive, HandlersClaim, ClaimsHaveHandlers, ContainersAreClaimed, TypeOK,
       Claimed, brokerVars, handlerVars, dockerVars, sweepVars, Goto
  <2>5. WithinCapacity'
    BY <1>8, BrokerAssumption, DockerControlEffect DEF Kill, ClaimInv, WithinCapacity,
       DownIsQuiet, RunIsOver, RemovedAtRelease, ContainersAreClaimed, TypeOK,
       Claimed, brokerVars
  <2>6. DownIsQuiet'
    BY <1>8, BrokerAssumption, DockerControlEffect DEF Kill, ClaimInv, WithinCapacity,
       DownIsQuiet, RunIsOver, RemovedAtRelease, ContainersAreClaimed, TypeOK,
       Claimed, brokerVars
  <2>7. RunIsOver'
    BY <1>8, BrokerAssumption, DockerControlEffect DEF Kill, ClaimInv, TypeInv,
       Exclusive, HandlersClaim, ClaimsHaveHandlers, WithinCapacity, DownIsQuiet,
       RunIsOver, RemovedAtRelease, ContainersAreClaimed, TypeOK, Claimed, brokerVars,
       handlerVars, dockerVars, sweepVars, Goto
  <2>8. RemovedAtRelease'
    BY <1>8, BrokerAssumption, DockerControlEffect DEF Kill, ClaimInv, TypeInv,
       Exclusive, HandlersClaim, ClaimsHaveHandlers, WithinCapacity, DownIsQuiet,
       RunIsOver, RemovedAtRelease, handlerVars, dockerVars, sweepVars, Goto
  <2>9. ContainersAreClaimed'
    BY <1>8, BrokerAssumption, DockerControlEffect DEF Kill, ClaimInv, TypeInv,
       Exclusive, HandlersClaim, ClaimsHaveHandlers, ContainersAreClaimed, TypeOK,
       Claimed, brokerVars
  <2> QED
    BY <2>1, <2>2, <2>3, <2>4, <2>5, <2>6, <2>7, <2>8, <2>9 DEF ClaimInv
<1>9. CASE SendExit(k)
  <2>1. /\ WithinCapacity' /\ ContainersAreClaimed'
    BY <1>9, BrokerAssumption DEF SendExit, ClaimInv, TypeInv, Exclusive,
       HandlersClaim, ClaimsHaveHandlers, WithinCapacity, DownIsQuiet, RunIsOver,
       RemovedAtRelease, ContainersAreClaimed, TypeOK, Claimed, brokerVars,
       handlerVars, dockerVars, sweepVars
  <2>2. TypeInv'
    BY <1>9, BrokerAssumption DEF SendExit, ClaimInv, TypeInv, Exclusive,
       HandlersClaim, RemovedAtRelease, ContainersAreClaimed, TypeOK, Claimed,
       brokerVars, handlerVars, dockerVars, sweepVars, Removed, DockerFails,
       DockerControl, Goto
  <2>3. Exclusive'
    BY <1>9, BrokerAssumption DEF SendExit, ClaimInv, TypeInv, Exclusive,
       HandlersClaim, RemovedAtRelease, ContainersAreClaimed, TypeOK, Claimed,
       Removed, DockerFails, DockerControl, Goto
  <2>4. HandlersClaim'
    BY <1>9, BrokerAssumption DEF SendExit, ClaimInv, TypeInv, Exclusive,
       HandlersClaim, RemovedAtRelease, ContainersAreClaimed, TypeOK, Claimed,
       brokerVars, handlerVars, dockerVars, sweepVars, Removed, DockerFails,
       DockerControl, Goto
  <2>5. ClaimsHaveHandlers'
    BY <1>9, BrokerAssumption DEF SendExit, ClaimInv, TypeInv, Exclusive,
       HandlersClaim, ClaimsHaveHandlers, WithinCapacity, DownIsQuiet, RunIsOver,
       RemovedAtRelease, ContainersAreClaimed, TypeOK, Claimed, brokerVars,
       handlerVars, dockerVars, sweepVars, Removed, DockerFails, DockerControl, Goto
  <2>6. DownIsQuiet'
    BY <1>9, BrokerAssumption DEF SendExit, ClaimInv, TypeInv, Exclusive,
       HandlersClaim, ClaimsHaveHandlers, WithinCapacity, DownIsQuiet, RunIsOver,
       brokerVars, handlerVars, dockerVars, sweepVars
  <2>7. RunIsOver'
    BY <1>9, BrokerAssumption DEF SendExit, ClaimInv, TypeInv, Exclusive,
       HandlersClaim, ClaimsHaveHandlers, WithinCapacity, DownIsQuiet, RunIsOver,
       Removed, DockerFails, DockerControl, Goto
  <2>8. RemovedAtRelease'
    BY <1>9, BrokerAssumption DEF SendExit, ClaimInv, TypeInv, Exclusive,
       HandlersClaim, RemovedAtRelease, ContainersAreClaimed, TypeOK, Claimed,
       brokerVars, handlerVars, dockerVars, sweepVars, Removed, DockerFails,
       DockerControl, Goto
  <2> QED
    BY <2>1, <2>2, <2>3, <2>4, <2>5, <2>6, <2>7, <2>8 DEF ClaimInv
<1>10. CASE AbortKill(k)
  <2>1. TypeInv'
    BY <1>10, BrokerAssumption, DockerControlEffect DEF AbortKill, ClaimInv, TypeInv,
       Exclusive, HandlersClaim, ClaimsHaveHandlers, ContainersAreClaimed, TypeOK,
       Claimed, brokerVars, handlerVars, dockerVars, sweepVars, Goto
  <2>2. Exclusive'
    BY <1>10, BrokerAssumption, DockerControlEffect DEF AbortKill, ClaimInv, TypeInv,
       Exclusive, HandlersClaim, ClaimsHaveHandlers, ContainersAreClaimed, TypeOK,
       Claimed, brokerVars, handlerVars, dockerVars, sweepVars, Goto
  <2>3. HandlersClaim'
    BY <1>10, BrokerAssumption, DockerControlEffect DEF AbortKill, ClaimInv, TypeInv,
       Exclusive, HandlersClaim, ClaimsHaveHandlers, ContainersAreClaimed, TypeOK,
       Claimed, brokerVars, handlerVars, dockerVars, sweepVars, Goto
  <2>4. ClaimsHaveHandlers'
    BY <1>10, BrokerAssumption, DockerControlEffect DEF AbortKill, ClaimInv, TypeInv,
       Exclusive, HandlersClaim, ClaimsHaveHandlers, ContainersAreClaimed, TypeOK,
       Claimed, brokerVars, handlerVars, dockerVars, sweepVars, Goto
  <2>5. WithinCapacity'
    BY <1>10, BrokerAssumption, DockerControlEffect DEF AbortKill, ClaimInv,
       WithinCapacity, DownIsQuiet, RunIsOver, RemovedAtRelease, ContainersAreClaimed,
       TypeOK, Claimed, brokerVars
  <2>6. DownIsQuiet'
    BY <1>10, BrokerAssumption, DockerControlEffect DEF AbortKill, ClaimInv,
       WithinCapacity, DownIsQuiet, RunIsOver, RemovedAtRelease, ContainersAreClaimed,
       TypeOK, Claimed, brokerVars
  <2>7. RunIsOver'
    BY <1>10, BrokerAssumption, DockerControlEffect DEF AbortKill, ClaimInv,
       WithinCapacity, DownIsQuiet, RunIsOver, RemovedAtRelease, handlerVars,
       dockerVars, sweepVars, Goto
  <2>8. RemovedAtRelease'
    BY <1>10, BrokerAssumption, DockerControlEffect DEF AbortKill, ClaimInv, TypeInv,
       Exclusive, HandlersClaim, ClaimsHaveHandlers, WithinCapacity, DownIsQuiet,
       RunIsOver, RemovedAtRelease, handlerVars, dockerVars, sweepVars, Goto
  <2>9. ContainersAreClaimed'
    BY <1>10, BrokerAssumption, DockerControlEffect DEF AbortKill, ClaimInv, TypeInv,
       Exclusive, HandlersClaim, ClaimsHaveHandlers, ContainersAreClaimed, TypeOK,
       Claimed, brokerVars
  <2> QED
    BY <2>1, <2>2, <2>3, <2>4, <2>5, <2>6, <2>7, <2>8, <2>9 DEF ClaimInv
<1>11. CASE Abandon(k)
  <2>1. /\ WithinCapacity' /\ ContainersAreClaimed'
    BY <1>11, BrokerAssumption DEF Abandon, ClaimInv, TypeInv, Exclusive,
       HandlersClaim, ClaimsHaveHandlers, WithinCapacity, DownIsQuiet, RunIsOver,
       RemovedAtRelease, ContainersAreClaimed, TypeOK, Claimed, brokerVars,
       handlerVars, dockerVars, sweepVars
  <2>2. TypeInv'
    BY <1>11, BrokerAssumption DEF Abandon, ClaimInv, TypeInv, Exclusive,
       HandlersClaim, RemovedAtRelease, ContainersAreClaimed, TypeOK, Claimed,
       brokerVars, handlerVars, dockerVars, sweepVars, Removed, DockerFails,
       DockerControl, Goto
  <2>3. Exclusive'
    BY <1>11, BrokerAssumption DEF Abandon, ClaimInv, TypeInv, Exclusive,
       HandlersClaim, RemovedAtRelease, ContainersAreClaimed, TypeOK, Claimed,
       Removed, DockerFails, DockerControl, Goto
  <2>4. HandlersClaim'
    BY <1>11, BrokerAssumption DEF Abandon, ClaimInv, TypeInv, Exclusive,
       HandlersClaim, RemovedAtRelease, ContainersAreClaimed, TypeOK, Claimed,
       brokerVars, handlerVars, dockerVars, sweepVars, Removed, DockerFails,
       DockerControl, Goto
  <2>5. ClaimsHaveHandlers'
    BY <1>11, BrokerAssumption DEF Abandon, ClaimInv, TypeInv, Exclusive,
       HandlersClaim, ClaimsHaveHandlers, WithinCapacity, DownIsQuiet, RunIsOver,
       RemovedAtRelease, ContainersAreClaimed, TypeOK, Claimed, brokerVars,
       handlerVars, dockerVars, sweepVars, Removed, DockerFails, DockerControl, Goto
  <2>6. DownIsQuiet'
    BY <1>11, BrokerAssumption DEF Abandon, ClaimInv, TypeInv, Exclusive,
       HandlersClaim, ClaimsHaveHandlers, WithinCapacity, DownIsQuiet, RunIsOver,
       brokerVars, handlerVars, dockerVars, sweepVars
  <2>7. RunIsOver'
    BY <1>11, BrokerAssumption DEF Abandon, ClaimInv, TypeInv, Exclusive,
       HandlersClaim, ClaimsHaveHandlers, WithinCapacity, DownIsQuiet, RunIsOver,
       RemovedAtRelease, ContainersAreClaimed, TypeOK, Claimed, Removed, DockerFails,
       DockerControl, Goto
  <2>8. RemovedAtRelease'
    BY <1>11, BrokerAssumption DEF Abandon, ClaimInv, TypeInv, Exclusive,
       HandlersClaim, RemovedAtRelease, ContainersAreClaimed, TypeOK, Claimed,
       brokerVars, handlerVars, dockerVars, sweepVars, Removed, DockerFails,
       DockerControl, Goto
  <2> QED
    BY <2>1, <2>2, <2>3, <2>4, <2>5, <2>6, <2>7, <2>8 DEF ClaimInv
<1>12. CASE AbandonRaises(k)
  <2>1. TypeInv'
    BY <1>12, BrokerAssumption DEF AbandonRaises, ClaimInv, TypeInv, Exclusive,
       HandlersClaim, RemovedAtRelease, ContainersAreClaimed, TypeOK, Claimed,
       brokerVars, handlerVars, dockerVars, sweepVars, Removed, DockerFails,
       DockerControl, Goto
  <2>2. Exclusive'
    BY <1>12, BrokerAssumption DEF AbandonRaises, ClaimInv, TypeInv, Exclusive,
       HandlersClaim, RemovedAtRelease, ContainersAreClaimed, TypeOK, Claimed,
       Removed, DockerFails, DockerControl, Goto
  <2>3. HandlersClaim'
    BY <1>12, BrokerAssumption DEF AbandonRaises, ClaimInv, TypeInv, Exclusive,
       HandlersClaim, RemovedAtRelease, ContainersAreClaimed, TypeOK, Claimed,
       Removed, DockerFails, DockerControl, Goto
  <2>4. ClaimsHaveHandlers'
    BY <1>12, BrokerAssumption DEF AbandonRaises, ClaimInv, TypeInv, Exclusive,
       HandlersClaim, ClaimsHaveHandlers, WithinCapacity, DownIsQuiet, RunIsOver,
       Removed, DockerFails, DockerControl, Goto
  <2>5. WithinCapacity'
    BY <1>12, BrokerAssumption DEF AbandonRaises, ClaimInv, TypeInv, Exclusive,
       HandlersClaim, ClaimsHaveHandlers, WithinCapacity
  <2>6. DownIsQuiet'
    BY <1>12, BrokerAssumption DEF AbandonRaises, ClaimInv, TypeInv, Exclusive,
       HandlersClaim, ClaimsHaveHandlers, WithinCapacity, DownIsQuiet, RunIsOver
  <2>7. RunIsOver'
    BY <1>12, BrokerAssumption DEF AbandonRaises, ClaimInv, TypeInv, Exclusive,
       HandlersClaim, ClaimsHaveHandlers, WithinCapacity, DownIsQuiet, RunIsOver,
       Removed, DockerFails, DockerControl, Goto
  <2>8. RemovedAtRelease'
    BY <1>12, BrokerAssumption DEF AbandonRaises, ClaimInv, TypeInv, Exclusive,
       HandlersClaim, RemovedAtRelease, ContainersAreClaimed, TypeOK, Claimed,
       Removed, DockerFails, DockerControl, Goto
  <2>9. ContainersAreClaimed'
    BY <1>12, BrokerAssumption DEF AbandonRaises, ClaimInv, TypeInv, Exclusive,
       HandlersClaim, RemovedAtRelease, ContainersAreClaimed
  <2> QED
    BY <2>1, <2>2, <2>3, <2>4, <2>5, <2>6, <2>7, <2>8, <2>9 DEF ClaimInv
<1>13. CASE Remove(k)
  <2>1. TypeInv'
    BY <1>13, BrokerAssumption, DockerControlEffect DEF Remove, ClaimInv, TypeInv,
       Exclusive, HandlersClaim, ClaimsHaveHandlers, ContainersAreClaimed, TypeOK,
       Claimed, brokerVars, handlerVars, dockerVars, sweepVars, Goto
  <2>2. Exclusive'
    BY <1>13, BrokerAssumption, DockerControlEffect DEF Remove, ClaimInv, TypeInv,
       Exclusive, HandlersClaim, ClaimsHaveHandlers, ContainersAreClaimed, TypeOK,
       Claimed, brokerVars, handlerVars, dockerVars, sweepVars, Goto
  <2>3. HandlersClaim'
    BY <1>13, BrokerAssumption, DockerControlEffect DEF Remove, ClaimInv, TypeInv,
       Exclusive, HandlersClaim, ClaimsHaveHandlers, ContainersAreClaimed, TypeOK,
       Claimed, brokerVars, handlerVars, dockerVars, sweepVars, Goto
  <2>4. ClaimsHaveHandlers'
    BY <1>13, BrokerAssumption, DockerControlEffect DEF Remove, ClaimInv, TypeInv,
       Exclusive, HandlersClaim, ClaimsHaveHandlers, ContainersAreClaimed, TypeOK,
       Claimed, brokerVars, handlerVars, dockerVars, sweepVars, Goto
  <2>5. WithinCapacity'
    BY <1>13, BrokerAssumption, DockerControlEffect DEF Remove, ClaimInv,
       WithinCapacity, DownIsQuiet, RunIsOver, RemovedAtRelease, ContainersAreClaimed,
       TypeOK, Claimed, brokerVars
  <2>6. DownIsQuiet'
    BY <1>13, BrokerAssumption, DockerControlEffect DEF Remove, ClaimInv,
       WithinCapacity, DownIsQuiet, RunIsOver, RemovedAtRelease, ContainersAreClaimed,
       TypeOK, Claimed, brokerVars
  <2>7. RunIsOver'
    BY <1>13, BrokerAssumption, DockerControlEffect DEF Remove, ClaimInv,
       WithinCapacity, DownIsQuiet, RunIsOver, RemovedAtRelease, handlerVars,
       dockerVars, sweepVars, Goto
  <2>8. RemovedAtRelease'
    BY <1>13, BrokerAssumption, DockerControlEffect DEF Remove, ClaimInv, TypeInv,
       Exclusive, HandlersClaim, ClaimsHaveHandlers, WithinCapacity, DownIsQuiet,
       RunIsOver, RemovedAtRelease, handlerVars, dockerVars, sweepVars, Goto
  <2>9. ContainersAreClaimed'
    BY <1>13, BrokerAssumption, DockerControlEffect DEF Remove, ClaimInv, TypeInv,
       Exclusive, HandlersClaim, ClaimsHaveHandlers, ContainersAreClaimed, TypeOK,
       Claimed, brokerVars
  <2> QED
    BY <2>1, <2>2, <2>3, <2>4, <2>5, <2>6, <2>7, <2>8, <2>9 DEF ClaimInv
<1>14. CASE Release(k)
  <2>1. TypeInv'
    BY <1>14, BrokerAssumption DEF Release, Refused, ClaimInv, TypeInv, Exclusive,
       HandlersClaim, RemovedAtRelease, ContainersAreClaimed, TypeOK, Claimed,
       brokerVars, handlerVars, dockerVars, sweepVars, Removed, DockerFails,
       DockerControl, Goto
  <2>2. Exclusive'
    BY <1>14, BrokerAssumption DEF Release, Refused, ClaimInv, TypeInv, Exclusive,
       HandlersClaim, RemovedAtRelease, ContainersAreClaimed, TypeOK, Claimed,
       Removed, DockerFails, DockerControl, Goto
  <2>3. HandlersClaim'
    BY <1>14, BrokerAssumption DEF Release, Refused, ClaimInv, TypeInv, Exclusive,
       HandlersClaim, RemovedAtRelease, ContainersAreClaimed, TypeOK, Claimed,
       Removed, DockerFails, DockerControl, Goto
  <2>4. ClaimsHaveHandlers'
    BY <1>14, BrokerAssumption DEF Release, Refused, ClaimInv, TypeInv, Exclusive,
       HandlersClaim, ClaimsHaveHandlers, WithinCapacity, DownIsQuiet, RunIsOver,
       Removed, DockerFails, DockerControl, Goto
  <2>5. WithinCapacity'
    <3>1. active' = active \ {session[k]}
      BY <1>14 DEF Release
    <3>2. IsFiniteSet(active) /\ active \ {session[k]} \in SUBSET active
      BY DEF ClaimInv, WithinCapacity
    <3>3. /\ IsFiniteSet(active \ {session[k]})
          /\ Cardinality(active \ {session[k]}) <= Cardinality(active)
      BY <3>2, FS_Subset
    <3>4. Cardinality(active) \in Nat /\ Cardinality(active \ {session[k]}) \in Nat
      BY <3>2, <3>3, FS_CardinalityType
    <3> QED
      BY <3>1, <3>3, <3>4, BrokerAssumption DEF ClaimInv, WithinCapacity
  <2>6. DownIsQuiet'
    BY <1>14, BrokerAssumption DEF Release, Refused, ClaimInv, TypeInv, Exclusive,
       HandlersClaim, ClaimsHaveHandlers, WithinCapacity, DownIsQuiet, RunIsOver
  <2>7. RunIsOver'
    BY <1>14, BrokerAssumption DEF Release, Refused, ClaimInv, TypeInv, Exclusive,
       HandlersClaim, ClaimsHaveHandlers, WithinCapacity, DownIsQuiet, RunIsOver,
       Removed, DockerFails, DockerControl, Goto
  <2>8. RemovedAtRelease'
    BY <1>14, BrokerAssumption DEF Release, Refused, ClaimInv, TypeInv, Exclusive,
       HandlersClaim, RemovedAtRelease, ContainersAreClaimed, TypeOK, Claimed,
       brokerVars, handlerVars, dockerVars, sweepVars, Removed, DockerFails,
       DockerControl, Goto
  <2>9. ContainersAreClaimed'
    BY <1>14, BrokerAssumption DEF Release, Refused, ClaimInv, TypeInv, Exclusive,
       HandlersClaim, RemovedAtRelease, ContainersAreClaimed, TypeOK, Claimed,
       brokerVars, handlerVars, dockerVars, sweepVars
  <2> QED
    BY <2>1, <2>2, <2>3, <2>4, <2>5, <2>6, <2>7, <2>8, <2>9 DEF ClaimInv
<1> QED
  BY <1>1, <1>2, <1>3, <1>4, <1>5, <1>6, <1>7, <1>8, <1>9, <1>10, <1>11, <1>12, <1>13, <1>14, ClaimOutcomes DEF Handler

\* ... of docker and of the supervision of a worker ...
LEMMA DaemonStep ==
    ASSUME ClaimInv, NEW k \in Connections, Daemon(k) \/ Relay(k) \/ Supervise(k)
    PROVE  ClaimInv'
<1>1. CASE Created(k)
  <2>1. /\ Exclusive' /\ HandlersClaim' /\ ClaimsHaveHandlers'
        /\ WithinCapacity' /\ DownIsQuiet'
    BY <1>1, BrokerAssumption DEF Created, ClaimInv, TypeInv, Exclusive,
       HandlersClaim, ClaimsHaveHandlers, WithinCapacity, DownIsQuiet, RunIsOver,
       brokerVars, handlerVars, dockerVars, sweepVars
  <2>2. TypeInv'
    BY <1>1, BrokerAssumption DEF Created, ClaimInv, TypeInv, Exclusive,
       HandlersClaim, RemovedAtRelease, ContainersAreClaimed, TypeOK, Claimed,
       brokerVars, handlerVars, dockerVars, sweepVars
  <2>3. RunIsOver'
    BY <1>1, BrokerAssumption DEF Created, ClaimInv, TypeInv, Exclusive,
       HandlersClaim, ClaimsHaveHandlers, WithinCapacity, DownIsQuiet, RunIsOver
  <2>4. RemovedAtRelease'
    <3>1. pc[k] \in Claimed \ {"release"}
      BY <1>1 DEF Created, ClaimInv, TypeInv, TypeOK, RunIsOver, Claimed
    <3>2. ASSUME NEW j \in Connections, pc[j] = "release"
          PROVE  session[j] \in Sessions \ {session[k]}
      BY <3>1, <3>2 DEF ClaimInv, Exclusive, HandlersClaim, Claimed
    <3> QED
      BY <1>1, <3>2 DEF Created, ClaimInv, TypeInv, TypeOK, RemovedAtRelease
  <2>5. ContainersAreClaimed'
    BY <1>1, BrokerAssumption DEF Created, ClaimInv, TypeInv, Exclusive,
       HandlersClaim, ClaimsHaveHandlers, WithinCapacity, DownIsQuiet, RunIsOver,
       RemovedAtRelease, ContainersAreClaimed, TypeOK, Claimed, brokerVars,
       handlerVars, dockerVars, sweepVars
  <2> QED
    BY <2>1, <2>2, <2>3, <2>4, <2>5 DEF ClaimInv
<1>2. CASE Conflicts(k)
  <2>1. /\ Exclusive' /\ HandlersClaim' /\ ClaimsHaveHandlers'
        /\ WithinCapacity' /\ DownIsQuiet'
    BY <1>2, BrokerAssumption DEF Conflicts, ClaimInv, TypeInv, Exclusive,
       HandlersClaim, ClaimsHaveHandlers, WithinCapacity, DownIsQuiet, RunIsOver,
       brokerVars, handlerVars, dockerVars, sweepVars
  <2>2. TypeInv'
    BY <1>2, BrokerAssumption DEF Conflicts, ClaimInv, TypeInv, Exclusive,
       HandlersClaim, RemovedAtRelease, ContainersAreClaimed, TypeOK, Claimed,
       brokerVars, handlerVars, dockerVars, sweepVars
  <2>3. RunIsOver'
    BY <1>2, BrokerAssumption DEF Conflicts, ClaimInv, TypeInv, Exclusive,
       HandlersClaim, ClaimsHaveHandlers, WithinCapacity, DownIsQuiet, RunIsOver
  <2>4. RemovedAtRelease'
    BY <1>2, BrokerAssumption DEF Conflicts, ClaimInv, TypeInv, Exclusive,
       HandlersClaim, RemovedAtRelease, ContainersAreClaimed, TypeOK, Claimed,
       brokerVars, handlerVars, dockerVars, sweepVars
  <2>5. ContainersAreClaimed'
    BY <1>2, BrokerAssumption DEF Conflicts, ClaimInv, TypeInv, Exclusive,
       HandlersClaim, RemovedAtRelease, ContainersAreClaimed, TypeOK, Claimed,
       brokerVars, handlerVars, dockerVars, sweepVars
  <2> QED
    BY <2>1, <2>2, <2>3, <2>4, <2>5 DEF ClaimInv
<1>3. CASE ContainerEnds(k)
  <2>1. /\ Exclusive' /\ HandlersClaim' /\ ClaimsHaveHandlers'
        /\ WithinCapacity' /\ DownIsQuiet' /\ RunIsOver'
    BY <1>3, BrokerAssumption DEF ContainerEnds, ClaimInv, TypeInv, Exclusive,
       HandlersClaim, ClaimsHaveHandlers, WithinCapacity, DownIsQuiet, RunIsOver,
       brokerVars, handlerVars, dockerVars, sweepVars
  <2>2. TypeInv'
    BY <1>3, BrokerAssumption DEF ContainerEnds, ClaimInv, TypeInv, Exclusive,
       HandlersClaim, RemovedAtRelease, ContainersAreClaimed, TypeOK, Claimed,
       brokerVars, handlerVars, dockerVars, sweepVars, Removed, DockerFails,
       DockerControl, Goto
  <2>3. RemovedAtRelease'
    BY <1>3, BrokerAssumption DEF ContainerEnds, ClaimInv, TypeInv, Exclusive,
       HandlersClaim, RemovedAtRelease, ContainersAreClaimed, TypeOK, Claimed,
       brokerVars, handlerVars, dockerVars, sweepVars, Removed, DockerFails,
       DockerControl, Goto
  <2>4. ContainersAreClaimed'
    BY <1>3, BrokerAssumption DEF ContainerEnds, ClaimInv, TypeInv, Exclusive,
       HandlersClaim, RemovedAtRelease, ContainersAreClaimed, TypeOK, Claimed,
       brokerVars, handlerVars, dockerVars, sweepVars, Removed, DockerFails,
       DockerControl, Goto
  <2> QED
    BY <2>1, <2>2, <2>3, <2>4 DEF ClaimInv
<1>4. CASE CliExits(k)
  <2>1. /\ Exclusive' /\ HandlersClaim' /\ ClaimsHaveHandlers'
        /\ WithinCapacity' /\ DownIsQuiet' /\ RemovedAtRelease'
        /\ ContainersAreClaimed'
    BY <1>4, BrokerAssumption DEF CliExits, ClaimInv, TypeInv, Exclusive,
       HandlersClaim, ClaimsHaveHandlers, WithinCapacity, DownIsQuiet, RunIsOver,
       RemovedAtRelease, ContainersAreClaimed, TypeOK, Claimed, brokerVars,
       handlerVars, dockerVars, sweepVars
  <2>2. TypeInv'
    BY <1>4, BrokerAssumption DEF CliExits, ClaimInv, TypeInv, Exclusive,
       HandlersClaim, RemovedAtRelease, ContainersAreClaimed, TypeOK, Claimed,
       brokerVars, handlerVars, dockerVars, sweepVars
  <2>3. RunIsOver'
    BY <1>4, BrokerAssumption DEF CliExits, ClaimInv, TypeInv, Exclusive,
       HandlersClaim, ClaimsHaveHandlers, WithinCapacity, DownIsQuiet, RunIsOver
  <2> QED
    BY <2>1, <2>2, <2>3 DEF ClaimInv
<1>5. CASE CliDies(k)
  <2>1. /\ Exclusive' /\ HandlersClaim' /\ ClaimsHaveHandlers'
        /\ WithinCapacity' /\ DownIsQuiet' /\ RemovedAtRelease'
        /\ ContainersAreClaimed'
    BY <1>5, BrokerAssumption DEF CliDies, ClaimInv, TypeInv, Exclusive,
       HandlersClaim, ClaimsHaveHandlers, WithinCapacity, DownIsQuiet, RunIsOver,
       RemovedAtRelease, ContainersAreClaimed, TypeOK, Claimed, brokerVars,
       handlerVars, dockerVars, sweepVars
  <2>2. TypeInv'
    BY <1>5, BrokerAssumption DEF CliDies, ClaimInv, TypeInv, Exclusive,
       HandlersClaim, RemovedAtRelease, ContainersAreClaimed, TypeOK, Claimed,
       brokerVars, handlerVars, dockerVars, sweepVars
  <2>3. RunIsOver'
    BY <1>5, BrokerAssumption DEF CliDies, ClaimInv, TypeInv, Exclusive,
       HandlersClaim, ClaimsHaveHandlers, WithinCapacity, DownIsQuiet, RunIsOver
  <2> QED
    BY <2>1, <2>2, <2>3 DEF ClaimInv
<1>6. CASE Relay(k)
  <2>1. /\ Exclusive' /\ HandlersClaim' /\ ClaimsHaveHandlers'
        /\ WithinCapacity' /\ DownIsQuiet' /\ RunIsOver'
    BY <1>6, BrokerAssumption, DockerControlEffect DEF Relay, ClaimInv, TypeInv,
       Exclusive, HandlersClaim, ClaimsHaveHandlers, WithinCapacity, DownIsQuiet,
       RunIsOver, RemovedAtRelease, ContainersAreClaimed, TypeOK, Claimed, brokerVars,
       handlerVars, dockerVars, sweepVars, Goto
  <2>2. TypeInv'
    BY <1>6, BrokerAssumption, DockerControlEffect DEF Relay, ClaimInv, TypeInv,
       Exclusive, HandlersClaim, ClaimsHaveHandlers, ContainersAreClaimed, TypeOK,
       Claimed, brokerVars, handlerVars, dockerVars, sweepVars, Goto
  <2>3. RemovedAtRelease'
    BY <1>6, BrokerAssumption, DockerControlEffect DEF Relay, ClaimInv, TypeInv,
       Exclusive, HandlersClaim, ClaimsHaveHandlers, WithinCapacity, DownIsQuiet,
       RunIsOver, RemovedAtRelease, ContainersAreClaimed, TypeOK, Claimed, brokerVars,
       handlerVars, dockerVars, sweepVars, Goto
  <2>4. ContainersAreClaimed'
    BY <1>6, BrokerAssumption, DockerControlEffect DEF Relay, ClaimInv, TypeInv,
       Exclusive, HandlersClaim, ClaimsHaveHandlers, ContainersAreClaimed, TypeOK,
       Claimed, brokerVars
  <2> QED
    BY <2>1, <2>2, <2>3, <2>4 DEF ClaimInv
<1>7. CASE Supervise(k)
  <2>1. /\ WithinCapacity' /\ ContainersAreClaimed'
    BY <1>7, BrokerAssumption DEF Supervise, ClaimInv, TypeInv, Exclusive,
       HandlersClaim, ClaimsHaveHandlers, WithinCapacity, DownIsQuiet, RunIsOver,
       RemovedAtRelease, ContainersAreClaimed, TypeOK, Claimed, brokerVars,
       handlerVars, dockerVars, sweepVars
  <2>2. TypeInv'
    BY <1>7, BrokerAssumption DEF Supervise, ClaimInv, TypeInv, Exclusive,
       HandlersClaim, RemovedAtRelease, ContainersAreClaimed, TypeOK, Claimed,
       brokerVars, handlerVars, dockerVars, sweepVars, Removed, DockerFails,
       DockerControl, Goto
  <2>3. Exclusive'
    BY <1>7, BrokerAssumption DEF Supervise, ClaimInv, TypeInv, Exclusive,
       HandlersClaim, RemovedAtRelease, ContainersAreClaimed, TypeOK, Claimed,
       Removed, DockerFails, DockerControl, Goto
  <2>4. HandlersClaim'
    BY <1>7, BrokerAssumption DEF Supervise, ClaimInv, TypeInv, Exclusive,
       HandlersClaim, RemovedAtRelease, ContainersAreClaimed, TypeOK, Claimed,
       brokerVars, handlerVars, dockerVars, sweepVars, Removed, DockerFails,
       DockerControl, Goto
  <2>5. ClaimsHaveHandlers'
    BY <1>7, BrokerAssumption DEF Supervise, ClaimInv, TypeInv, Exclusive,
       HandlersClaim, ClaimsHaveHandlers, WithinCapacity, DownIsQuiet, RunIsOver,
       RemovedAtRelease, ContainersAreClaimed, TypeOK, Claimed, brokerVars,
       handlerVars, dockerVars, sweepVars, Removed, DockerFails, DockerControl, Goto
  <2>6. DownIsQuiet'
    BY <1>7, BrokerAssumption DEF Supervise, ClaimInv, TypeInv, Exclusive,
       HandlersClaim, ClaimsHaveHandlers, WithinCapacity, DownIsQuiet, RunIsOver,
       brokerVars, handlerVars, dockerVars, sweepVars
  <2>7. RunIsOver'
    BY <1>7, BrokerAssumption DEF Supervise, ClaimInv, TypeInv, Exclusive,
       HandlersClaim, ClaimsHaveHandlers, WithinCapacity, DownIsQuiet, RunIsOver,
       Removed, DockerFails, DockerControl, Goto
  <2>8. RemovedAtRelease'
    BY <1>7, BrokerAssumption DEF Supervise, ClaimInv, TypeInv, Exclusive,
       HandlersClaim, RemovedAtRelease, ContainersAreClaimed, TypeOK, Claimed,
       brokerVars, handlerVars, dockerVars, sweepVars, Removed, DockerFails,
       DockerControl, Goto
  <2> QED
    BY <2>1, <2>2, <2>3, <2>4, <2>5, <2>6, <2>7, <2>8 DEF ClaimInv
<1> QED
  BY <1>1, <1>2, <1>3, <1>4, <1>5, <1>6, <1>7, StartOutcomes DEF Daemon

\* ... of the service ...
LEMMA CoreStep ==
    ASSUME ClaimInv, NEW k \in Connections, Core(k)
    PROVE  ClaimInv'
<1>1. ASSUME NEW s \in Sessions, Connect(k, s)
      PROVE  ClaimInv'
  <2>1. /\ WithinCapacity' /\ ContainersAreClaimed'
    BY <1>1, BrokerAssumption DEF Connect, ClaimInv, TypeInv, Exclusive,
       HandlersClaim, ClaimsHaveHandlers, WithinCapacity, DownIsQuiet, RunIsOver,
       RemovedAtRelease, ContainersAreClaimed, TypeOK, Claimed, brokerVars,
       handlerVars, dockerVars, sweepVars
  <2>2. TypeInv'
    BY <1>1, BrokerAssumption DEF Connect, ClaimInv, TypeInv, Exclusive,
       HandlersClaim, RemovedAtRelease, ContainersAreClaimed, TypeOK, Claimed,
       brokerVars, handlerVars, dockerVars, sweepVars, Removed, DockerFails,
       DockerControl, Goto
  <2>3. Exclusive'
    BY <1>1, BrokerAssumption DEF Connect, ClaimInv, TypeInv, Exclusive,
       HandlersClaim, RemovedAtRelease, ContainersAreClaimed, TypeOK, Claimed,
       Removed, DockerFails, DockerControl, Goto
  <2>4. HandlersClaim'
    BY <1>1, BrokerAssumption DEF Connect, ClaimInv, TypeInv, Exclusive,
       HandlersClaim, RemovedAtRelease, ContainersAreClaimed, TypeOK, Claimed,
       brokerVars, handlerVars, dockerVars, sweepVars, Removed, DockerFails,
       DockerControl, Goto
  <2>5. ClaimsHaveHandlers'
    BY <1>1, BrokerAssumption DEF Connect, ClaimInv, TypeInv, Exclusive,
       HandlersClaim, ClaimsHaveHandlers, WithinCapacity, DownIsQuiet, RunIsOver,
       RemovedAtRelease, ContainersAreClaimed, TypeOK, Claimed, brokerVars,
       handlerVars, dockerVars, sweepVars, Removed, DockerFails, DockerControl, Goto
  <2>6. DownIsQuiet'
    BY <1>1, BrokerAssumption DEF Connect, ClaimsHaveHandlers, WithinCapacity,
       DownIsQuiet, RunIsOver, brokerVars, handlerVars, dockerVars, sweepVars
  <2>7. RunIsOver'
    BY <1>1, BrokerAssumption DEF Connect, ClaimInv, TypeInv, Exclusive,
       HandlersClaim, ClaimsHaveHandlers, WithinCapacity, DownIsQuiet, RunIsOver,
       Removed, DockerFails, DockerControl, Goto
  <2>8. RemovedAtRelease'
    BY <1>1, BrokerAssumption DEF Connect, ClaimInv, TypeInv, Exclusive,
       HandlersClaim, RemovedAtRelease, ContainersAreClaimed, TypeOK, Claimed,
       brokerVars, handlerVars, dockerVars, sweepVars, Removed, DockerFails,
       DockerControl, Goto
  <2> QED
    BY <2>1, <2>2, <2>3, <2>4, <2>5, <2>6, <2>7, <2>8 DEF ClaimInv
<1>2. CASE Disconnect(k)
  <2>1. /\ Exclusive' /\ HandlersClaim' /\ ClaimsHaveHandlers'
        /\ WithinCapacity' /\ DownIsQuiet' /\ RunIsOver' /\ RemovedAtRelease'
        /\ ContainersAreClaimed'
    BY <1>2, BrokerAssumption DEF Disconnect, ClaimInv, TypeInv, Exclusive,
       HandlersClaim, ClaimsHaveHandlers, WithinCapacity, DownIsQuiet, RunIsOver,
       RemovedAtRelease, ContainersAreClaimed, TypeOK, Claimed, brokerVars,
       handlerVars, dockerVars, sweepVars
  <2>2. TypeInv'
    BY <1>2, BrokerAssumption DEF Disconnect, ClaimInv, TypeInv, Exclusive,
       HandlersClaim, RemovedAtRelease, ContainersAreClaimed, TypeOK, Claimed,
       brokerVars, handlerVars, dockerVars, sweepVars
  <2> QED
    BY <2>1, <2>2 DEF ClaimInv
<1>3. CASE SendControl(k)
  <2>1. /\ Exclusive' /\ HandlersClaim' /\ ClaimsHaveHandlers'
        /\ WithinCapacity' /\ DownIsQuiet' /\ RunIsOver' /\ RemovedAtRelease'
        /\ ContainersAreClaimed'
    BY <1>3, BrokerAssumption DEF SendControl, ClaimInv, TypeInv, Exclusive,
       HandlersClaim, ClaimsHaveHandlers, WithinCapacity, DownIsQuiet, RunIsOver,
       RemovedAtRelease, ContainersAreClaimed, TypeOK, Claimed, brokerVars,
       handlerVars, dockerVars, sweepVars
  <2>2. TypeInv'
    BY <1>3, BrokerAssumption DEF SendControl, ClaimInv, TypeInv, Exclusive,
       HandlersClaim, RemovedAtRelease, ContainersAreClaimed, TypeOK, Claimed,
       brokerVars, handlerVars, dockerVars, sweepVars
  <2> QED
    BY <2>1, <2>2 DEF ClaimInv
<1> QED
  BY <1>1, <1>2, <1>3 DEF Core

\* ... and of reconciliation, start, close and crash.
LEMMA BrokerStep ==
    ASSUME ClaimInv, Broker
    PROVE  ClaimInv'
<1>1. CASE SweepList
  <2>1. /\ Exclusive' /\ HandlersClaim' /\ ClaimsHaveHandlers'
        /\ WithinCapacity' /\ DownIsQuiet' /\ RunIsOver' /\ RemovedAtRelease'
        /\ ContainersAreClaimed'
    BY <1>1, BrokerAssumption DEF SweepList, ClaimInv, TypeInv, Exclusive,
       HandlersClaim, ClaimsHaveHandlers, WithinCapacity, DownIsQuiet, RunIsOver,
       RemovedAtRelease, ContainersAreClaimed, TypeOK, Claimed, brokerVars,
       handlerVars, dockerVars, sweepVars
  <2>2. TypeInv'
    BY <1>1, BrokerAssumption DEF SweepList, ClaimInv, TypeInv, Exclusive,
       HandlersClaim, RemovedAtRelease, ContainersAreClaimed, TypeOK, Claimed,
       brokerVars, handlerVars, dockerVars, sweepVars
  <2> QED
    BY <2>1, <2>2 DEF ClaimInv
<1>2. CASE SweepSnapshot
  <2>1. /\ Exclusive' /\ HandlersClaim' /\ ClaimsHaveHandlers'
        /\ WithinCapacity' /\ DownIsQuiet' /\ RunIsOver' /\ RemovedAtRelease'
        /\ ContainersAreClaimed'
    BY <1>2, BrokerAssumption DEF SweepSnapshot, ClaimInv, TypeInv, Exclusive,
       HandlersClaim, ClaimsHaveHandlers, WithinCapacity, DownIsQuiet, RunIsOver,
       RemovedAtRelease, ContainersAreClaimed, TypeOK, Claimed, brokerVars,
       handlerVars, dockerVars, sweepVars
  <2>2. TypeInv'
    BY <1>2, BrokerAssumption DEF SweepSnapshot, ClaimInv, TypeInv, Exclusive,
       HandlersClaim, RemovedAtRelease, ContainersAreClaimed, TypeOK, Claimed,
       brokerVars, handlerVars, dockerVars, sweepVars
  <2> QED
    BY <2>1, <2>2 DEF ClaimInv
<1>3. CASE SweepEnds
  <2>1. /\ Exclusive' /\ HandlersClaim' /\ ClaimsHaveHandlers'
        /\ WithinCapacity' /\ DownIsQuiet' /\ RunIsOver' /\ RemovedAtRelease'
        /\ ContainersAreClaimed'
    BY <1>3, BrokerAssumption DEF SweepEnds, ClaimInv, TypeInv, Exclusive,
       HandlersClaim, ClaimsHaveHandlers, WithinCapacity, DownIsQuiet, RunIsOver,
       RemovedAtRelease, ContainersAreClaimed, TypeOK, Claimed, brokerVars,
       handlerVars, dockerVars, sweepVars
  <2>2. TypeInv'
    BY <1>3, BrokerAssumption DEF SweepEnds, ClaimInv, TypeInv, Exclusive,
       HandlersClaim, RemovedAtRelease, ContainersAreClaimed, TypeOK, Claimed,
       brokerVars, handlerVars, dockerVars, sweepVars
  <2> QED
    BY <2>1, <2>2 DEF ClaimInv
<1>4. CASE SweepFails
  <2>1. /\ Exclusive' /\ HandlersClaim' /\ ClaimsHaveHandlers'
        /\ WithinCapacity' /\ DownIsQuiet' /\ RunIsOver' /\ RemovedAtRelease'
        /\ ContainersAreClaimed'
    BY <1>4, BrokerAssumption DEF SweepFails, ClaimInv, TypeInv, Exclusive,
       HandlersClaim, ClaimsHaveHandlers, WithinCapacity, DownIsQuiet, RunIsOver,
       RemovedAtRelease, ContainersAreClaimed, TypeOK, Claimed, brokerVars,
       handlerVars, dockerVars, sweepVars
  <2>2. TypeInv'
    BY <1>4, BrokerAssumption DEF SweepFails, ClaimInv, TypeInv, Exclusive,
       HandlersClaim, ClaimsHaveHandlers, WithinCapacity, DownIsQuiet, RunIsOver,
       RemovedAtRelease, ContainersAreClaimed, TypeOK, Claimed, brokerVars,
       handlerVars, dockerVars, sweepVars, Removed, DockerFails, DockerControl, Goto
  <2> QED
    BY <2>1, <2>2 DEF ClaimInv
<1>5. CASE SweepDies
  <2>1. /\ Exclusive' /\ HandlersClaim' /\ ClaimsHaveHandlers'
        /\ WithinCapacity' /\ DownIsQuiet' /\ RunIsOver' /\ RemovedAtRelease'
        /\ ContainersAreClaimed'
    BY <1>5, BrokerAssumption DEF SweepDies, ClaimInv, TypeInv, Exclusive,
       HandlersClaim, ClaimsHaveHandlers, WithinCapacity, DownIsQuiet, RunIsOver,
       RemovedAtRelease, ContainersAreClaimed, TypeOK, Claimed, brokerVars,
       handlerVars, dockerVars, sweepVars
  <2>2. TypeInv'
    BY <1>5, BrokerAssumption DEF SweepDies, ClaimInv, TypeInv, Exclusive,
       HandlersClaim, RemovedAtRelease, ContainersAreClaimed, TypeOK, Claimed,
       brokerVars, handlerVars, dockerVars, sweepVars
  <2> QED
    BY <2>1, <2>2 DEF ClaimInv
<1>6. CASE BeginStart
  <2>1. /\ Exclusive' /\ HandlersClaim' /\ ClaimsHaveHandlers'
        /\ WithinCapacity' /\ RunIsOver' /\ RemovedAtRelease'
    BY <1>6, BrokerAssumption DEF BeginStart, ClaimInv, TypeInv, Exclusive,
       HandlersClaim, ClaimsHaveHandlers, WithinCapacity, DownIsQuiet, RunIsOver,
       RemovedAtRelease, ContainersAreClaimed, TypeOK, Claimed, brokerVars,
       handlerVars, dockerVars, sweepVars
  <2>2. TypeInv'
    BY <1>6, BrokerAssumption DEF BeginStart, ClaimInv, TypeInv, Exclusive,
       HandlersClaim, RemovedAtRelease, ContainersAreClaimed, TypeOK, Claimed,
       brokerVars, handlerVars, dockerVars, sweepVars
  <2>3. DownIsQuiet'
    BY <1>6, BrokerAssumption DEF BeginStart, ClaimInv, TypeInv, Exclusive,
       HandlersClaim, ClaimsHaveHandlers, WithinCapacity, DownIsQuiet, RunIsOver,
       brokerVars, handlerVars, dockerVars, sweepVars
  <2>4. ContainersAreClaimed'
    BY <1>6, BrokerAssumption DEF BeginStart, RemovedAtRelease, ContainersAreClaimed
  <2> QED
    BY <2>1, <2>2, <2>3, <2>4 DEF ClaimInv
<1>7. CASE StartupFails
  <2>1. /\ Exclusive' /\ HandlersClaim' /\ ClaimsHaveHandlers'
        /\ WithinCapacity' /\ RunIsOver' /\ RemovedAtRelease'
    BY <1>7, BrokerAssumption DEF StartupFails, ClaimInv, TypeInv, Exclusive,
       HandlersClaim, ClaimsHaveHandlers, WithinCapacity, DownIsQuiet, RunIsOver,
       RemovedAtRelease, ContainersAreClaimed, TypeOK, Claimed, brokerVars,
       handlerVars, dockerVars, sweepVars
  <2>2. TypeInv'
    BY <1>7, BrokerAssumption DEF StartupFails, ClaimInv, TypeInv, Exclusive,
       HandlersClaim, RemovedAtRelease, ContainersAreClaimed, TypeOK, Claimed,
       brokerVars, handlerVars, dockerVars, sweepVars
  <2>3. DownIsQuiet'
    BY <1>7, BrokerAssumption DEF StartupFails, ClaimInv, TypeInv, Exclusive,
       HandlersClaim, ClaimsHaveHandlers, WithinCapacity, DownIsQuiet, RunIsOver,
       brokerVars, handlerVars, dockerVars, sweepVars
  <2>4. ContainersAreClaimed'
    BY <1>7, BrokerAssumption DEF StartupFails, RemovedAtRelease, ContainersAreClaimed
  <2> QED
    BY <2>1, <2>2, <2>3, <2>4 DEF ClaimInv
<1>8. CASE Serve
  <2>1. /\ Exclusive' /\ HandlersClaim' /\ ClaimsHaveHandlers'
        /\ WithinCapacity' /\ RunIsOver' /\ RemovedAtRelease'
    BY <1>8, BrokerAssumption DEF Serve, ClaimInv, TypeInv, Exclusive, HandlersClaim,
       ClaimsHaveHandlers, WithinCapacity, DownIsQuiet, RunIsOver, RemovedAtRelease,
       ContainersAreClaimed, TypeOK, Claimed, brokerVars, handlerVars, dockerVars,
       sweepVars
  <2>2. TypeInv'
    BY <1>8, BrokerAssumption DEF Serve, ClaimInv, TypeInv, Exclusive, HandlersClaim,
       RemovedAtRelease, ContainersAreClaimed, TypeOK, Claimed, brokerVars,
       handlerVars, dockerVars, sweepVars
  <2>3. DownIsQuiet'
    BY <1>8, BrokerAssumption DEF Serve, ClaimsHaveHandlers, WithinCapacity,
       DownIsQuiet, RunIsOver
  <2>4. ContainersAreClaimed'
    BY <1>8, BrokerAssumption DEF Serve, RemovedAtRelease, ContainersAreClaimed,
       TypeOK, Claimed, brokerVars, handlerVars, dockerVars, sweepVars
  <2> QED
    BY <2>1, <2>2, <2>3, <2>4 DEF ClaimInv
<1>9. CASE BeginClose
  <2>1. /\ Exclusive' /\ HandlersClaim' /\ ClaimsHaveHandlers'
        /\ WithinCapacity' /\ RunIsOver' /\ RemovedAtRelease'
    BY <1>9, BrokerAssumption DEF BeginClose, Registered, ClaimInv, TypeInv,
       Exclusive, HandlersClaim, ClaimsHaveHandlers, WithinCapacity, DownIsQuiet,
       RunIsOver, RemovedAtRelease, ContainersAreClaimed, TypeOK, Claimed, brokerVars,
       handlerVars, dockerVars, sweepVars
  <2>2. TypeInv'
    <3>1. cleanup' \subseteq Sessions \X BOOLEAN
      <4>1. \A s \in Sessions : Registered(s) \in BOOLEAN
        BY DEF Registered
      <4> QED
        BY <1>9, <4>1 DEF BeginClose, ClaimInv, TypeInv, TypeOK
    <3> QED
      BY <1>9, <3>1 DEF BeginClose, ClaimInv, TypeInv, TypeOK, handlerVars, dockerVars
  <2>3. DownIsQuiet'
    BY <1>9, BrokerAssumption DEF BeginClose, Registered, ClaimsHaveHandlers,
       WithinCapacity, DownIsQuiet, RunIsOver
  <2>4. ContainersAreClaimed'
    BY <1>9, BrokerAssumption DEF BeginClose, Registered, RemovedAtRelease,
       ContainersAreClaimed
  <2> QED
    BY <2>1, <2>2, <2>3, <2>4 DEF ClaimInv
<1>10. CASE Closed
  <2>1. /\ Exclusive' /\ RunIsOver' /\ RemovedAtRelease'
    BY <1>10, BrokerAssumption DEF Closed, ClaimInv, TypeInv, Exclusive,
       HandlersClaim, ClaimsHaveHandlers, WithinCapacity, DownIsQuiet, RunIsOver,
       RemovedAtRelease, ContainersAreClaimed, TypeOK, Claimed, brokerVars,
       handlerVars, dockerVars, sweepVars
  <2>2. TypeInv'
    BY <1>10, BrokerAssumption DEF Closed, ClaimInv, TypeInv, Exclusive,
       HandlersClaim, RemovedAtRelease, ContainersAreClaimed, TypeOK, Claimed,
       brokerVars, handlerVars, dockerVars, sweepVars
  <2>3. HandlersClaim'
    BY <1>10, BrokerAssumption DEF Closed, ClaimInv, TypeInv, Exclusive,
       HandlersClaim, RemovedAtRelease, ContainersAreClaimed, TypeOK, Claimed,
       brokerVars, handlerVars, dockerVars, sweepVars
  <2>4. ClaimsHaveHandlers'
    BY <1>10, BrokerAssumption DEF Closed, ClaimsHaveHandlers, WithinCapacity
  <2>5. WithinCapacity'
    BY <1>10, BrokerAssumption, FS_EmptySet DEF Closed, ClaimsHaveHandlers,
       WithinCapacity
  <2>6. DownIsQuiet'
    BY <1>10, BrokerAssumption DEF Closed, ClaimsHaveHandlers, WithinCapacity,
       DownIsQuiet, RunIsOver, brokerVars, handlerVars, dockerVars, sweepVars
  <2>7. ContainersAreClaimed'
    BY <1>10, BrokerAssumption DEF Closed, RemovedAtRelease, ContainersAreClaimed
  <2> QED
    BY <2>1, <2>2, <2>3, <2>4, <2>5, <2>6, <2>7 DEF ClaimInv
<1>11. CASE Crash
  <2>1. TypeInv'
    BY <1>11, BrokerAssumption DEF Crash, ClaimInv, TypeInv, Exclusive, HandlersClaim,
       ClaimsHaveHandlers, WithinCapacity, DownIsQuiet, RunIsOver, RemovedAtRelease,
       ContainersAreClaimed, TypeOK, Claimed, brokerVars, handlerVars, dockerVars,
       sweepVars, Removed, DockerFails, DockerControl, Goto
  <2>2. Exclusive'
    BY <1>11, BrokerAssumption DEF Crash, ClaimInv, TypeInv, Exclusive, HandlersClaim,
       RemovedAtRelease, ContainersAreClaimed, TypeOK, Claimed
  <2>3. HandlersClaim'
    BY <1>11, BrokerAssumption DEF Crash, ClaimInv, TypeInv, Exclusive, HandlersClaim,
       RemovedAtRelease, ContainersAreClaimed, TypeOK, Claimed
  <2>4. ClaimsHaveHandlers'
    BY <1>11, BrokerAssumption DEF Crash, ClaimsHaveHandlers, WithinCapacity
  <2>5. WithinCapacity'
    BY <1>11, BrokerAssumption, FS_EmptySet DEF Crash, ClaimsHaveHandlers,
       WithinCapacity
  <2>6. DownIsQuiet'
    BY <1>11, BrokerAssumption DEF Crash, ClaimsHaveHandlers, WithinCapacity,
       DownIsQuiet, RunIsOver
  <2>7. RunIsOver'
    BY <1>11, BrokerAssumption DEF Crash, ClaimsHaveHandlers, WithinCapacity,
       DownIsQuiet, RunIsOver
  <2>8. RemovedAtRelease'
    BY <1>11, BrokerAssumption DEF Crash, RemovedAtRelease, ContainersAreClaimed
  <2>9. ContainersAreClaimed'
    BY <1>11, BrokerAssumption DEF Crash, RemovedAtRelease, ContainersAreClaimed
  <2> QED
    BY <2>1, <2>2, <2>3, <2>4, <2>5, <2>6, <2>7, <2>8, <2>9 DEF ClaimInv
<1>12. ASSUME NEW s \in Sessions, SweepRemove(s)
      PROVE  ClaimInv'
  <2>1. /\ Exclusive' /\ HandlersClaim' /\ ClaimsHaveHandlers'
        /\ WithinCapacity' /\ DownIsQuiet' /\ RunIsOver'
    BY <1>12, BrokerAssumption DEF SweepRemove, ClaimInv, TypeInv, Exclusive,
       HandlersClaim, ClaimsHaveHandlers, WithinCapacity, DownIsQuiet, RunIsOver,
       brokerVars, handlerVars, dockerVars, sweepVars
  <2>2. TypeInv'
    BY <1>12, BrokerAssumption DEF SweepRemove, ClaimInv, TypeInv, Exclusive,
       HandlersClaim, RemovedAtRelease, ContainersAreClaimed, TypeOK, Claimed,
       brokerVars, handlerVars, dockerVars, sweepVars, Removed, DockerFails,
       DockerControl, Goto
  <2>3. RemovedAtRelease'
    BY <1>12, BrokerAssumption DEF SweepRemove, ClaimInv, TypeInv, Exclusive,
       HandlersClaim, RemovedAtRelease, ContainersAreClaimed, TypeOK, Claimed,
       brokerVars, handlerVars, dockerVars, sweepVars, Removed, DockerFails,
       DockerControl, Goto
  <2>4. ContainersAreClaimed'
    BY <1>12, BrokerAssumption DEF SweepRemove, ClaimInv, TypeInv, Exclusive,
       HandlersClaim, RemovedAtRelease, ContainersAreClaimed, TypeOK, Claimed,
       brokerVars, handlerVars, dockerVars, sweepVars, Removed, DockerFails,
       DockerControl, Goto
  <2> QED
    BY <2>1, <2>2, <2>3, <2>4 DEF ClaimInv
<1>13. ASSUME NEW s \in Sessions, StartupRemove(s)
      PROVE  ClaimInv'
  <2>1. /\ Exclusive' /\ HandlersClaim' /\ ClaimsHaveHandlers'
        /\ WithinCapacity' /\ DownIsQuiet' /\ RunIsOver'
    BY <1>13, BrokerAssumption DEF StartupRemove, ClaimInv, TypeInv, Exclusive,
       HandlersClaim, ClaimsHaveHandlers, WithinCapacity, DownIsQuiet, RunIsOver,
       brokerVars, handlerVars, dockerVars, sweepVars
  <2>2. TypeInv'
    BY <1>13, BrokerAssumption DEF StartupRemove, ClaimInv, TypeInv, Exclusive,
       HandlersClaim, RemovedAtRelease, ContainersAreClaimed, TypeOK, Claimed,
       brokerVars, handlerVars, dockerVars, sweepVars, Removed, DockerFails,
       DockerControl, Goto
  <2>3. RemovedAtRelease'
    BY <1>13, BrokerAssumption DEF StartupRemove, ClaimInv, TypeInv, Exclusive,
       HandlersClaim, ClaimsHaveHandlers, WithinCapacity, DownIsQuiet, RunIsOver,
       RemovedAtRelease, ContainersAreClaimed, TypeOK, Claimed, brokerVars,
       handlerVars, dockerVars, sweepVars
  <2>4. ContainersAreClaimed'
    BY <1>13, BrokerAssumption DEF StartupRemove, RemovedAtRelease,
       ContainersAreClaimed, TypeOK, Claimed, brokerVars, handlerVars, dockerVars,
       sweepVars
  <2> QED
    BY <2>1, <2>2, <2>3, <2>4 DEF ClaimInv
<1>14. ASSUME NEW s \in Sessions, NEW registered \in BOOLEAN, ForceCleanup(s, registered)
      PROVE  ClaimInv'
  <2>1. /\ Exclusive' /\ HandlersClaim' /\ ClaimsHaveHandlers'
        /\ WithinCapacity' /\ DownIsQuiet'
    BY <1>14, BrokerAssumption, DockerControlEffect DEF ForceCleanup, ClaimInv,
       TypeInv, Exclusive, HandlersClaim, ClaimsHaveHandlers, WithinCapacity,
       DownIsQuiet, RunIsOver, RemovedAtRelease, ContainersAreClaimed, TypeOK,
       Claimed, brokerVars
  <2>2. TypeInv'
    BY <1>14, BrokerAssumption, DockerControlEffect DEF ForceCleanup, ClaimInv,
       TypeInv, Exclusive, HandlersClaim, ClaimsHaveHandlers, ContainersAreClaimed,
       TypeOK, Claimed, brokerVars, handlerVars, dockerVars, sweepVars, Goto
  <2>3. RunIsOver'
    BY <1>14, BrokerAssumption, DockerControlEffect DEF ForceCleanup, ClaimInv,
       RunIsOver, RemovedAtRelease
  <2>4. RemovedAtRelease'
    BY <1>14, BrokerAssumption, DockerControlEffect DEF ForceCleanup, ClaimInv,
       TypeInv, Exclusive, HandlersClaim, ClaimsHaveHandlers, WithinCapacity,
       DownIsQuiet, RunIsOver, RemovedAtRelease
  <2>5. ContainersAreClaimed'
    BY <1>14, BrokerAssumption, DockerControlEffect DEF ForceCleanup, ClaimInv,
       ContainersAreClaimed, TypeOK, Claimed, brokerVars
  <2> QED
    BY <2>1, <2>2, <2>3, <2>4, <2>5 DEF ClaimInv
<1> QED
  BY <1>1, <1>2, <1>3, <1>4, <1>5, <1>6, <1>7, <1>8, <1>9, <1>10, <1>11, <1>12, <1>13, <1>14 DEF Broker

LEMMA ClaimInit == Init => ClaimInv
<1> SUFFICES ASSUME Init PROVE ClaimInv
  OBVIOUS
<1>1. TypeInv
  <2>1. control \in [Connections -> Seq({"terminate", "kill"})]
    BY DEF Init
  <2>2. \A k \in Connections : Len(control[k]) <= MaxControl
    BY BrokerAssumption DEF Init
  <2>3. leaked \subseteq {s \in Sessions : container[s] # None}
    BY DEF Init
  <2> QED
    BY <2>1, <2>2, <2>3 DEF Init, TypeInv, TypeOK
<1>2. Exclusive /\ HandlersClaim /\ ClaimsHaveHandlers
  BY DEF Init, Exclusive, HandlersClaim, ClaimsHaveHandlers, Claimed
<1>3. WithinCapacity
  BY FS_EmptySet, BrokerAssumption DEF Init, WithinCapacity
<1>4. DownIsQuiet /\ RunIsOver /\ RemovedAtRelease /\ ContainersAreClaimed
  BY DEF Init, DownIsQuiet, RunIsOver, RemovedAtRelease, ContainersAreClaimed
<1> QED
  BY <1>1, <1>2, <1>3, <1>4 DEF ClaimInv

LEMMA ClaimStep == ClaimInv /\ [Next]_vars => ClaimInv'
<1> SUFFICES ASSUME ClaimInv, [Next]_vars PROVE ClaimInv'
  OBVIOUS
<1>1. CASE UNCHANGED vars
  BY <1>1 DEF ClaimInv, TypeInv, TypeOK, Exclusive, HandlersClaim, ClaimsHaveHandlers,
     WithinCapacity, DownIsQuiet, RunIsOver, RemovedAtRelease, ContainersAreClaimed,
     vars, brokerVars, handlerVars, dockerVars, sweepVars
<1> QED
  BY <1>1, HandlerStep, DaemonStep, CoreStep, BrokerStep DEF Next

(***************************************************************************)
(* The invariant of the broker: one handler per claim that is not          *)
(* stranded, one such claim per handler between _claim and the end of the  *)
(* finally clause, `docker run' over before its container is removed, and  *)
(* the container gone when the claim is released (_handle_connection,      *)
(* _run_worker, reconcile_managed_containers, close).                      *)
(***************************************************************************)
THEOREM ClaimsInvariant == Spec => []ClaimInv
  BY ClaimInit, ClaimStep, PTL DEF Spec

(***************************************************************************)
(* Every variable keeps its type, `docker run' does not run before the     *)
(* claim, and only containers that exist are left behind.                  *)
(***************************************************************************)
THEOREM BrokerTypes == Spec => []TypeOK
<1>1. ClaimInv => TypeOK
  BY DEF ClaimInv, TypeInv
<1> QED
  BY <1>1, ClaimsInvariant, PTL

(***************************************************************************)
(* The sessions of _active are those of the handlers between _claim and    *)
(* _release, one handler each, and those whose handler raised in its       *)
(* finally clause, which have none; there are never more of them than      *)
(* max_workers, whatever docker commands fail, clients vanish before or    *)
(* after STARTED or brokers crash.                                         *)
(***************************************************************************)
THEOREM ClaimsAreExclusive == Spec => []ClaimsMatchHandlers
<1>1. ClaimInv => ClaimsMatchHandlers
  <2> SUFFICES ASSUME ClaimInv PROVE ClaimsMatchHandlers
    OBVIOUS
  <2> DEFINE H(s) == {k \in Connections : pc[k] \in Claimed /\ session[k] = s}
  <2>1. ASSUME NEW s \in Sessions, s \in active \ stranded
        PROVE  Cardinality(H(s)) = 1
    <3>1. PICK k \in Connections : pc[k] \in Claimed /\ session[k] = s
      BY <2>1 DEF ClaimInv, ClaimsHaveHandlers
    <3>2. H(s) = {k}
      BY <3>1 DEF ClaimInv, Exclusive
    <3> QED
      BY <3>2, FS_Singleton
  <2>2. ASSUME NEW s \in Sessions, s \notin active \ stranded
        PROVE  Cardinality(H(s)) = 0
    <3>1. H(s) = {}
      BY <2>2 DEF ClaimInv, HandlersClaim
    <3> QED
      BY <3>1, FS_EmptySet
  <2> QED
    BY <2>1, <2>2 DEF ClaimsMatchHandlers, ClaimInv, WithinCapacity
<1> QED
  BY <1>1, ClaimsInvariant, PTL

(***************************************************************************)
(* A broker that serves runs no container that was simply forgotten: each  *)
(* belongs to a handler, or is known to be left behind because a docker    *)
(* command failed or was skipped; a restart after a crash begins without   *)
(* any.                                                                    *)
(***************************************************************************)
THEOREM NoContainerIsForgotten == Spec => []ContainersAreClaimed
<1>1. ClaimInv => ContainersAreClaimed
  BY DEF ClaimInv
<1> QED
  BY <1>1, ClaimsInvariant, PTL
=============================================================================
