----------------------- MODULE SessionLifecycleProofs -----------------------
(***************************************************************************)
(* Proofs about SessionLifecycle, for every number of requests, replays    *)
(* and worker slots.                                                       *)
(***************************************************************************)
EXTENDS SessionLifecycle, TLAPS

(***************************************************************************)
(* What the suspended locals of a coroutine look like: an awaited process  *)
(* is a process, a coroutine that terminates a worker knows what follows,  *)
(* and a replay inside an action still has that action in its program.     *)
(***************************************************************************)
ControlOK ==
    /\ \A t \in Tasks : pc[t] \in {"attach", "ready", "wait"} => cap[t] \in Procs
    /\ \A t \in Tasks : after[t] # "none" => pc[t] \in {"close", "wait"}
    /\ \A t \in Tasks : after[t] = "power_off" => op[t] = "power_off"
    /\ \A t \in Tasks : pc[t] = "restore" => op[t] = "power_on"
    /\ \A t \in Tasks : pc[t] = "drain" => op[t] = "serial"
    /\ \A r \in Replays : pc[r] = "replaying" => op[r] = "replay"
    /\ \A r \in Replays :
          op[r] \in {"power_off", "power_on", "serial"} => program[r] # <<>>

TypeInv == TypeOK /\ ControlOK

LEMMA TypeInit == Init => TypeInv
<1> SUFFICES ASSUME Init PROVE TypeInv
  OBVIOUS
<1>1. state \in States /\ WorkerType /\ LockType
  BY DEF Init, States, WorkerType, LockType
<1>2. TaskType
  BY DEF Init, TaskType, Tasks, Pcs, LockedPcs
<1>3. ReplayType
  BY DEF Init, ReplayType
<1>4. DataType
  <2>1. replay_actions \in Seq(Actions) /\ Len(replay_actions) <= MaxActions
    BY MaxActionsAssumption DEF Init
  <2> QED
    BY <2>1 DEF Init, DataType
<1>5. ControlOK
  BY DistinctAssumption DEF Init, ControlOK, Tasks
<1> QED
  BY <1>1, <1>2, <1>3, <1>4, <1>5 DEF TypeInv, TypeOK

LEMMA AppendType ==
    ASSUME DataType, NEW a \in Actions, AppendReplayAction(a)
    PROVE  DataType'
<1>1. replay_actions' \in Seq(Actions) /\ Len(replay_actions') <= MaxActions
  BY MaxActionsAssumption DEF DataType, AppendReplayAction
<1> QED
  BY <1>1 DEF DataType, AppendReplayAction

LEMMA DestroyType ==
    ASSUME DataType, DestroyPrivateData
    PROVE  DataType'
<1>1. replay_actions' \in Seq(Actions) /\ Len(replay_actions') <= MaxActions
  BY MaxActionsAssumption DEF DestroyPrivateData
<1> QED
  BY <1>1 DEF DataType, DestroyPrivateData

LEMMA SameData ==
    ASSUME DataType, UNCHANGED dataVars
    PROVE  DataType'
  BY DEF DataType, dataVars

LEMMA SameReplay ==
    ASSUME ReplayType, UNCHANGED replayVars
    PROVE  ReplayType'
  BY DEF ReplayType, replayVars

LEMMA SameWorker ==
    ASSUME WorkerType, UNCHANGED workerVars
    PROVE  WorkerType'
  BY DEF WorkerType, workerVars

LEMMA SameLock ==
    ASSUME LockType, UNCHANGED lockVars
    PROVE  LockType'
  BY DEF LockType, lockVars

\* A coroutine that returns keeps the control facts, its program dropped or not.
LEMMA ReturnControl ==
    ASSUME TypeInv, NEW t \in Tasks, Return(t),
           \A r \in Replays : r # t => program'[r] = program[r]
    PROVE  TaskType' /\ ControlOK'
<1>1. TaskType'
  BY DEF TypeInv, TypeOK, TaskType, Return, Pcs
<1>2. ControlOK'
  BY DEF TypeInv, TypeOK, TaskType, ControlOK, Return, Tasks
<1> QED
  BY <1>1, <1>2

LEMMA ProgramUpdate ==
    ASSUME NEW S, NEW f \in [Replays -> S], NEW r, NEW s \in S
    PROVE  [f EXCEPT ![r] = s] \in [Replays -> S]
  OBVIOUS

LEMMA EndReplayType ==
    ASSUME TypeInv, NEW r \in Tasks, EndReplay(r)
    PROVE  TaskType' /\ ControlOK' /\ ReplayType'
<1>1. ReplayType'
  <2>0. <<>> \in Seq(Actions)
    OBVIOUS
  <2>1. program' \in [Replays -> Seq(Actions)]
    BY <2>0, ProgramUpdate, Zenon DEF TypeInv, TypeOK, ReplayType, EndReplay
  <2> QED
    BY <2>1 DEF TypeInv, TypeOK, ReplayType, EndReplay
<1>2. \A s \in Replays : s # r => program'[s] = program[s]
  BY DEF TypeInv, TypeOK, ReplayType, EndReplay
<1>3. Return(r)
  BY DEF EndReplay
<1> QED
  BY <1>1, <1>2, <1>3, ReturnControl

LEMMA ReplayRaisedType ==
    ASSUME TypeInv, NEW r \in Tasks, ReplayRaised(r)
    PROVE  state' \in States /\ TaskType' /\ ControlOK' /\ LockType' /\ ReplayType' /\ DataType'
<1>1. TaskType' /\ ControlOK' /\ ReplayType'
  BY EndReplayType DEF ReplayRaised
<1>2. LockType'
  BY SameLock DEF TypeInv, TypeOK, ReplayRaised
<1>3. DataType'
  BY SameData, DestroyType DEF TypeInv, TypeOK, ReplayRaised
<1>4. state' \in States
  BY DEF TypeInv, TypeOK, ReplayRaised, States
<1> QED
  BY <1>1, <1>2, <1>3, <1>4

LEMMA BeginTerminateType ==
    ASSUME TypeInv, NEW t \in Tasks,
           NEW what \in {"stop", "power_off", "abort", "discard", "restart"},
           BeginTerminate(t, what),
           what = "power_off" => op[t] = "power_off",
           UNCHANGED <<op, program>>
    PROVE  TaskType' /\ ControlOK'
<1>1. TaskType'
  BY DEF TypeInv, TypeOK, TaskType, BeginTerminate, Pcs, LockedPcs
<1>2. ControlOK'
  BY DEF TypeInv, TypeOK, TaskType, ControlOK, BeginTerminate, Tasks
<1> QED
  BY <1>1, <1>2

LEMMA ActionDoneType ==
    ASSUME TypeInv, NEW t \in Tasks, ActionDone(t),
           op[t] \in {"power_off", "power_on", "serial"}
    PROVE  TaskType' /\ ControlOK' /\ LockType' /\ ReplayType'
<1>1. CASE t \in Replays
  <2>1. TaskType'
    BY <1>1 DEF TypeInv, TypeOK, TaskType, ActionDone, Suspend, Pcs, AllOps
  <2>2. program[t] \in Seq(Actions) /\ program[t] # <<>>
    BY <1>1 DEF TypeInv, TypeOK, ReplayType, ControlOK
  <2>3. Tail(program[t]) \in Seq(Actions)
    BY <2>2
  <2>4. ReplayType'
    <3>1. program' \in [Replays -> Seq(Actions)]
      BY <1>1, <2>3, ProgramUpdate, Zenon DEF TypeInv, TypeOK, ReplayType, ActionDone
    <3> QED
      BY <1>1, <3>1 DEF TypeInv, TypeOK, ReplayType, ActionDone
  <2>5. ControlOK'
    <3>1. \A s \in Replays : s # t => program'[s] = program[s]
      BY <1>1, Zenon DEF TypeInv, TypeOK, ReplayType, ActionDone
    <3>2. /\ pc' = [pc EXCEPT ![t] = "replaying"]
          /\ op' = [op EXCEPT ![t] = "replay"]
          /\ after' = [after EXCEPT ![t] = "none"]
          /\ cap' = [cap EXCEPT ![t] = None]
      BY <1>1 DEF ActionDone, Suspend
    <3> QED
      BY <1>1, <3>1, <3>2 DEF TypeInv, TypeOK, TaskType, ControlOK, Tasks
  <2>6. LockType'
    BY <1>1, SameLock DEF TypeInv, TypeOK, ActionDone
  <2> QED
    BY <2>1, <2>4, <2>5, <2>6
<1>2. CASE t \notin Replays
  <2>1. Return(t) /\ Release(t) /\ UNCHANGED replayVars
    BY <1>2 DEF ActionDone
  <2>2. TaskType' /\ ControlOK'
    BY <2>1, ReturnControl DEF replayVars
  <2>3. LockType'
    BY <2>1 DEF TypeInv, TypeOK, LockType, Release
  <2>4. ReplayType'
    BY <2>1, SameReplay DEF TypeInv, TypeOK
  <2> QED
    BY <2>2, <2>3, <2>4
<1> QED
  BY <1>1, <1>2

LEMMA LaunchRaisedType ==
    ASSUME TypeInv, NEW t \in Tasks, LaunchRaised(t)
    PROVE  state' \in States /\ TaskType' /\ ControlOK' /\ LockType' /\ ReplayType' /\ DataType'
<1>1. CASE /\ op[t] = "create" /\ state' = "failed" /\ DestroyPrivateData
           /\ Return(t) /\ UNCHANGED <<lockVars, replayVars>>
  <2>1. TaskType' /\ ControlOK'
    BY <1>1, ReturnControl DEF replayVars
  <2> QED
    BY <1>1, <2>1, DestroyType, SameLock, SameReplay DEF TypeInv, TypeOK, States
<1>2. CASE /\ op[t] = "power_on" /\ BeginTerminate(t, "discard")
           /\ UNCHANGED <<state, op, lockVars, replayVars, dataVars>>
  <2>1. TaskType' /\ ControlOK'
    BY <1>2, BeginTerminateType DEF replayVars
  <2> QED
    BY <1>2, <2>1, SameData, SameLock, SameReplay DEF TypeInv, TypeOK
<1>3. CASE op[t] = "replay" /\ ReplayRaised(t)
  BY <1>3, ReplayRaisedType
<1> QED
  BY <1>1, <1>2, <1>3 DEF LaunchRaised

LEMMA LaunchStepType ==
    ASSUME TypeInv, NEW t \in Tasks, LaunchStep(t)
    PROVE  TypeInv'
<1>1. CASE Spawn(t)
  <2>1. PICK p \in FreeProcs :
          /\ worker' = [worker EXCEPT ![p] = "alive"]
          /\ reader' = [reader EXCEPT ![p] = "none"]
          /\ cap' = [cap EXCEPT ![t] = p]
    BY <1>1 DEF Spawn
  <2>2. p \in Procs
    BY DEF FreeProcs
  <2>3. WorkerType'
    BY <1>1, <2>1, <2>2 DEF TypeInv, TypeOK, WorkerType, Spawn
  <2>4. TaskType'
    BY <1>1, <2>1, <2>2 DEF TypeInv, TypeOK, TaskType, Spawn, Suspend, Pcs, LockedPcs
  <2>5. ControlOK'
    BY <1>1, <2>1, <2>2 DEF TypeInv, TypeOK, TaskType, ControlOK, Spawn, Suspend, Tasks, replayVars
  <2> QED
    BY <1>1, <2>3, <2>4, <2>5, SameData, SameLock, SameReplay DEF TypeInv, TypeOK, Spawn
<1>2. CASE SpawnFails(t)
  BY <1>2, LaunchRaisedType, SameWorker DEF TypeInv, TypeOK, SpawnFails
<1>3. CASE Attach(t)
  <2>1. cap[t] \in Procs
    BY <1>3 DEF TypeInv, ControlOK, Attach
  <2>2. WorkerType'
    BY <1>3, <2>1 DEF TypeInv, TypeOK, WorkerType, Attach
  <2>3. TaskType'
    BY <1>3 DEF TypeInv, TypeOK, TaskType, Attach, Suspend, Pcs, LockedPcs
  <2>4. ControlOK'
    BY <1>3 DEF TypeInv, TypeOK, TaskType, ControlOK, Attach, Suspend, Tasks, replayVars
  <2> QED
    BY <1>3, <2>2, <2>3, <2>4, SameData, SameLock, SameReplay DEF TypeInv, TypeOK, Attach
<1>4. CASE Ready(t)
  <2>1. state' \in States /\ WorkerType'
    BY <1>4, SameWorker DEF TypeInv, TypeOK, Ready, States
  <2>2. CASE op[t] = "create" /\ Return(t) /\ UNCHANGED <<lockVars, replayVars, dataVars>>
    <3>1. TaskType' /\ ControlOK'
      BY <2>2, ReturnControl DEF replayVars
    <3> QED
      BY <2>1, <2>2, <3>1, SameData, SameLock, SameReplay DEF TypeInv, TypeOK
  <2>3. CASE /\ op[t] = "replay" /\ Suspend(t, "replaying")
             /\ cap' = [cap EXCEPT ![t] = None]
             /\ UNCHANGED <<op, after, lockVars, replayVars, dataVars>>
    <3>1. TaskType'
      BY <2>3 DEF TypeInv, TypeOK, TaskType, Suspend, Pcs
    <3>2. ControlOK'
      BY <1>4, <2>3 DEF TypeInv, TypeOK, TaskType, ControlOK, Suspend, Ready, Tasks, replayVars
    <3> QED
      BY <2>1, <2>3, <3>1, <3>2, SameData, SameLock, SameReplay DEF TypeInv, TypeOK
  <2>4. CASE /\ op[t] = "power_on" /\ Suspend(t, "restore")
             /\ UNCHANGED <<op, after, cap, lockVars, replayVars, dataVars>>
    <3>1. TaskType'
      BY <2>4 DEF TypeInv, TypeOK, TaskType, Suspend, Pcs, LockedPcs
    <3>2. ControlOK'
      BY <1>4, <2>4 DEF TypeInv, TypeOK, TaskType, ControlOK, Suspend, Ready, Tasks, replayVars
    <3> QED
      BY <2>1, <2>4, <3>1, <3>2, SameData, SameLock, SameReplay DEF TypeInv, TypeOK
  <2>5. CASE /\ op[t] = "power_on" /\ qmp_lock = None
             /\ AppendReplayAction("power_on") /\ ActionDone(t)
    <3>1. DataType'
      BY <2>5, AppendType DEF TypeInv, TypeOK, Actions
    <3> QED
      BY <2>1, <2>5, <3>1, ActionDoneType DEF TypeInv, TypeOK
  <2> QED
    BY <1>4, <2>2, <2>3, <2>4, <2>5 DEF Ready
<1>5. CASE NotReady(t)
  <2>1. TaskType' /\ ControlOK'
    BY <1>5, BeginTerminateType DEF NotReady, replayVars
  <2> QED
    BY <1>5, <2>1, SameData, SameLock, SameReplay, SameWorker DEF TypeInv, TypeOK, NotReady
<1> QED
  BY <1>1, <1>2, <1>3, <1>4, <1>5 DEF LaunchStep

LEMMA TerminateStepType ==
    ASSUME TypeInv, NEW t \in Tasks, TerminateStep(t)
    PROVE  TypeInv'
<1>1. CASE Capture(t)
  <2>1. WorkerType'
    BY <1>1 DEF TypeInv, TypeOK, WorkerType, Capture
  <2>2. TaskType'
    BY <1>1 DEF TypeInv, TypeOK, TaskType, WorkerType, Capture, Suspend, Pcs, LockedPcs
  <2>3. ControlOK'
    BY <1>1 DEF TypeInv, TypeOK, TaskType, WorkerType, ControlOK, Capture, Suspend, Tasks, replayVars
  <2> QED
    BY <1>1, <2>1, <2>2, <2>3, SameData, SameLock, SameReplay DEF TypeInv, TypeOK, Capture
<1>2. CASE KillTimeout(t)
  <2>1. WorkerType'
    BY <1>2 DEF TypeInv, TypeOK, WorkerType, KillTimeout
  <2>2. TaskType' /\ ControlOK'
    BY <1>2 DEF TypeInv, TypeOK, TaskType, ControlOK, KillTimeout, taskVars, replayVars
  <2> QED
    BY <1>2, <2>1, <2>2, SameData, SameLock, SameReplay DEF TypeInv, TypeOK, KillTimeout
<1>3. CASE FinishStop(t)
  <2>1. TaskType' /\ ControlOK'
    BY <1>3, ReturnControl DEF FinishStop, replayVars
  <2>2. LockType'
    BY <1>3 DEF TypeInv, TypeOK, LockType, FinishStop, Release
  <2>3. state' \in States
    BY <1>3 DEF FinishStop, States
  <2> QED
    BY <1>3, <2>1, <2>2, <2>3, DestroyType, SameWorker, SameReplay DEF TypeInv, TypeOK, FinishStop
<1>4. CASE FinishPowerOff(t)
  <2>1. DataType'
    BY <1>4, AppendType DEF TypeInv, TypeOK, FinishPowerOff, Actions
  <2>2. TaskType' /\ ControlOK' /\ LockType' /\ ReplayType'
    <3>1. op[t] = "power_off"
      BY <1>4 DEF TypeInv, ControlOK, FinishPowerOff
    <3> QED
      BY <1>4, <3>1, ActionDoneType DEF FinishPowerOff
  <2> QED
    BY <1>4, <2>1, <2>2, SameWorker DEF TypeInv, TypeOK, FinishPowerOff, States
<1>5. CASE FinishAbort(t)
  BY <1>5, LaunchRaisedType, SameWorker DEF TypeInv, TypeOK, FinishAbort
<1>6. CASE FinishDiscard(t)
  <2>1. state' \in States /\ DataType' /\ WorkerType'
    BY <1>6, DestroyType, SameWorker DEF TypeInv, TypeOK, FinishDiscard, States
  <2>2. CASE EndReplay(t) /\ UNCHANGED lockVars
    BY <2>1, <2>2, EndReplayType, SameLock DEF TypeInv, TypeOK
  <2>3. CASE Return(t) /\ Release(t) /\ UNCHANGED replayVars
    <3>1. TaskType' /\ ControlOK'
      BY <2>3, ReturnControl DEF replayVars
    <3>2. LockType'
      BY <2>3 DEF TypeInv, TypeOK, LockType, Release
    <3> QED
      BY <2>1, <2>3, <3>1, <3>2, SameReplay DEF TypeInv, TypeOK
  <2> QED
    BY <1>6, <2>2, <2>3 DEF FinishDiscard
<1> QED
  BY <1>1, <1>2, <1>3, <1>4, <1>5, <1>6 DEF TerminateStep

LEMMA LockStepType ==
    ASSUME TypeInv, NEW t \in Tasks, LockStep(t)
    PROVE  TypeInv'
<1>1. CASE Restore(t)
  <2>1. DataType'
    BY <1>1, AppendType DEF TypeInv, TypeOK, Restore, Actions
  <2>2. TaskType' /\ ControlOK' /\ LockType' /\ ReplayType'
    <3>1. op[t] = "power_on"
      BY <1>1 DEF TypeInv, ControlOK, Restore
    <3> QED
      BY <1>1, <3>1, ActionDoneType DEF Restore
  <2> QED
    BY <1>1, <2>1, <2>2, SameWorker DEF TypeInv, TypeOK, Restore
<1>2. CASE RestoreFails(t)
  <2>1. TaskType' /\ ControlOK'
    BY <1>2, BeginTerminateType DEF RestoreFails, replayVars
  <2> QED
    BY <1>2, <2>1, SameData, SameLock, SameReplay, SameWorker DEF TypeInv, TypeOK, RestoreFails
<1>3. CASE t \in Requests /\ StopUnderLock(t)
  <2>1. TaskType' /\ ControlOK'
    BY <1>3, BeginTerminateType DEF StopUnderLock, replayVars
  <2>2. LockType'
    BY <1>3 DEF TypeInv, TypeOK, LockType, StopUnderLock, Lock
  <2> QED
    BY <1>3, <2>1, <2>2, SameData, SameReplay, SameWorker DEF TypeInv, TypeOK, StopUnderLock
<1>4. CASE t \in Requests /\ PowerOff(t)
  <2>1. TaskType' /\ ControlOK'
    BY <1>4, BeginTerminateType DEF PowerOff, replayVars
  <2>2. LockType'
    BY <1>4 DEF TypeInv, TypeOK, LockType, PowerOff, Lock
  <2> QED
    BY <1>4, <2>1, <2>2, SameData, SameReplay, SameWorker DEF TypeInv, TypeOK, PowerOff
<1>5. CASE t \in Requests /\ PowerOn(t)
  <2>1. TaskType'
    BY <1>5 DEF TypeInv, TypeOK, TaskType, PowerOn, Suspend, Pcs, LockedPcs
  <2>2. ControlOK'
    BY <1>5 DEF TypeInv, TypeOK, TaskType, ControlOK, PowerOn, Lock, Suspend, Tasks, replayVars
  <2>3. LockType'
    BY <1>5 DEF TypeInv, TypeOK, LockType, PowerOn, Lock
  <2> QED
    BY <1>5, <2>1, <2>2, <2>3, SameData, SameReplay, SameWorker
    DEF TypeInv, TypeOK, PowerOn, States
<1>6. CASE t \in Requests /\ PowerRefused(t)
  <2>1. TaskType' /\ ControlOK'
    BY <1>6, ReturnControl DEF PowerRefused, replayVars
  <2> QED
    BY <1>6, <2>1, SameData, SameLock, SameReplay, SameWorker DEF TypeInv, TypeOK, PowerRefused
<1>7. CASE t \in Requests /\ QmpLock(t)
  <2>1. LockType'
    BY <1>7 DEF TypeInv, TypeOK, LockType, QmpLock
  <2>2. TaskType' /\ ControlOK'
    <3>1. CASE Return(t)
      BY <1>7, <3>1, ReturnControl DEF QmpLock, replayVars
    <3>2. CASE Suspend(t, "qmp") /\ UNCHANGED <<op, after, cap>>
      <4>1. TaskType'
        BY <3>2 DEF TypeInv, TypeOK, TaskType, Suspend, Pcs
      <4>2. ControlOK'
        BY <1>7, <3>2 DEF TypeInv, TypeOK, TaskType, ControlOK, QmpLock, Suspend, Tasks, replayVars
      <4> QED
        BY <4>1, <4>2
    <3> QED
      BY <1>7, <3>1, <3>2 DEF QmpLock
  <2> QED
    BY <1>7, <2>1, <2>2, SameData, SameReplay, SameWorker DEF TypeInv, TypeOK, QmpLock
<1> QED
  BY <1>1, <1>2, <1>3, <1>4, <1>5, <1>6, <1>7 DEF LockStep

LEMMA DrainStepType ==
    ASSUME TypeInv, NEW t \in Tasks, DrainStep(t)
    PROVE  TypeInv'
<1>1. CASE Drained(t)
  <2>1. DataType'
    BY <1>1, AppendType DEF TypeInv, TypeOK, Drained, Actions
  <2>2. CASE ActionDone(t)
    <3>1. op[t] = "serial"
      BY <1>1 DEF TypeInv, ControlOK, Drained
    <3> QED
      BY <1>1, <2>1, <2>2, <3>1, ActionDoneType, SameWorker DEF TypeInv, TypeOK, Drained
  <2>3. CASE Return(t) /\ UNCHANGED <<lockVars, replayVars>>
    <3>1. TaskType' /\ ControlOK'
      BY <2>3, ReturnControl DEF replayVars
    <3> QED
      BY <1>1, <2>1, <2>3, <3>1, SameLock, SameReplay, SameWorker DEF TypeInv, TypeOK, Drained
  <2> QED
    BY <1>1, <2>2, <2>3 DEF Drained
<1>2. CASE DrainFails(t)
  <2>1. CASE ReplayRaised(t)
    BY <1>2, <2>1, ReplayRaisedType, SameWorker DEF TypeInv, TypeOK, DrainFails
  <2>2. CASE Return(t) /\ UNCHANGED <<state, lockVars, replayVars, dataVars>>
    <3>1. TaskType' /\ ControlOK'
      BY <2>2, ReturnControl DEF replayVars
    <3> QED
      BY <1>2, <2>2, <3>1, SameData, SameLock, SameReplay, SameWorker
      DEF TypeInv, TypeOK, DrainFails
  <2> QED
    BY <1>2, <2>1, <2>2 DEF DrainFails
<1> QED
  BY <1>1, <1>2 DEF DrainStep

LEMMA BeginStopType ==
    ASSUME TypeInv, NEW q \in Requests, NEW o \in {"stop", "expire"},
           pc[q] \in {"idle", "scanned"}, BeginStop(q, o)
    PROVE  TypeInv'
<1> q \in Tasks
  BY DEF Tasks
<1>1. TaskType'
  <2>1. cap' \in [Tasks -> Procs \cup Replays \cup {None}]
    BY DEF TypeInv, TypeOK, TaskType, ReplayType, BeginStop
  <2>2. pc' \in [Tasks -> Pcs]
    BY DEF TypeInv, TypeOK, TaskType, BeginStop, Suspend, Pcs
  <2>3. op' \in [Tasks -> AllOps \cup {"create", "none"}]
    BY DEF TypeInv, TypeOK, TaskType, BeginStop, AllOps
  <2> QED
    BY <2>1, <2>2, <2>3 DEF TypeInv, TypeOK, TaskType, BeginStop
<1>2. ControlOK'
  BY DistinctAssumption
  DEF TypeInv, TypeOK, TaskType, ControlOK, BeginStop, Suspend, Tasks
<1>3. ReplayType'
  <2>1. cancelled' \subseteq Replays
    BY DEF TypeInv, TypeOK, ReplayType, BeginStop
  <2> QED
    BY <2>1 DEF TypeInv, TypeOK, ReplayType, BeginStop
<1> QED
  BY <1>1, <1>2, <1>3, SameData, SameLock, SameWorker DEF TypeInv, TypeOK, BeginStop

LEMMA RequestStepType ==
    ASSUME TypeInv, NEW q \in Requests, RequestStep(q) \/ ClientStep(q)
    PROVE  TypeInv'
<1> q \in Tasks
  BY DEF Tasks
<1>1. CASE Expire(q) \/ Stop(q)
  BY <1>1, BeginStopType DEF Expire, Stop
<1>2. CASE Joined(q)
  <2>1. TaskType'
    BY <1>2 DEF TypeInv, TypeOK, TaskType, Joined, Suspend, Pcs
  <2>2. ControlOK'
    BY <1>2 DEF TypeInv, TypeOK, TaskType, ControlOK, Joined, Suspend, Tasks, replayVars
  <2> QED
    BY <1>2, <2>1, <2>2, SameData, SameLock, SameReplay, SameWorker DEF TypeInv, TypeOK, Joined
<1>3. CASE QmpAnswer(q)
  <2>1. TaskType' /\ ControlOK'
    BY <1>3, ReturnControl DEF QmpAnswer, replayVars
  <2>2. LockType'
    BY <1>3 DEF TypeInv, TypeOK, LockType, QmpAnswer
  <2>3. DataType'
    BY <1>3, AppendType, SameData DEF TypeInv, TypeOK, QmpAnswer, Actions
  <2>4. state' \in States
    BY <1>3 DEF TypeInv, TypeOK, QmpAnswer, StateAfterQmp, States, Powered
  <2> QED
    BY <1>3, <2>1, <2>2, <2>3, <2>4, SameReplay, SameWorker DEF TypeInv, TypeOK, QmpAnswer
<1>4. CASE QmpFails(q)
  <2>1. TaskType' /\ ControlOK'
    BY <1>4, ReturnControl DEF QmpFails, replayVars
  <2>2. LockType'
    BY <1>4 DEF TypeInv, TypeOK, LockType, QmpFails
  <2> QED
    BY <1>4, <2>1, <2>2, SameData, SameReplay, SameWorker DEF TypeInv, TypeOK, QmpFails
<1>5. CASE ExpiryScan(q)
  <2>1. TaskType'
    BY <1>5 DEF TypeInv, TypeOK, TaskType, ExpiryScan, Suspend, Pcs, AllOps
  <2>2. ControlOK'
    BY <1>5, DistinctAssumption
    DEF TypeInv, TypeOK, TaskType, ControlOK, ExpiryScan, Suspend, Tasks, replayVars
  <2> QED
    BY <1>5, <2>1, <2>2, SameData, SameLock, SameReplay, SameWorker DEF TypeInv, TypeOK, ExpiryScan
<1>6. ASSUME NEW o \in {"power_off", "power_on"}, RequestPower(q, o) PROVE TypeInv'
  <2>1. TaskType'
    BY <1>6 DEF TypeInv, TypeOK, TaskType, RequestPower, Suspend, Pcs, AllOps
  <2>2. ControlOK'
    BY <1>6, DistinctAssumption
    DEF TypeInv, TypeOK, TaskType, ControlOK, RequestPower, Suspend, Tasks, replayVars
  <2> QED
    BY <1>6, <2>1, <2>2, SameData, SameLock, SameReplay, SameWorker DEF TypeInv, TypeOK, RequestPower
<1>7. ASSUME NEW o \in QmpOps, QmpBegin(q, o) PROVE TypeInv'
  <2>1. TaskType'
    BY <1>7 DEF TypeInv, TypeOK, TaskType, QmpBegin, QmpOps, Suspend, Pcs, AllOps
  <2>2. ControlOK'
    BY <1>7, DistinctAssumption
    DEF TypeInv, TypeOK, TaskType, ControlOK, QmpBegin, Suspend, Tasks, replayVars
  <2> QED
    BY <1>7, <2>1, <2>2, SameData, SameLock, SameReplay, SameWorker DEF TypeInv, TypeOK, QmpBegin
<1>8. CASE WriteSerial(q)
  <2>1. TaskType'
    BY <1>8 DEF TypeInv, TypeOK, TaskType, WriteSerial, Suspend, Pcs, AllOps
  <2>2. ControlOK'
    BY <1>8, DistinctAssumption
    DEF TypeInv, TypeOK, TaskType, ControlOK, WriteSerial, Suspend, Tasks, replayVars
  <2> QED
    BY <1>8, <2>1, <2>2, SameData, SameLock, SameReplay, SameWorker DEF TypeInv, TypeOK, WriteSerial
<1> QED
  BY <1>1, <1>2, <1>3, <1>4, <1>5, <1>6, <1>7, <1>8 DEF RequestStep, ClientStep

LEMMA ReplayStepType ==
    ASSUME TypeInv, NEW r \in Replays, ReplayStep(r) \/ StartReplay(r)
    PROVE  TypeInv'
<1> r \in Tasks
  BY DEF Tasks
<1>1. CASE StartReplay(r)
  <2>1. TaskType'
    BY <1>1 DEF TypeInv, TypeOK, TaskType, StartReplay, Suspend, Pcs, AllOps
  <2>2. ReplayType'
    <3>1. program' \in [Replays -> Seq(Actions)]
      BY <1>1, ProgramUpdate, Zenon DEF TypeInv, TypeOK, ReplayType, DataType, StartReplay
    <3> QED
      BY <1>1, <3>1 DEF TypeInv, TypeOK, ReplayType, StartReplay
  <2>3. ControlOK'
    <3>1. \A s \in Replays : s # r => program'[s] = program[s]
      BY <1>1, Zenon DEF TypeInv, TypeOK, ReplayType, StartReplay
    <3>2. /\ pc[r] = "idle" /\ pc' = [pc EXCEPT ![r] = "queued"]
          /\ op' = [op EXCEPT ![r] = "replay"] /\ UNCHANGED <<after, cap>>
      BY <1>1 DEF StartReplay, Suspend
    <3> QED
      BY <3>1, <3>2 DEF TypeInv, TypeOK, TaskType, ControlOK, Tasks
  <2> QED
    BY <1>1, <2>1, <2>2, <2>3, SameData, SameLock, SameWorker DEF TypeInv, TypeOK, StartReplay
<1>2. CASE RunReplay(r)
  <2>1. TaskType' /\ ControlOK'
    BY <1>2, BeginTerminateType DEF RunReplay
  <2>2. ReplayType'
    BY <1>2 DEF TypeInv, TypeOK, ReplayType, RunReplay
  <2> QED
    BY <1>2, <2>1, <2>2, SameData, SameLock, SameWorker DEF TypeInv, TypeOK, RunReplay
<1>3. CASE FinishRestart(r)
  <2>1. TaskType'
    BY <1>3 DEF TypeInv, TypeOK, TaskType, FinishRestart, Suspend, Pcs, LockedPcs
  <2>2. ControlOK'
    BY <1>3 DEF TypeInv, TypeOK, TaskType, ControlOK, FinishRestart, Suspend, Tasks, replayVars
  <2>3. DataType'
    <3>1. replay_actions' \in Seq(Actions) /\ Len(replay_actions') <= MaxActions
      BY <1>3, MaxActionsAssumption DEF FinishRestart
    <3> QED
      BY <1>3, <3>1 DEF TypeInv, TypeOK, DataType, FinishRestart
  <2> QED
    BY <1>3, <2>1, <2>2, <2>3, SameLock, SameReplay, SameWorker
    DEF TypeInv, TypeOK, FinishRestart, States
<1>4. CASE ReplayInput(r)
  <2>1. DataType'
    BY <1>4, AppendType DEF TypeInv, TypeOK, ReplayInput, Actions
  <2>2. TaskType'
    BY <1>4 DEF TypeInv, TypeOK, TaskType, ReplayInput, taskVars
  <2>3. program' = [program EXCEPT ![r] = Tail(program[r])] /\ program[r] # <<>>
    BY <1>4 DEF ReplayInput
  <2>4. program \in [Replays -> Seq(Actions)]
    BY DEF TypeInv, TypeOK, ReplayType
  <2>5. ReplayType'
    <3>1. program[r] \in Seq(Actions)
      BY <2>4
    <3>2. Tail(program[r]) \in Seq(Actions)
      BY <2>3, <3>1
    <3>3. program' \in [Replays -> Seq(Actions)]
      BY <2>3, <2>4, <3>2, ProgramUpdate, Zenon
    <3> QED
      BY <1>4, <3>3 DEF TypeInv, TypeOK, ReplayType, ReplayInput
  <2>6. ControlOK'
    <3>1. \A s \in Replays : s # r => program'[s] = program[s]
      BY <2>3, <2>4, Zenon
    <3>2. pc[r] = "replaying" /\ UNCHANGED <<pc, op, after, cap>>
      BY <1>4 DEF ReplayInput, taskVars
    <3> QED
      BY <3>1, <3>2 DEF TypeInv, ControlOK
  <2> QED
    BY <1>4, <2>1, <2>2, <2>5, <2>6, SameLock, SameWorker DEF TypeInv, TypeOK, ReplayInput
<1>5. CASE ReplayInputFails(r)
  BY <1>5, ReplayRaisedType, SameWorker DEF TypeInv, TypeOK, ReplayInputFails
<1>6. CASE ReplayPowerOff(r)
  <2>1. TaskType'
    BY <1>6 DEF TypeInv, TypeOK, TaskType, ReplayPowerOff, BeginTerminate, Pcs, LockedPcs, AllOps
  <2>2. ControlOK'
    BY <1>6 DEF TypeInv, TypeOK, TaskType, ControlOK, ReplayPowerOff, BeginTerminate, Tasks, replayVars
  <2> QED
    BY <1>6, <2>1, <2>2, SameData, SameLock, SameReplay, SameWorker DEF TypeInv, TypeOK, ReplayPowerOff
<1>7. CASE ReplayPowerOn(r)
  <2>1. TaskType'
    BY <1>7 DEF TypeInv, TypeOK, TaskType, ReplayPowerOn, Suspend, Pcs, LockedPcs, AllOps
  <2>2. ControlOK'
    BY <1>7 DEF TypeInv, TypeOK, TaskType, ControlOK, ReplayPowerOn, Suspend, Tasks, replayVars
  <2> QED
    BY <1>7, <2>1, <2>2, SameData, SameLock, SameReplay, SameWorker
    DEF TypeInv, TypeOK, ReplayPowerOn, States
<1>8. CASE ReplayCompletes(r)
  BY <1>8, EndReplayType, SameData, SameLock, SameWorker DEF TypeInv, TypeOK, ReplayCompletes
<1>9. CASE CancelReplay(r)
  <2>1. TaskType' /\ ControlOK' /\ ReplayType'
    <3>1. CASE EndReplay(r)
      BY <3>1, EndReplayType
    <3>2. CASE /\ Return(r)
               /\ cancelled' = cancelled \ {r}
               /\ program' = [program EXCEPT ![r] = <<>>]
               /\ UNCHANGED <<replay_task, accept_live_input>>
      <4>1. <<>> \in Seq(Actions)
        OBVIOUS
      <4>2. program' \in [Replays -> Seq(Actions)]
        BY <3>2, <4>1, ProgramUpdate, Zenon DEF TypeInv, TypeOK, ReplayType
      <4>3. \A s \in Replays : s # r => program'[s] = program[s]
        BY <3>2, Zenon DEF TypeInv, TypeOK, ReplayType
      <4>4. ReplayType'
        BY <3>2, <4>2 DEF TypeInv, TypeOK, ReplayType
      <4> QED
        BY <3>2, <4>3, <4>4, ReturnControl
    <3> QED
      BY <1>9, <3>1, <3>2 DEF CancelReplay
  <2>2. WorkerType'
    <3>1. worker' \in [Procs -> {"none", "alive", "termed", "killed", "exited"}]
      BY <1>9 DEF TypeInv, TypeOK, WorkerType, CancelReplay
    <3>2. reader' \in [Procs -> {"none", "reading", "exiting", "done"}]
      BY <1>9 DEF TypeInv, TypeOK, WorkerType, CancelReplay
    <3> QED
      BY <1>9, <3>1, <3>2 DEF TypeInv, TypeOK, WorkerType, CancelReplay
  <2> QED
    BY <1>9, <2>1, <2>2, SameData, SameLock DEF TypeInv, TypeOK, CancelReplay
<1>10. CASE ReplaySerial(r)
  <2>1. TaskType'
    BY <1>10 DEF TypeInv, TypeOK, TaskType, ReplaySerial, Suspend, Pcs, AllOps
  <2>2. ControlOK'
    BY <1>10 DEF TypeInv, TypeOK, TaskType, ControlOK, ReplaySerial, Suspend, Tasks, replayVars
  <2> QED
    BY <1>10, <2>1, <2>2, SameData, SameLock, SameReplay, SameWorker
    DEF TypeInv, TypeOK, ReplaySerial
<1> QED
  BY <1>1, <1>2, <1>3, <1>4, <1>5, <1>6, <1>7, <1>8, <1>9, <1>10 DEF ReplayStep

LEMMA ProcStepType ==
    ASSUME TypeInv, NEW p \in Procs, WorkerExit(p) \/ ReaderStep(p)
    PROVE  TypeInv'
<1>1. TaskType' /\ ControlOK'
  BY DEF TypeInv, TypeOK, TaskType, ControlOK, WorkerExit, ReaderStep, ReaderExit,
         ReaderFinish, taskVars, replayVars
<1>2. WorkerType'
  BY DEF TypeInv, TypeOK, WorkerType, WorkerExit, ReaderStep, ReaderExit, ReaderFinish
<1>3. ReplayType' /\ LockType'
  BY SameReplay, SameLock
  DEF TypeInv, TypeOK, WorkerExit, ReaderStep, ReaderExit, ReaderFinish
<1>4. DataType'
  BY SameData, DestroyType
  DEF TypeInv, TypeOK, WorkerExit, ReaderStep, ReaderExit, ReaderFinish
<1>5. state' \in States
  BY DEF TypeInv, TypeOK, WorkerExit, ReaderStep, ReaderExit, ReaderFinish, States
<1> QED
  BY <1>1, <1>2, <1>3, <1>4, <1>5 DEF TypeInv, TypeOK

LEMMA TypeStep == TypeInv /\ [Next]_vars => TypeInv'
<1> SUFFICES ASSUME TypeInv, [Next]_vars PROVE TypeInv'
  OBVIOUS
<1>1. CASE Next
  BY <1>1, LockStepType, LaunchStepType, TerminateStepType, DrainStepType,
     RequestStepType, ReplayStepType, ProcStepType DEF Next
<1>2. CASE UNCHANGED vars
  <2>1. TaskType' /\ ControlOK'
    BY <1>2 DEF TypeInv, TypeOK, TaskType, ControlOK, vars, taskVars, replayVars
  <2> QED
    BY <1>2, <2>1, SameData, SameLock, SameReplay, SameWorker DEF TypeInv, TypeOK, vars
<1> QED
  BY <1>1, <1>2

(***************************************************************************)
(* Type correctness of the session record and of every coroutine, replays  *)
(* included; in particular the replay recording stays within               *)
(* max_recording_events, and an awaited process is always a process.       *)
(***************************************************************************)
THEOREM TypeCorrect == Spec => []TypeOK
<1>1. TypeInv => TypeOK
  BY DEF TypeInv
<1> QED
  BY <1>1, TypeInit, TypeStep, PTL DEF Spec

-----------------------------------------------------------------------------
(***************************************************************************)
(* At most one worker, when no replay runs.  The theorem is false with     *)
(* replays, which launch and terminate workers without lifecycle_lock (run *)
(* replay_two_workers).  AtMostOneWorker is not inductive: that a launch   *)
(* finds no live worker follows from who may launch, from what the holder  *)
(* of the lock left behind, and from what powered_off means.               *)
(***************************************************************************)

\* No replay was ever started.
NoReplay ==
    /\ replay_task = None
    /\ cancelled = {}
    /\ \A r \in Replays : pc[r] = "idle"

Launching == {"spawn", "attach", "ready"}

\* A request terminates or launches only while it holds lifecycle_lock, and
\* launches only for power_on.
LockDiscipline ==
    /\ \A q \in Requests : pc[q] \in LockedPcs => lifecycle_lock = q
    /\ \A q \in Requests : pc[q] \in Launching => op[q] = "power_on"
    /\ \A q \in Requests : op[q] \notin {"create", "replay"}
    /\ \A q \in Requests : after[q] \in {"abort", "discard"} => op[q] = "power_on"

\* Until create has returned, the session was never running: only stop and
\* expiry got past their checks, and no QMP request did.
CreateDiscipline ==
    pc[Creator] # "idle" =>
        /\ op[Creator] = "create"
        /\ after[Creator] \in {"none", "abort"}
        /\ pc[Creator] # "restore"
        /\ state \in {"starting"} \cup Terminal
        /\ \A q \in Requests : pc[q] \in LockedPcs => op[q] \in {"stop", "expire"}
        /\ \A q \in Requests : pc[q] # "qmp"
        /\ \A q \in Requests : pc[q] = "qmp_lock" => op[q] \in {"pause", "reset"}

\* A live worker is the session's, or some coroutine awaits its start or its end.
LiveIsOwned ==
    \A p \in Procs : Live(p) =>
        \/ process = p
        \/ \E t \in Tasks : pc[t] \in {"attach", "wait"} /\ cap[t] = p

\* What a launch finds, and what it adds.
LaunchAlone ==
    /\ \A t \in Tasks : pc[t] = "spawn" => \A p \in Procs : ~Live(p)
    /\ \A t \in Tasks : pc[t] = "attach" => \A p \in Procs : Live(p) => p = cap[t]

\* powered_off means that no worker lives and that nobody launches one.
OffMeansOff ==
    /\ state = "powered_off" => /\ \A p \in Procs : ~Live(p)
                                /\ \A t \in Tasks : pc[t] \notin Launching
    /\ \A q \in Requests : (pc[q] = "wait" /\ op[q] = "power_off") => process = None

Discipline == NoReplay /\ LockDiscipline /\ CreateDiscipline

Ownership == LiveIsOwned /\ LaunchAlone /\ AtMostOneWorker /\ NoOrphanWorker

OneWorkerInv == TypeInv /\ Discipline /\ Ownership /\ OffMeansOff

LEMMA NotAReplay ==
    ASSUME Discipline, NEW t \in Tasks, pc[t] # "idle"
    PROVE  t \notin Replays /\ t \in {Creator} \cup Requests
  BY DEF Discipline, NoReplay, Tasks

LEMMA NoReplayOp ==
    ASSUME Discipline, NEW t \in Tasks, pc[t] # "idle"
    PROVE  op[t] # "replay"
  BY NotAReplay DEF Discipline, LockDiscipline, CreateDiscipline

LEMMA NewSlot ==
    ASSUME NEW p \in FreeProcs
    PROVE  p \in Procs /\ ~Live(p) /\ process # p /\ \A t \in Tasks : cap[t] # p
  BY DEF FreeProcs

\* A step of t alone that neither touches a worker nor begins or ends a launch.
Quiet(t) ==
    /\ UNCHANGED workerVars
    /\ \A s \in Tasks : s # t => pc'[s] = pc[s] /\ op'[s] = op[s] /\ cap'[s] = cap[s]
    /\ pc'[t] \notin Launching \cup {"wait"}
    /\ pc[t] \in {"attach", "wait"} => ~Live(cap[t])
    /\ state' = "powered_off" => state = "powered_off"

LEMMA QuietStep ==
    ASSUME OneWorkerInv, NEW t \in Tasks, Quiet(t)
    PROVE  Ownership' /\ OffMeansOff'
<1>1. Ownership'
  BY DEF Quiet, OneWorkerInv, Ownership, LiveIsOwned, LaunchAlone, AtMostOneWorker,
     NoOrphanWorker, Live, Launching, workerVars
<1>2. OffMeansOff'
  BY DEF Quiet, OneWorkerInv, OffMeansOff, Live, workerVars, Tasks
<1> QED
  BY <1>1, <1>2

LEMMA OneWorkerInit == Init => OneWorkerInv
<1> SUFFICES ASSUME Init PROVE OneWorkerInv
  OBVIOUS
<1>1. Discipline
  BY DistinctAssumption DEF Init, Discipline, NoReplay, LockDiscipline,
     CreateDiscipline, LockedPcs, Launching, Tasks
<1>2. Ownership
  BY DEF Init, Ownership, LiveIsOwned, LaunchAlone, AtMostOneWorker, NoOrphanWorker,
     Live
<1>3. OffMeansOff
  BY DEF Init, OffMeansOff
<1> QED
  BY <1>1, <1>2, <1>3, TypeInit DEF OneWorkerInv

LEMMA LaunchOneWorker ==
    ASSUME OneWorkerInv, NEW t \in Tasks, LaunchStep(t)
    PROVE  Discipline' /\ Ownership' /\ OffMeansOff'
<1>1. CASE Spawn(t)
  <2>1. Discipline'
    BY <1>1, NotAReplay, DistinctAssumption DEF OneWorkerInv, TypeInv, TypeOK,
       TaskType, Spawn, Suspend, lockVars, replayVars, Discipline, NoReplay,
       LockDiscipline, CreateDiscipline, LockedPcs, Launching
  <2>2. Ownership'
    <3>1. LiveIsOwned'
      BY <1>1, NotAReplay, NewSlot, DistinctAssumption DEF OneWorkerInv, TypeInv,
         TypeOK, TaskType, WorkerType, ControlOK, Spawn, Suspend, lockVars,
         replayVars, Ownership, Live, LiveIsOwned
    <3>2. LaunchAlone'
      BY <1>1, NotAReplay, NewSlot, DistinctAssumption DEF OneWorkerInv, TypeInv,
         TypeOK, TaskType, WorkerType, ControlOK, Spawn, Suspend, lockVars,
         replayVars, Ownership, Live, Tasks, OffMeansOff, Discipline, LockDiscipline,
         CreateDiscipline, LockedPcs, Launching, LaunchAlone
    <3>3. AtMostOneWorker'
      BY <1>1, NotAReplay, NewSlot, DistinctAssumption DEF OneWorkerInv, TypeInv,
         TypeOK, TaskType, WorkerType, ControlOK, Spawn, Suspend, lockVars,
         replayVars, Ownership, Live, AtMostOneWorker, LaunchAlone
    <3>4. NoOrphanWorker'
      BY <1>1, NotAReplay, NewSlot, DistinctAssumption DEF OneWorkerInv, TypeInv,
         TypeOK, TaskType, WorkerType, ControlOK, Spawn, Suspend, lockVars,
         replayVars, Ownership, NoOrphanWorker
    <3> QED
      BY <3>1, <3>2, <3>3, <3>4 DEF Ownership
  <2>3. OffMeansOff'
    BY <1>1, NotAReplay, NewSlot, DistinctAssumption DEF OneWorkerInv, TypeInv,
       TypeOK, TaskType, WorkerType, ControlOK, Spawn, Suspend, lockVars, replayVars,
       Ownership, LiveIsOwned, LaunchAlone, Live, OffMeansOff, Discipline,
       LockDiscipline, CreateDiscipline, LockedPcs, Launching
  <2> QED
    BY <2>1, <2>2, <2>3
<1>2. CASE SpawnFails(t)
  <2>1. Discipline'
    BY <1>2, NotAReplay, NoReplayOp, DistinctAssumption DEF OneWorkerInv, TypeInv,
       TypeOK, TaskType, SpawnFails, LaunchRaised, DestroyPrivateData, Return,
       BeginTerminate, lockVars, replayVars, Discipline, NoReplay, LockDiscipline,
       CreateDiscipline, LockedPcs, Launching, Tasks
  <2>2. Quiet(t)
    BY <1>2, NotAReplay, NoReplayOp DEF Quiet, OneWorkerInv, TypeInv, TypeOK,
       TaskType, SpawnFails, LaunchRaised, DestroyPrivateData, Return, BeginTerminate,
       Launching
  <2> QED
    BY <2>1, <2>2, QuietStep
<1>3. CASE Attach(t)
  <2>1. Discipline'
    BY <1>3, NotAReplay, DistinctAssumption DEF OneWorkerInv, TypeInv, TypeOK,
       TaskType, Attach, Suspend, lockVars, replayVars, Discipline, NoReplay,
       LockDiscipline, CreateDiscipline, LockedPcs, Launching
  <2>2. Ownership'
    <3>1. LiveIsOwned'
      BY <1>3, NotAReplay, DistinctAssumption DEF OneWorkerInv, TypeInv, TypeOK,
         TaskType, WorkerType, ControlOK, Attach, Suspend, lockVars, replayVars,
         Ownership, Live, LiveIsOwned, LaunchAlone
    <3>2. LaunchAlone'
      BY <1>3, NotAReplay, DistinctAssumption DEF OneWorkerInv, TypeInv, TypeOK,
         TaskType, WorkerType, ControlOK, Attach, Suspend, lockVars, replayVars,
         Ownership, Live, Tasks, OffMeansOff, Discipline, LaunchAlone
    <3>3. AtMostOneWorker'
      BY <1>3, NotAReplay, DistinctAssumption DEF OneWorkerInv, TypeInv, TypeOK,
         TaskType, WorkerType, ControlOK, Attach, Suspend, lockVars, replayVars,
         Ownership, Live, AtMostOneWorker
    <3>4. NoOrphanWorker'
      BY <1>3 DEF OneWorkerInv, TypeInv, TypeOK, TaskType, Attach, Suspend, Ownership,
         LaunchAlone, Live, NoOrphanWorker
    <3> QED
      BY <3>1, <3>2, <3>3, <3>4 DEF Ownership
  <2>3. OffMeansOff'
    BY <1>3, NotAReplay, DistinctAssumption DEF OneWorkerInv, TypeInv, TypeOK,
       TaskType, WorkerType, ControlOK, Attach, Suspend, lockVars, replayVars,
       Ownership, LiveIsOwned, LaunchAlone, Live, OffMeansOff, Discipline,
       LockDiscipline, CreateDiscipline, LockedPcs, Launching
  <2> QED
    BY <2>1, <2>2, <2>3
<1>4. CASE Ready(t)
  <2>1. Discipline'
    BY <1>4, NotAReplay, NoReplayOp, DistinctAssumption DEF OneWorkerInv, TypeInv,
       TypeOK, TaskType, Ready, LaunchStillCurrent, Suspend, AppendReplayAction,
       ActionDone, Return, Release, lockVars, replayVars, Discipline, NoReplay,
       LockDiscipline, CreateDiscipline, LockedPcs, Launching, Tasks
  <2>2. Quiet(t)
    BY <1>4, NotAReplay, NoReplayOp DEF Quiet, OneWorkerInv, TypeInv, TypeOK,
       TaskType, Ready, LaunchStillCurrent, Suspend, ActionDone, Return, Launching
  <2> QED
    BY <2>1, <2>2, QuietStep
<1>5. CASE NotReady(t)
  <2>1. Discipline'
    BY <1>5, NotAReplay, DistinctAssumption DEF OneWorkerInv, TypeInv, TypeOK,
       TaskType, NotReady, BeginTerminate, lockVars, replayVars, Discipline, NoReplay,
       LockDiscipline, CreateDiscipline, LockedPcs, Launching
  <2>2. Quiet(t)
    BY <1>5 DEF Quiet, OneWorkerInv, TypeInv, TypeOK, TaskType, NotReady,
       BeginTerminate, Launching
  <2> QED
    BY <2>1, <2>2, QuietStep
<1> QED
  BY <1>1, <1>2, <1>3, <1>4, <1>5 DEF LaunchStep

LEMMA TerminateOneWorker ==
    ASSUME OneWorkerInv, NEW t \in Tasks, TerminateStep(t)
    PROVE  Discipline' /\ Ownership' /\ OffMeansOff'
<1>1. CASE Capture(t)
  <2>1. Discipline'
    BY <1>1, NotAReplay, DistinctAssumption DEF OneWorkerInv, TypeInv, TypeOK,
       TaskType, Capture, Suspend, lockVars, replayVars, Discipline, NoReplay,
       LockDiscipline, CreateDiscipline, LockedPcs, Launching
  <2>2. Ownership'
    <3>1. LiveIsOwned'
      BY <1>1, NotAReplay, DistinctAssumption DEF OneWorkerInv, TypeInv, TypeOK,
         TaskType, WorkerType, ControlOK, Capture, Suspend, lockVars, replayVars,
         Ownership, Live, LiveIsOwned
    <3>2. LaunchAlone'
      BY <1>1, NotAReplay, DistinctAssumption DEF OneWorkerInv, TypeInv, TypeOK,
         TaskType, WorkerType, ControlOK, Capture, Suspend, lockVars, replayVars,
         Ownership, Live, Tasks, OffMeansOff, Discipline, LaunchAlone
    <3>3. AtMostOneWorker'
      BY <1>1, NotAReplay, DistinctAssumption DEF OneWorkerInv, TypeInv, TypeOK,
         TaskType, WorkerType, ControlOK, Capture, Suspend, lockVars, replayVars,
         Live, AtMostOneWorker
    <3>4. NoOrphanWorker'
      BY <1>1, NotAReplay, DistinctAssumption DEF OneWorkerInv, TypeInv, TypeOK,
         TaskType, WorkerType, ControlOK, Capture, Suspend, lockVars, replayVars,
         Ownership, NoOrphanWorker
    <3> QED
      BY <3>1, <3>2, <3>3, <3>4 DEF Ownership
  <2>3. OffMeansOff'
    BY <1>1, NotAReplay, DistinctAssumption DEF OneWorkerInv, TypeInv, TypeOK,
       TaskType, WorkerType, ControlOK, Capture, Suspend, lockVars, replayVars,
       Ownership, LiveIsOwned, LaunchAlone, Live, OffMeansOff, Discipline,
       LockDiscipline, CreateDiscipline, LockedPcs, Launching
  <2> QED
    BY <2>1, <2>2, <2>3
<1>2. CASE KillTimeout(t)
  <2>1. Discipline'
    BY <1>2, NotAReplay, DistinctAssumption DEF OneWorkerInv, TypeInv, TypeOK,
       TaskType, KillTimeout, lockVars, replayVars, taskVars, Discipline, NoReplay,
       LockDiscipline, CreateDiscipline
  <2>2. Ownership'
    <3>1. LiveIsOwned'
      BY <1>2, NotAReplay, DistinctAssumption DEF OneWorkerInv, TypeInv, TypeOK,
         TaskType, WorkerType, ControlOK, KillTimeout, lockVars, replayVars, taskVars,
         Ownership, Live, LiveIsOwned
    <3>2. LaunchAlone'
      BY <1>2, NotAReplay, DistinctAssumption DEF OneWorkerInv, TypeInv, TypeOK,
         TaskType, WorkerType, ControlOK, KillTimeout, lockVars, replayVars, taskVars,
         Ownership, Live, Tasks, OffMeansOff, Discipline, LaunchAlone
    <3>3. AtMostOneWorker'
      BY <1>2, NotAReplay, DistinctAssumption DEF OneWorkerInv, TypeInv, TypeOK,
         TaskType, WorkerType, ControlOK, KillTimeout, lockVars, replayVars, taskVars,
         Ownership, Live, AtMostOneWorker
    <3>4. NoOrphanWorker'
      BY <1>2, NotAReplay, DistinctAssumption DEF OneWorkerInv, TypeInv, TypeOK,
         TaskType, WorkerType, ControlOK, KillTimeout, lockVars, replayVars, taskVars,
         Ownership, NoOrphanWorker
    <3> QED
      BY <3>1, <3>2, <3>3, <3>4 DEF Ownership
  <2>3. OffMeansOff'
    BY <1>2, NotAReplay, DistinctAssumption DEF OneWorkerInv, TypeInv, TypeOK,
       TaskType, WorkerType, ControlOK, KillTimeout, lockVars, replayVars, taskVars,
       Ownership, LiveIsOwned, LaunchAlone, Live, OffMeansOff, Discipline,
       LockDiscipline, CreateDiscipline, LockedPcs, Launching
  <2> QED
    BY <2>1, <2>2, <2>3
<1>3. CASE FinishStop(t)
  <2>1. Discipline'
    BY <1>3, NotAReplay, DistinctAssumption DEF OneWorkerInv, TypeInv, TypeOK,
       TaskType, FinishStop, Terminated, Return, Release, replayVars, Discipline,
       NoReplay, LockDiscipline, CreateDiscipline, LockedPcs, Launching, Terminal,
       Active, States
  <2>2. Quiet(t)
    BY <1>3 DEF Quiet, OneWorkerInv, TypeInv, TypeOK, TaskType, FinishStop,
       Terminated, Return, Live, Launching
  <2> QED
    BY <2>1, <2>2, QuietStep
<1>4. CASE FinishPowerOff(t)
  <2>1. Discipline'
    BY <1>4, NotAReplay, DistinctAssumption DEF OneWorkerInv, TypeInv, TypeOK,
       TaskType, ControlOK, FinishPowerOff, Terminated, AppendReplayAction,
       ActionDone, Return, Release, lockVars, replayVars, Discipline, NoReplay,
       LockDiscipline, CreateDiscipline, LockedPcs, Launching, Tasks
  <2>2. Ownership'
    <3>1. LiveIsOwned'
      BY <1>4, NotAReplay, DistinctAssumption DEF OneWorkerInv, TypeInv, TypeOK,
         TaskType, WorkerType, ControlOK, FinishPowerOff, Terminated,
         AppendReplayAction, ActionDone, Return, Release, workerVars, lockVars,
         replayVars, Ownership, Live, LiveIsOwned
    <3>2. LaunchAlone'
      BY <1>4, NotAReplay, DistinctAssumption DEF OneWorkerInv, TypeInv, TypeOK,
         TaskType, WorkerType, ControlOK, FinishPowerOff, Terminated,
         AppendReplayAction, ActionDone, Return, Release, workerVars, lockVars,
         replayVars, Ownership, Live, Tasks, OffMeansOff, Discipline, LaunchAlone
    <3>3. AtMostOneWorker'
      BY <1>4, NotAReplay, DistinctAssumption DEF OneWorkerInv, TypeInv, TypeOK,
         TaskType, WorkerType, ControlOK, FinishPowerOff, Terminated,
         AppendReplayAction, ActionDone, Return, Release, workerVars, lockVars,
         replayVars, Ownership, Live, AtMostOneWorker
    <3>4. NoOrphanWorker'
      BY <1>4, NotAReplay, DistinctAssumption DEF OneWorkerInv, TypeInv, TypeOK,
         TaskType, WorkerType, ControlOK, FinishPowerOff, Terminated,
         AppendReplayAction, ActionDone, Return, Release, workerVars, lockVars,
         replayVars, Ownership, NoOrphanWorker
    <3> QED
      BY <3>1, <3>2, <3>3, <3>4 DEF Ownership
  <2>3. OffMeansOff'
    BY <1>4, NotAReplay, DistinctAssumption DEF OneWorkerInv, TypeInv, TypeOK,
       TaskType, WorkerType, ControlOK, FinishPowerOff, Terminated,
       AppendReplayAction, ActionDone, Return, Release, workerVars, lockVars,
       replayVars, Ownership, LiveIsOwned, LaunchAlone, Live, OffMeansOff, Discipline,
       LockDiscipline, CreateDiscipline, LockedPcs, Launching, Terminal
  <2> QED
    BY <2>1, <2>2, <2>3
<1>5. CASE FinishAbort(t)
  <2>1. Discipline'
    BY <1>5, NotAReplay, NoReplayOp, DistinctAssumption DEF OneWorkerInv, TypeInv,
       TypeOK, TaskType, FinishAbort, Terminated, LaunchRaised, DestroyPrivateData,
       Return, BeginTerminate, lockVars, replayVars, Discipline, NoReplay,
       LockDiscipline, CreateDiscipline, LockedPcs, Launching, Tasks
  <2>2. Quiet(t)
    BY <1>5, NotAReplay, NoReplayOp DEF Quiet, OneWorkerInv, TypeInv, TypeOK,
       TaskType, FinishAbort, Terminated, LaunchRaised, DestroyPrivateData, Return,
       BeginTerminate, Live, Launching
  <2> QED
    BY <2>1, <2>2, QuietStep
<1>6. CASE FinishDiscard(t)
  <2>1. Discipline'
    BY <1>6, NotAReplay, DistinctAssumption DEF OneWorkerInv, TypeInv, TypeOK,
       TaskType, FinishDiscard, Terminated, Return, Release, lockVars, replayVars,
       Discipline, NoReplay, LockDiscipline, CreateDiscipline, LockedPcs, Launching,
       Tasks
  <2>2. Quiet(t)
    BY <1>6, NotAReplay DEF Quiet, OneWorkerInv, TypeInv, TypeOK, TaskType,
       FinishDiscard, Terminated, Return, Live, Launching
  <2> QED
    BY <2>1, <2>2, QuietStep
<1> QED
  BY <1>1, <1>2, <1>3, <1>4, <1>5, <1>6 DEF TerminateStep

LEMMA RestoreOneWorker ==
    ASSUME OneWorkerInv, NEW t \in Tasks, Restore(t) \/ RestoreFails(t)
    PROVE  Discipline' /\ Ownership' /\ OffMeansOff'
<1>1. CASE Restore(t)
  <2>1. Discipline'
    BY <1>1, NotAReplay, DistinctAssumption DEF OneWorkerInv, TypeInv, TypeOK,
       TaskType, Restore, AppendReplayAction, ActionDone, Return, Release,
       lockVars, replayVars, Discipline, NoReplay, LockDiscipline, CreateDiscipline,
       LockedPcs, Launching, Tasks
  <2>2. Quiet(t)
    BY <1>1, NotAReplay DEF Quiet, OneWorkerInv, TypeInv, TypeOK, TaskType, Restore,
       ActionDone, Return, Launching
  <2> QED
    BY <2>1, <2>2, QuietStep
<1>2. CASE RestoreFails(t)
  <2>1. Discipline'
    BY <1>2, NotAReplay, DistinctAssumption DEF OneWorkerInv, TypeInv, TypeOK,
       TaskType, ControlOK, RestoreFails, BeginTerminate, lockVars, replayVars,
       Discipline, NoReplay, LockDiscipline, CreateDiscipline, LockedPcs
  <2>2. Quiet(t)
    BY <1>2 DEF Quiet, OneWorkerInv, TypeInv, RestoreFails, BeginTerminate, Launching
  <2> QED
    BY <2>1, <2>2, QuietStep
<1> QED
  BY <1>1, <1>2

LEMMA LockOneWorker ==
    ASSUME OneWorkerInv, NEW t \in Requests,
           StopUnderLock(t) \/ PowerOff(t) \/ PowerOn(t) \/ PowerRefused(t) \/ QmpLock(t)
    PROVE  Discipline' /\ Ownership' /\ OffMeansOff'
<1> t \in Tasks
  BY DEF Tasks
<1>1. CASE StopUnderLock(t)
  <2>1. Discipline'
    BY <1>1, NotAReplay, DistinctAssumption DEF OneWorkerInv, TypeInv, TypeOK,
       TaskType, StopUnderLock, Lock, BeginTerminate, replayVars, Discipline,
       NoReplay, LockDiscipline, CreateDiscipline, Launching, Tasks
  <2>2. Quiet(t)
    BY <1>1 DEF Quiet, OneWorkerInv, TypeInv, TypeOK, StopUnderLock, Lock,
       BeginTerminate, Launching
  <2> QED
    BY <2>1, <2>2, QuietStep
<1>2. CASE PowerOff(t)
  <2>1. Discipline'
    BY <1>2, NotAReplay, DistinctAssumption DEF OneWorkerInv, TypeInv, TypeOK,
       TaskType, PowerOff, Lock, BeginTerminate, MayPowerOff, replayVars, Discipline,
       NoReplay, LockDiscipline, CreateDiscipline, LockedPcs, Launching, Terminal,
       Active, Powered, Tasks
  <2>2. Quiet(t)
    BY <1>2 DEF Quiet, OneWorkerInv, TypeInv, TypeOK, TaskType, PowerOff, Lock,
       BeginTerminate, Launching
  <2> QED
    BY <2>1, <2>2, QuietStep
<1>3. CASE PowerOn(t)
  <2>1. Discipline'
    BY <1>3, NotAReplay, DistinctAssumption DEF OneWorkerInv, TypeInv, TypeOK,
       TaskType, PowerOn, Lock, MayPowerOn, Suspend, replayVars, Discipline, NoReplay,
       LockDiscipline, CreateDiscipline, LockedPcs, Launching, Terminal, Active, Tasks
  <2>2. Ownership'
    <3>1. LiveIsOwned'
      BY <1>3, NotAReplay, DistinctAssumption DEF OneWorkerInv, TypeInv, TypeOK,
         TaskType, WorkerType, ControlOK, PowerOn, Lock, MayPowerOn, Suspend,
         workerVars, replayVars, Ownership, Live, LiveIsOwned
    <3>2. LaunchAlone'
      BY <1>3, NotAReplay, DistinctAssumption DEF OneWorkerInv, TypeInv, TypeOK,
         TaskType, WorkerType, ControlOK, PowerOn, Lock, MayPowerOn, Suspend,
         workerVars, replayVars, Ownership, Live, Tasks, OffMeansOff, Discipline,
         LaunchAlone
    <3>3. AtMostOneWorker'
      BY <1>3, NotAReplay, DistinctAssumption DEF OneWorkerInv, TypeInv, TypeOK,
         TaskType, WorkerType, ControlOK, PowerOn, Lock, MayPowerOn, Suspend,
         workerVars, replayVars, Ownership, Live, AtMostOneWorker
    <3>4. NoOrphanWorker'
      BY <1>3, NotAReplay, DistinctAssumption DEF OneWorkerInv, TypeInv, TypeOK,
         TaskType, WorkerType, ControlOK, PowerOn, Lock, MayPowerOn, Suspend,
         workerVars, replayVars, Ownership, NoOrphanWorker
    <3> QED
      BY <3>1, <3>2, <3>3, <3>4 DEF Ownership
  <2>3. OffMeansOff'
    BY <1>3, NotAReplay, DistinctAssumption DEF OneWorkerInv, TypeInv, TypeOK,
       TaskType, WorkerType, ControlOK, PowerOn, Lock, MayPowerOn, Suspend,
       workerVars, replayVars, Ownership, LiveIsOwned, LaunchAlone, Live, OffMeansOff,
       Discipline, LockDiscipline, CreateDiscipline, LockedPcs, Launching
  <2> QED
    BY <2>1, <2>2, <2>3
<1>4. CASE PowerRefused(t)
  <2>1. Discipline'
    BY <1>4, NotAReplay, DistinctAssumption DEF OneWorkerInv, TypeInv, TypeOK,
       TaskType, PowerRefused, Return, lockVars, replayVars, Discipline, NoReplay,
       LockDiscipline, CreateDiscipline, LockedPcs, Launching
  <2>2. Quiet(t)
    BY <1>4 DEF Quiet, OneWorkerInv, TypeInv, PowerRefused, Return, Launching
  <2> QED
    BY <2>1, <2>2, QuietStep
<1>5. CASE QmpLock(t)
  <2>1. Discipline'
    BY <1>5, NotAReplay, DistinctAssumption DEF OneWorkerInv, TypeInv, TypeOK,
       TaskType, QmpLock, QmpStillAdmits, Suspend, Return, replayVars, Discipline,
       NoReplay, LockDiscipline, CreateDiscipline, LockedPcs, Launching, Terminal,
       Active, Powered, Tasks
  <2>2. Quiet(t)
    BY <1>5 DEF Quiet, OneWorkerInv, TypeInv, TypeOK, TaskType, QmpLock, Suspend,
       Return, Launching
  <2> QED
    BY <2>1, <2>2, QuietStep
<1> QED
  BY <1>1, <1>2, <1>3, <1>4, <1>5

LEMMA DrainOneWorker ==
    ASSUME OneWorkerInv, NEW t \in Tasks, DrainStep(t)
    PROVE  Discipline' /\ Ownership' /\ OffMeansOff'
<1>1. /\ t \notin Replays /\ pc[t] = "drain"
      /\ Return(t)
      /\ UNCHANGED <<state, workerVars, lockVars, replayVars>>
  BY NotAReplay DEF OneWorkerInv, DrainStep, Drained, DrainFails
<1>2. Discipline'
  BY <1>1, DistinctAssumption DEF OneWorkerInv, TypeInv, TypeOK, TaskType, ControlOK,
     Return, lockVars, replayVars, Discipline, NoReplay, LockDiscipline,
     CreateDiscipline, LockedPcs, Launching
<1>3. Quiet(t)
  BY <1>1 DEF Quiet, OneWorkerInv, TypeInv, TypeOK, TaskType, Return, Launching
<1> QED
  BY <1>2, <1>3, QuietStep

LEMMA RequestOneWorker ==
    ASSUME OneWorkerInv, NEW t \in Requests, RequestStep(t) \/ ClientStep(t)
    PROVE  Discipline' /\ Ownership' /\ OffMeansOff'
<1> t \in Tasks
  BY DEF Tasks
<1>1. CASE Expire(t)
  <2>1. Discipline'
    BY <1>1, NotAReplay, DistinctAssumption DEF OneWorkerInv, TypeInv, TypeOK,
       TaskType, ControlOK, Expire, BeginStop, Suspend, lockVars, Discipline,
       NoReplay, LockDiscipline, CreateDiscipline, LockedPcs, Launching, Tasks
  <2>2. Quiet(t)
    BY <1>1 DEF Quiet, OneWorkerInv, TypeInv, TypeOK, TaskType, Expire, BeginStop,
       Suspend, Launching
  <2> QED
    BY <2>1, <2>2, QuietStep
<1>2. CASE Stop(t)
  <2>1. Discipline'
    BY <1>2, NotAReplay, DistinctAssumption DEF OneWorkerInv, TypeInv, TypeOK,
       TaskType, ControlOK, Stop, BeginStop, Suspend, lockVars, Discipline, NoReplay,
       LockDiscipline, CreateDiscipline, LockedPcs, Launching, Tasks
  <2>2. Quiet(t)
    BY <1>2 DEF Quiet, OneWorkerInv, TypeInv, TypeOK, TaskType, Stop, BeginStop,
       Suspend, Launching
  <2> QED
    BY <2>1, <2>2, QuietStep
<1>3. CASE Joined(t)
  <2>1. Discipline'
    BY <1>3, NotAReplay, DistinctAssumption DEF OneWorkerInv, TypeInv, TypeOK,
       TaskType, Joined, Suspend, lockVars, replayVars, Discipline, NoReplay,
       LockDiscipline, CreateDiscipline, LockedPcs, Launching
  <2>2. Quiet(t)
    BY <1>3 DEF Quiet, OneWorkerInv, TypeInv, Joined, Suspend, Launching
  <2> QED
    BY <2>1, <2>2, QuietStep
<1>4. CASE QmpAnswer(t)
  <2>1. Discipline'
    BY <1>4, NotAReplay, DistinctAssumption DEF OneWorkerInv, TypeInv, TypeOK,
       TaskType, QmpAnswer, StateAfterQmp, QmpAnswers, Return, replayVars, Discipline,
       NoReplay, LockDiscipline, CreateDiscipline, LockedPcs, Launching
  <2>2. Quiet(t)
    BY <1>4 DEF Quiet, OneWorkerInv, TypeInv, TypeOK, TaskType, QmpAnswer,
       StateAfterQmp, Return, Powered, Launching
  <2> QED
    BY <2>1, <2>2, QuietStep
<1>5. CASE QmpFails(t)
  <2>1. Discipline'
    BY <1>5, NotAReplay, DistinctAssumption DEF OneWorkerInv, TypeInv, TypeOK,
       TaskType, QmpFails, Return, replayVars, Discipline, NoReplay, LockDiscipline,
       CreateDiscipline, LockedPcs, Launching
  <2>2. Quiet(t)
    BY <1>5 DEF Quiet, OneWorkerInv, TypeInv, QmpFails, Return, Launching
  <2> QED
    BY <2>1, <2>2, QuietStep
<1>6. CASE ExpiryScan(t)
  <2>1. Discipline'
    BY <1>6, NotAReplay, DistinctAssumption DEF OneWorkerInv, TypeInv, TypeOK,
       TaskType, ControlOK, ExpiryScan, Suspend, lockVars, replayVars, Discipline,
       NoReplay, LockDiscipline, CreateDiscipline, LockedPcs, Launching
  <2>2. Quiet(t)
    BY <1>6 DEF Quiet, OneWorkerInv, TypeInv, ExpiryScan, Suspend, Launching
  <2> QED
    BY <2>1, <2>2, QuietStep
<1>7. ASSUME NEW o \in {"power_off", "power_on"}, RequestPower(t, o)
       PROVE  Discipline' /\ Ownership' /\ OffMeansOff'
  <2>1. Discipline'
    BY <1>7, NotAReplay, DistinctAssumption DEF OneWorkerInv, TypeInv, TypeOK,
       TaskType, ControlOK, RequestPower, Suspend, lockVars, replayVars, Discipline,
       NoReplay, LockDiscipline, CreateDiscipline, LockedPcs, Launching
  <2>2. Quiet(t)
    BY <1>7 DEF Quiet, OneWorkerInv, TypeInv, RequestPower, Suspend, Launching
  <2> QED
    BY <2>1, <2>2, QuietStep
<1>8. ASSUME NEW o \in QmpOps, QmpBegin(t, o)
       PROVE  Discipline' /\ Ownership' /\ OffMeansOff'
  <2>1. Discipline'
    BY <1>8, NotAReplay, DistinctAssumption DEF OneWorkerInv, TypeInv, TypeOK,
       TaskType, ControlOK, QmpBegin, QmpAdmits, QmpOps, Suspend, lockVars,
       replayVars, Discipline, NoReplay, LockDiscipline, CreateDiscipline, LockedPcs,
       Launching, Terminal, Active, Powered
  <2>2. Quiet(t)
    BY <1>8 DEF Quiet, OneWorkerInv, TypeInv, TypeOK, TaskType, QmpBegin, Suspend,
       Launching
  <2> QED
    BY <2>1, <2>2, QuietStep
<1>9. CASE WriteSerial(t)
  <2>1. Discipline'
    BY <1>9, NotAReplay, DistinctAssumption DEF OneWorkerInv, TypeInv, TypeOK,
       TaskType, ControlOK, WriteSerial, Suspend, lockVars, replayVars, Discipline,
       NoReplay, LockDiscipline, CreateDiscipline, LockedPcs, Launching
  <2>2. Quiet(t)
    BY <1>9 DEF Quiet, OneWorkerInv, TypeInv, WriteSerial, Suspend, Launching
  <2> QED
    BY <2>1, <2>2, QuietStep
<1> QED
  BY <1>1, <1>2, <1>3, <1>4, <1>5, <1>6, <1>7, <1>8, <1>9 DEF RequestStep, ClientStep

LEMMA ProcOneWorker ==
    ASSUME OneWorkerInv, NEW p \in Procs, WorkerExit(p) \/ ReaderStep(p)
    PROVE  Discipline' /\ Ownership' /\ OffMeansOff'
<1>1. CASE WorkerExit(p)
  <2>1. Discipline'
    BY <1>1, DistinctAssumption DEF OneWorkerInv, TypeInv, TypeOK, TaskType,
       WorkerExit, lockVars, replayVars, taskVars, Discipline, NoReplay,
       LockDiscipline, CreateDiscipline
  <2>2. Ownership'
    <3>1. LiveIsOwned'
      BY <1>1, DistinctAssumption DEF OneWorkerInv, TypeInv, TypeOK, TaskType,
         WorkerType, ControlOK, WorkerExit, lockVars, replayVars, taskVars, Ownership,
         Live, LiveIsOwned
    <3>2. LaunchAlone'
      BY <1>1, DistinctAssumption DEF OneWorkerInv, TypeInv, TypeOK, TaskType,
         WorkerType, ControlOK, WorkerExit, lockVars, replayVars, taskVars, Ownership,
         Live, Tasks, OffMeansOff, Discipline, LaunchAlone
    <3>3. AtMostOneWorker'
      BY <1>1, DistinctAssumption DEF OneWorkerInv, TypeInv, TypeOK, TaskType,
         WorkerType, ControlOK, WorkerExit, lockVars, replayVars, taskVars, Ownership,
         Live, AtMostOneWorker
    <3>4. NoOrphanWorker'
      BY <1>1, DistinctAssumption DEF OneWorkerInv, TypeInv, TypeOK, TaskType,
         WorkerType, ControlOK, WorkerExit, lockVars, replayVars, taskVars, Ownership,
         NoOrphanWorker
    <3> QED
      BY <3>1, <3>2, <3>3, <3>4 DEF Ownership
  <2>3. OffMeansOff'
    BY <1>1, DistinctAssumption DEF OneWorkerInv, TypeInv, TypeOK, TaskType,
       WorkerType, ControlOK, WorkerExit, lockVars, replayVars, taskVars, Ownership,
       LiveIsOwned, LaunchAlone, Live, OffMeansOff, Discipline, LockDiscipline,
       CreateDiscipline, LockedPcs, Launching
  <2> QED
    BY <2>1, <2>2, <2>3
<1>2. CASE ReaderExit(p)
  <2>1. Discipline'
    BY <1>2, DistinctAssumption DEF OneWorkerInv, TypeInv, TypeOK, TaskType,
       ReaderExit, lockVars, replayVars, taskVars, Discipline, NoReplay,
       LockDiscipline, CreateDiscipline
  <2>2. Ownership'
    BY <1>2, DistinctAssumption DEF OneWorkerInv, TypeInv, TypeOK, TaskType,
       WorkerType, ControlOK, ReaderExit, lockVars, replayVars, taskVars, Ownership,
       LiveIsOwned, LaunchAlone, AtMostOneWorker, NoOrphanWorker, Live
  <2>3. OffMeansOff'
    BY <1>2, DistinctAssumption DEF OneWorkerInv, TypeInv, TypeOK, TaskType,
       WorkerType, ControlOK, ReaderExit, lockVars, replayVars, taskVars, Ownership,
       LiveIsOwned, LaunchAlone, Live, OffMeansOff, Discipline, LockDiscipline,
       CreateDiscipline, LockedPcs, Launching
  <2> QED
    BY <2>1, <2>2, <2>3
<1>3. CASE ReaderFinish(p)
  <2>1. Discipline'
    BY <1>3, DistinctAssumption DEF OneWorkerInv, TypeInv, TypeOK, TaskType,
       ReaderFinish, lockVars, replayVars, taskVars, Discipline, NoReplay,
       LockDiscipline, CreateDiscipline, LockedPcs, Launching, Terminal, Active,
       States
  <2>2. Ownership'
    BY <1>3, DistinctAssumption DEF OneWorkerInv, TypeInv, TypeOK, TaskType,
       WorkerType, ControlOK, ReaderFinish, lockVars, replayVars, taskVars, Ownership,
       LiveIsOwned, LaunchAlone, AtMostOneWorker, NoOrphanWorker, Live
  <2>3. OffMeansOff'
    BY <1>3, DistinctAssumption DEF OneWorkerInv, TypeInv, TypeOK, TaskType,
       WorkerType, ControlOK, ReaderFinish, lockVars, replayVars, taskVars, Ownership,
       LiveIsOwned, LaunchAlone, Live, OffMeansOff, Discipline, LockDiscipline,
       CreateDiscipline, LockedPcs, Launching
  <2> QED
    BY <2>1, <2>2, <2>3
<1> QED
  BY <1>1, <1>2, <1>3 DEF ReaderStep

LEMMA NoReplayStep ==
    ASSUME "replay" \notin Ops, OneWorkerInv,
           NEW r \in Replays, ReplayStep(r) \/ StartReplay(r)
    PROVE  FALSE
  BY DEF OneWorkerInv, Discipline, NoReplay, ReplayStep, StartReplay, RunReplay,
     FinishRestart, Terminated, ReplayInput, ReplaySerial, ReplayInputFails,
     ReplayPowerOff, ReplayPowerOn, ReplayCompletes, CancelReplay

LEMMA OneWorkerStep ==
    ASSUME "replay" \notin Ops
    PROVE  OneWorkerInv /\ [Next]_vars => OneWorkerInv'
<1> SUFFICES ASSUME OneWorkerInv, [Next]_vars PROVE OneWorkerInv'
  OBVIOUS
<1>1. TypeInv'
  BY TypeStep DEF OneWorkerInv
<1>2. Discipline' /\ Ownership' /\ OffMeansOff'
  <2>1. ASSUME NEW t \in Tasks, LockStep(t)
        PROVE  Discipline' /\ Ownership' /\ OffMeansOff'
    BY <2>1, RestoreOneWorker, LockOneWorker DEF LockStep
  <2>2. ASSUME NEW r \in Replays, ReplayStep(r) \/ StartReplay(r)
        PROVE  FALSE
    BY <2>2, NoReplayStep
  <2>3. CASE UNCHANGED vars
    <3>1. Discipline'
      BY <2>3 DEF OneWorkerInv, Discipline, NoReplay, LockDiscipline,
         CreateDiscipline, vars, taskVars, lockVars, replayVars
    <3>2. Ownership' /\ OffMeansOff'
      BY <2>3 DEF OneWorkerInv, Ownership, LiveIsOwned, LaunchAlone, AtMostOneWorker,
         NoOrphanWorker, OffMeansOff, Live, vars, taskVars, workerVars
    <3> QED
      BY <3>1, <3>2
  <2> QED
    BY <2>1, <2>2, <2>3, LaunchOneWorker, TerminateOneWorker, DrainOneWorker,
       RequestOneWorker, ProcOneWorker DEF Next
<1> QED
  BY <1>1, <1>2 DEF OneWorkerInv

(***************************************************************************)
(* A session that clients create, power off and on, pause, feed input,     *)
(* poll, stop and let expire, in any interleaving and with any crash of a  *)
(* worker, never has two workers, and never loses sight of one.            *)
(***************************************************************************)
THEOREM OneWorkerPerSession ==
    ASSUME "replay" \notin Ops
    PROVE  Spec => [](AtMostOneWorker /\ NoOrphanWorker)
<1>1. OneWorkerInv => AtMostOneWorker /\ NoOrphanWorker
  BY DEF OneWorkerInv, Ownership
<1>2. OneWorkerInv /\ [Next]_vars => OneWorkerInv'
  BY OneWorkerStep
<1> QED
  BY <1>1, <1>2, OneWorkerInit, PTL DEF Spec

-----------------------------------------------------------------------------
(***************************************************************************)
(* Without replays: SessionLifecycle implements SessionContract, and what  *)
(* a session that ended, or is shown as running, is worth.  OneWorkerInv   *)
(* says who may touch a worker; EndInv adds what the end of a session      *)
(* leaves to whom, so that no late answer revives an ended session.        *)
(***************************************************************************)

\* Whoever launches a worker or waits for its end has no other one to care for.
Released ==
    /\ \A t \in Tasks : pc[t] \in {"spawn", "attach", "wait"} => process = None
    /\ \A t, u \in Tasks : pc[t] = "wait" /\ pc[u] = "wait" => t = u
    /\ \A q \in Requests : pc[q] = "wait" => pc[Creator] \notin {"spawn", "attach"}
    /\ state = "powered_off" => process = None

\* A serial reader that has not ended reads the session's worker, or the one
\* whose end is awaited; none is left when the session is powered off.
ReaderOwned ==
    /\ \A p \in Procs : reader[p] \in {"reading", "exiting"} =>
          process = p \/ \E t \in Tasks : pc[t] = "wait" /\ cap[t] = p
    /\ \A p \in Procs : reader[p] = "exiting" => worker[p] = "exited"
    /\ state = "powered_off" => \A p \in Procs : reader[p] \in {"none", "done"}

\* What a launch relies on.
Launched ==
    /\ \A t \in Tasks : pc[t] = "spawn" => state \in {"starting"} \cup Terminal
    /\ \A t \in Tasks : pc[t] \in {"attach", "ready"} => worker[cap[t]] # "none"
    /\ \A t \in Tasks : pc[t] = "restore" => /\ process # None
                                             /\ state \notin {"starting", "powered_off"}

\* A worker may outlive its session for a while, but then somebody is at work
\* to end it, and no QMP request that could revive the session is under way.
EndedWithWorker ==
    (state \in Terminal /\ \E p \in Procs : Live(p)) =>
        /\ pc[Creator] # "idle" \/ lifecycle_lock # None
        /\ \A q \in Requests : pc[q] \notin {"qmp", "restore"}
        /\ \A q \in Requests : pc[q] = "qmp_lock" => op[q] \in {"pause", "reset"}

Ending == /\ Released /\ ReaderOwned /\ Launched /\ EndedWithWorker
          /\ TerminalKeepsOnlyStragglers /\ PoweredHasProcess

EndInv == OneWorkerInv /\ Ending

\* What a straggler may still record.
LEMMA StragglerRecords ==
    ASSUME replay_actions \in Seq({"serial", "power_on"}),
           NEW a \in {"serial", "power_on"}, AppendReplayAction(a)
    PROVE  replay_actions' \in Seq({"serial", "power_on"})
  BY MaxActionsAssumption DEF AppendReplayAction

LEMMA StragglerKeeps ==
    ASSUME TerminalKeepsOnlyStragglers, UNCHANGED state,
           NEW a \in {"serial", "power_on"}, AppendReplayAction(a)
    PROVE  TerminalKeepsOnlyStragglers'
<1>1. flash' = flash /\ initial_flash_image' = initial_flash_image
  BY DEF AppendReplayAction
<1> QED
  BY <1>1, StragglerRecords DEF TerminalKeepsOnlyStragglers

LEMMA NothingKept ==
    ASSUME DestroyPrivateData
    PROVE  TerminalKeepsOnlyStragglers'
<1>1. replay_actions' \in Seq({"serial", "power_on"})
  BY DEF DestroyPrivateData
<1> QED
  BY <1>1 DEF DestroyPrivateData, TerminalKeepsOnlyStragglers

LEMMA EndInit == Init => EndInv
<1> SUFFICES ASSUME Init PROVE EndInv
  OBVIOUS
<1>1. Released /\ ReaderOwned /\ Launched
  BY DistinctAssumption DEF Init, Tasks, Released, ReaderOwned, Launched
<1>2. EndedWithWorker /\ TerminalKeepsOnlyStragglers /\ PoweredHasProcess
  BY DEF Init, EndedWithWorker, TerminalKeepsOnlyStragglers, PoweredHasProcess,
     Terminal, Active, Powered
<1> QED
  BY <1>1, <1>2, OneWorkerInit DEF EndInv, Ending

\* The steps of _launch ...
LEMMA LaunchEnding ==
    ASSUME EndInv, NEW t \in Tasks, LaunchStep(t)
    PROVE  Ending'
<1>1. CASE Spawn(t)
  <2>1. Released'
    BY <1>1 DEF EndInv, Ending, Spawn, Suspend, Released
  <2>2. ReaderOwned'
    BY <1>1, NewSlot DEF EndInv, Ending, Spawn, Suspend, ReaderOwned
  <2>3. Launched'
    BY <1>1, NewSlot DEF EndInv, Ending, OneWorkerInv, TypeInv, TypeOK, TaskType,
       WorkerType, Spawn, Suspend, Launched
  <2>4. EndedWithWorker'
    BY <1>1 DEF EndInv, Ending, Spawn, EndedWithWorker, TerminalKeepsOnlyStragglers
  <2>5. TerminalKeepsOnlyStragglers'
    BY <1>1 DEF EndInv, Ending, Spawn, TerminalKeepsOnlyStragglers
  <2>6. PoweredHasProcess'
    BY <1>1 DEF EndInv, Ending, lockVars, Spawn, Suspend, PoweredHasProcess
  <2> QED
    BY <2>1, <2>2, <2>3, <2>4, <2>5, <2>6 DEF Ending
<1>2. CASE SpawnFails(t)
  <2>1. Released'
    BY <1>2 DEF EndInv, Ending, OneWorkerInv, TypeInv, TypeOK, TaskType, Discipline,
       NoReplay, LockDiscipline, CreateDiscipline, Tasks, workerVars, SpawnFails,
       LaunchRaised, Return, BeginTerminate, Released
  <2>2. ReaderOwned'
    BY <1>2, DistinctAssumption DEF EndInv, Ending, OneWorkerInv, TypeInv, TypeOK,
       TaskType, WorkerType, Discipline, NoReplay, LockDiscipline, Tasks, workerVars,
       SpawnFails, LaunchRaised, BeginTerminate, ReaderOwned, Released
  <2>3. Launched'
    BY <1>2, NotAReplay DEF EndInv, OneWorkerInv, TypeInv, TypeOK, TaskType,
       ControlOK, Discipline, LockDiscipline, CreateDiscipline, LockedPcs, Launching,
       SpawnFails, LaunchRaised, Return, BeginTerminate, Launched
  <2>4. EndedWithWorker'
    BY <1>2 DEF EndInv, OneWorkerInv, Ownership, Live, workerVars, SpawnFails,
       EndedWithWorker, LaunchAlone
  <2>5. TerminalKeepsOnlyStragglers'
    BY <1>2, NotAReplay, NothingKept DEF EndInv, Ending, OneWorkerInv, Discipline,
       LockDiscipline, CreateDiscipline, dataVars, SpawnFails, LaunchRaised,
       TerminalKeepsOnlyStragglers
  <2>6. PoweredHasProcess'
    BY <1>2 DEF EndInv, Ending, OneWorkerInv, TypeInv, TypeOK, TaskType, Discipline,
       NoReplay, LockDiscipline, CreateDiscipline, Powered, Tasks, workerVars,
       lockVars, SpawnFails, LaunchRaised, BeginTerminate, PoweredHasProcess
  <2> QED
    BY <2>1, <2>2, <2>3, <2>4, <2>5, <2>6 DEF Ending
<1>3. CASE Attach(t)
  <2>1. Released'
    BY <1>3, NotAReplay DEF EndInv, Ending, OneWorkerInv, TypeInv, TypeOK, TaskType,
       Discipline, LockDiscipline, CreateDiscipline, OffMeansOff, LockedPcs,
       Launching, Attach, Suspend, Released
  <2>2. ReaderOwned'
    BY <1>3, DistinctAssumption DEF EndInv, Ending, OneWorkerInv, OffMeansOff,
       Launching, Attach, Suspend, ReaderOwned, Released
  <2>3. Launched'
    BY <1>3 DEF EndInv, Ending, Attach, Suspend, Launched, Released
  <2>4. EndedWithWorker'
    BY <1>3 DEF EndInv, Ending, Live, lockVars, Attach, Suspend, EndedWithWorker
  <2>5. TerminalKeepsOnlyStragglers'
    BY <1>3 DEF EndInv, Ending, dataVars, Attach, TerminalKeepsOnlyStragglers
  <2>6. PoweredHasProcess'
    BY <1>3, DistinctAssumption DEF EndInv, OneWorkerInv, TypeInv, ControlOK, Attach,
       PoweredHasProcess
  <2> QED
    BY <2>1, <2>2, <2>3, <2>4, <2>5, <2>6 DEF Ending
<1>4. CASE Ready(t)
  <2>1. Released'
    BY <1>4, DistinctAssumption DEF EndInv, Ending, OneWorkerInv, TypeInv, TypeOK,
       TaskType, ControlOK, Tasks, Ready, LaunchStillCurrent, Suspend, ActionDone,
       Return, Released
  <2>2. ReaderOwned'
    BY <1>4 DEF EndInv, Ending, OneWorkerInv, TypeInv, TypeOK, TaskType, workerVars,
       Ready, Suspend, ActionDone, Return, ReaderOwned
  <2>3. Launched'
    BY <1>4, DistinctAssumption DEF EndInv, Ending, OneWorkerInv, TypeInv, TypeOK,
       TaskType, ControlOK, workerVars, Ready, LaunchStillCurrent, Suspend,
       ActionDone, Return, Launched, Released
  <2>4. EndedWithWorker'
    BY <1>4 DEF Terminal, Active, Ready, EndedWithWorker
  <2>5. TerminalKeepsOnlyStragglers'
    BY <1>4 DEF Terminal, Active, Ready, TerminalKeepsOnlyStragglers
  <2>6. PoweredHasProcess'
    BY <1>4, DistinctAssumption DEF EndInv, OneWorkerInv, TypeInv, ControlOK,
       workerVars, Ready, LaunchStillCurrent, PoweredHasProcess
  <2> QED
    BY <2>1, <2>2, <2>3, <2>4, <2>5, <2>6 DEF Ending
<1>5. CASE NotReady(t)
  <2>1. Released'
    BY <1>5 DEF EndInv, Ending, workerVars, NotReady, BeginTerminate, Released
  <2>2. ReaderOwned'
    BY <1>5 DEF EndInv, Ending, workerVars, NotReady, BeginTerminate, ReaderOwned
  <2>3. Launched'
    BY <1>5 DEF EndInv, Ending, OneWorkerInv, TypeInv, TypeOK, TaskType, workerVars,
       NotReady, BeginTerminate, Launched
  <2>4. EndedWithWorker'
    BY <1>5 DEF EndInv, Ending, Live, workerVars, lockVars, NotReady, BeginTerminate,
       EndedWithWorker
  <2>5. TerminalKeepsOnlyStragglers'
    BY <1>5 DEF EndInv, Ending, dataVars, NotReady, TerminalKeepsOnlyStragglers
  <2>6. PoweredHasProcess'
    BY <1>5 DEF EndInv, Ending, workerVars, lockVars, NotReady, BeginTerminate,
       PoweredHasProcess
  <2> QED
    BY <2>1, <2>2, <2>3, <2>4, <2>5, <2>6 DEF Ending
<1> QED
  BY <1>1, <1>2, <1>3, <1>4, <1>5 DEF LaunchStep

\* ... of _terminate_worker and what follows it ...
LEMMA TerminateEnding ==
    ASSUME EndInv, NEW t \in Tasks, TerminateStep(t)
    PROVE  Ending'
<1>1. CASE Capture(t)
  <2>1. Released'
    BY <1>1 DEF EndInv, Ending, Tasks, Capture, Suspend, Released
  <2>2. ReaderOwned'
    BY <1>1 DEF EndInv, Ending, OneWorkerInv, TypeInv, TypeOK, TaskType, Capture,
       Suspend, ReaderOwned
  <2>3. Launched'
    BY <1>1, NotAReplay DEF EndInv, Ending, OneWorkerInv, TypeInv, ControlOK,
       Discipline, LockDiscipline, CreateDiscipline, LockedPcs, Capture, Suspend,
       Launched
  <2>4. EndedWithWorker'
    BY <1>1 DEF EndInv, Ending, Live, lockVars, Capture, Suspend, EndedWithWorker
  <2>5. TerminalKeepsOnlyStragglers'
    BY <1>1 DEF EndInv, Ending, dataVars, Capture, TerminalKeepsOnlyStragglers
  <2>6. PoweredHasProcess'
    BY <1>1, NotAReplay, DistinctAssumption DEF EndInv, OneWorkerInv, Discipline,
       LockDiscipline, LockedPcs, lockVars, Capture, Suspend, PoweredHasProcess
  <2> QED
    BY <2>1, <2>2, <2>3, <2>4, <2>5, <2>6 DEF Ending
<1>2. CASE KillTimeout(t)
  <2>1. /\ TerminalKeepsOnlyStragglers'
       /\ PoweredHasProcess'
    BY <1>2 DEF EndInv, Ending, lockVars, dataVars, KillTimeout, taskVars,
       TerminalKeepsOnlyStragglers, PoweredHasProcess
  <2>2. Released'
    BY <1>2 DEF EndInv, Ending, KillTimeout, taskVars, Released
  <2>3. ReaderOwned'
    BY <1>2 DEF EndInv, Ending, KillTimeout, taskVars, ReaderOwned
  <2>4. Launched'
    BY <1>2 DEF EndInv, Ending, KillTimeout, taskVars, Launched
  <2>5. EndedWithWorker'
    BY <1>2 DEF EndInv, Ending, Live, lockVars, KillTimeout, taskVars, EndedWithWorker
  <2> QED
    BY <2>1, <2>2, <2>3, <2>4, <2>5 DEF Ending
<1>3. CASE FinishStop(t)
  <2>1. Released'
    BY <1>3 DEF EndInv, Ending, workerVars, FinishStop, Return, Released
  <2>2. ReaderOwned'
    BY <1>3 DEF EndInv, Ending, workerVars, FinishStop, Terminated, Return,
       ReaderOwned
  <2>3. Launched'
    BY <1>3 DEF EndInv, Ending, States, Terminal, Active, workerVars, FinishStop,
       Terminated, Return, Launched
  <2>4. EndedWithWorker'
    BY <1>3, NotAReplay, DistinctAssumption DEF EndInv, Ending, OneWorkerInv,
       Discipline, LockDiscipline, CreateDiscipline, Ownership, Live, LockedPcs,
       workerVars, FinishStop, Terminated, Return, EndedWithWorker, Released,
       LiveIsOwned
  <2>5. TerminalKeepsOnlyStragglers'
    BY <1>3, NothingKept DEF FinishStop
  <2>6. PoweredHasProcess'
    BY <1>3 DEF Powered, FinishStop, PoweredHasProcess
  <2> QED
    BY <2>1, <2>2, <2>3, <2>4, <2>5, <2>6 DEF Ending
<1>4. CASE FinishPowerOff(t)
  <2>1. Released'
    BY <1>4, NotAReplay DEF EndInv, Ending, OneWorkerInv, TypeInv, TypeOK, TaskType,
       Tasks, workerVars, FinishPowerOff, Terminated, ActionDone, Return, Released
  <2>2. ReaderOwned'
    BY <1>4, NotAReplay, DistinctAssumption DEF EndInv, Ending, OneWorkerInv, TypeInv,
       TypeOK, WorkerType, ControlOK, Discipline, LockDiscipline, CreateDiscipline,
       LockedPcs, workerVars, FinishPowerOff, Terminated, ReaderOwned, Released
  <2>3. Launched'
    BY <1>4, NotAReplay DEF EndInv, OneWorkerInv, TypeInv, TypeOK, TaskType,
       ControlOK, Discipline, LockDiscipline, CreateDiscipline, LockedPcs,
       FinishPowerOff, ActionDone, Return, Launched
  <2>4. EndedWithWorker'
    BY <1>4 DEF Terminal, Active, FinishPowerOff, EndedWithWorker
  <2>5. TerminalKeepsOnlyStragglers'
    BY <1>4 DEF Terminal, Active, FinishPowerOff, TerminalKeepsOnlyStragglers
  <2>6. PoweredHasProcess'
    BY <1>4 DEF Powered, FinishPowerOff, PoweredHasProcess
  <2> QED
    BY <2>1, <2>2, <2>3, <2>4, <2>5, <2>6 DEF Ending
<1>5. CASE FinishAbort(t)
  <2>1. Released'
    BY <1>5 DEF EndInv, Ending, OneWorkerInv, TypeInv, TypeOK, TaskType, ControlOK,
       Discipline, NoReplay, LockDiscipline, CreateDiscipline, Tasks, workerVars,
       FinishAbort, LaunchRaised, Return, BeginTerminate, Released
  <2>2. ReaderOwned'
    BY <1>5, NotAReplay DEF EndInv, Ending, OneWorkerInv, TypeInv, TypeOK, TaskType,
       Discipline, LockDiscipline, CreateDiscipline, workerVars, FinishAbort,
       Terminated, LaunchRaised, Return, BeginTerminate, ReaderOwned
  <2>3. Launched'
    BY <1>5, NotAReplay DEF EndInv, Ending, OneWorkerInv, TypeInv, TypeOK, TaskType,
       Discipline, LockDiscipline, CreateDiscipline, LockedPcs, Launching,
       FinishAbort, Terminated, LaunchRaised, Return, BeginTerminate, Launched,
       Released
  <2>4. EndedWithWorker'
    BY <1>5, DistinctAssumption DEF EndInv, Ending, OneWorkerInv, TypeInv, TypeOK,
       TaskType, Discipline, NoReplay, LockDiscipline, CreateDiscipline, Ownership,
       Live, LockedPcs, Tasks, workerVars, lockVars, FinishAbort, Terminated,
       LaunchRaised, Return, EndedWithWorker, Released, LiveIsOwned
  <2>5. TerminalKeepsOnlyStragglers'
    BY <1>5, NotAReplay, NothingKept DEF EndInv, Ending, OneWorkerInv, Discipline,
       LockDiscipline, CreateDiscipline, dataVars, FinishAbort, Terminated,
       LaunchRaised, TerminalKeepsOnlyStragglers
  <2>6. PoweredHasProcess'
    BY <1>5 DEF EndInv, Ending, OneWorkerInv, TypeInv, TypeOK, TaskType, Discipline,
       NoReplay, LockDiscipline, CreateDiscipline, Powered, Tasks, workerVars,
       lockVars, FinishAbort, Terminated, LaunchRaised, BeginTerminate,
       PoweredHasProcess
  <2> QED
    BY <2>1, <2>2, <2>3, <2>4, <2>5, <2>6 DEF Ending
<1>6. CASE FinishDiscard(t)
  <2>1. Released'
    BY <1>6, NotAReplay DEF EndInv, Ending, OneWorkerInv, TypeInv, TypeOK, TaskType,
       Tasks, workerVars, FinishDiscard, Terminated, Return, Released
  <2>2. ReaderOwned'
    BY <1>6, NotAReplay DEF EndInv, Ending, OneWorkerInv, TypeInv, TypeOK, TaskType,
       workerVars, FinishDiscard, Terminated, Return, ReaderOwned
  <2>3. Launched'
    BY <1>6, NotAReplay DEF EndInv, OneWorkerInv, TypeInv, TypeOK, TaskType,
       ControlOK, Discipline, LockDiscipline, CreateDiscipline, LockedPcs,
       FinishDiscard, Return, Launched
  <2>4. EndedWithWorker'
    BY <1>6, NotAReplay, DistinctAssumption DEF EndInv, Ending, OneWorkerInv,
       Discipline, LockDiscipline, CreateDiscipline, Ownership, Live, LockedPcs,
       workerVars, FinishDiscard, Terminated, EndedWithWorker, Released, LiveIsOwned
  <2>5. TerminalKeepsOnlyStragglers'
    BY <1>6, NothingKept DEF FinishDiscard
  <2>6. PoweredHasProcess'
    BY <1>6 DEF Powered, FinishDiscard, PoweredHasProcess
  <2> QED
    BY <2>1, <2>2, <2>3, <2>4, <2>5, <2>6 DEF Ending
<1> QED
  BY <1>1, <1>2, <1>3, <1>4, <1>5, <1>6 DEF TerminateStep

\* ... of _restore_virtual_environment ...
LEMMA RestoreEnding ==
    ASSUME EndInv, NEW t \in Tasks, Restore(t) \/ RestoreFails(t)
    PROVE  Ending'
<1>1. CASE Restore(t)
  <2>1. Released'
    BY <1>1, NotAReplay DEF EndInv, Ending, OneWorkerInv, TypeInv, TypeOK, TaskType,
       Tasks, workerVars, Restore, ActionDone, Return, Released
  <2>2. ReaderOwned'
    BY <1>1, NotAReplay DEF EndInv, Ending, OneWorkerInv, TypeInv, TypeOK, TaskType,
       workerVars, Restore, ActionDone, Return, ReaderOwned
  <2>3. Launched'
    BY <1>1, NotAReplay DEF EndInv, Ending, OneWorkerInv, TypeInv, TypeOK, TaskType,
       workerVars, Restore, ActionDone, Return, Launched
  <2>4. EndedWithWorker'
    BY <1>1, NotAReplay DEF EndInv, Ending, OneWorkerInv, Discipline,
       CreateDiscipline, Live, workerVars, Restore, EndedWithWorker
  <2>5. TerminalKeepsOnlyStragglers'
    BY <1>1, StragglerKeeps DEF EndInv, Ending, Restore
  <2>6. PoweredHasProcess'
    BY <1>1 DEF EndInv, Ending, workerVars, Restore, PoweredHasProcess, Launched
  <2> QED
    BY <2>1, <2>2, <2>3, <2>4, <2>5, <2>6 DEF Ending
<1>2. CASE RestoreFails(t)
  <2>1. Released'
    BY <1>2 DEF EndInv, Ending, workerVars, RestoreFails, BeginTerminate, Released
  <2>2. ReaderOwned'
    BY <1>2 DEF EndInv, Ending, workerVars, RestoreFails, BeginTerminate, ReaderOwned
  <2>3. Launched'
    BY <1>2, NotAReplay DEF EndInv, OneWorkerInv, TypeInv, TypeOK, TaskType,
       ControlOK, Discipline, LockDiscipline, CreateDiscipline, LockedPcs,
       RestoreFails, BeginTerminate, Launched
  <2>4. EndedWithWorker'
    BY <1>2 DEF EndInv, Ending, Live, workerVars, lockVars, RestoreFails,
       BeginTerminate, EndedWithWorker
  <2>5. TerminalKeepsOnlyStragglers'
    BY <1>2 DEF EndInv, Ending, dataVars, RestoreFails, TerminalKeepsOnlyStragglers
  <2>6. PoweredHasProcess'
    BY <1>2 DEF EndInv, Ending, workerVars, lockVars, RestoreFails, BeginTerminate,
       PoweredHasProcess
  <2> QED
    BY <2>1, <2>2, <2>3, <2>4, <2>5, <2>6 DEF Ending
<1> QED
  BY <1>1, <1>2

\* ... of serial input ...
LEMMA DrainEnding ==
    ASSUME EndInv, NEW t \in Tasks, DrainStep(t)
    PROVE  Ending'
<1>1. /\ t \notin Replays /\ pc[t] = "drain" /\ t # Creator
      /\ Return(t)
      /\ UNCHANGED <<state, workerVars, lockVars, replayVars>>
  BY NotAReplay DEF EndInv, OneWorkerInv, Discipline, CreateDiscipline, TypeInv,
     ControlOK, DrainStep, Drained, DrainFails
<1>2. Released'
  BY <1>1 DEF EndInv, Ending, workerVars, Return, Released
<1>3. ReaderOwned'
  BY <1>1 DEF EndInv, Ending, workerVars, Return, ReaderOwned
<1>4. Launched'
  BY <1>1 DEF EndInv, Ending, workerVars, Return, Launched
<1>5. EndedWithWorker'
  BY <1>1 DEF EndInv, Ending, Live, workerVars, lockVars, Return, EndedWithWorker
<1>6. TerminalKeepsOnlyStragglers'
  <2>1. CASE Drained(t)
    BY <1>1, <2>1, StragglerKeeps DEF EndInv, Ending, Drained
  <2>2. CASE DrainFails(t)
    BY <1>1, <2>2 DEF EndInv, Ending, DrainFails, dataVars, TerminalKeepsOnlyStragglers
  <2> QED
    BY <2>1, <2>2 DEF DrainStep
<1>7. PoweredHasProcess'
  BY <1>1 DEF EndInv, Ending, workerVars, lockVars, Return, PoweredHasProcess
<1> QED
  BY <1>2, <1>3, <1>4, <1>5, <1>6, <1>7 DEF Ending

\* ... of the requests that obtain a lock ...
LEMMA LockEnding ==
    ASSUME EndInv, NEW t \in Requests,
           StopUnderLock(t) \/ PowerOff(t) \/ PowerOn(t) \/ PowerRefused(t) \/ QmpLock(t)
    PROVE  Ending'
<1> t \in Tasks
  BY DEF Tasks
<1>1. CASE StopUnderLock(t)
  <2>1. Released'
    BY <1>1 DEF EndInv, Ending, workerVars, StopUnderLock, BeginTerminate, Released
  <2>2. ReaderOwned'
    BY <1>1 DEF EndInv, Ending, workerVars, StopUnderLock, Lock, BeginTerminate,
       ReaderOwned
  <2>3. Launched'
    BY <1>1 DEF EndInv, Ending, workerVars, StopUnderLock, Lock, BeginTerminate,
       Launched
  <2>4. EndedWithWorker'
    BY <1>1 DEF EndInv, Ending, Live, workerVars, StopUnderLock, Lock, BeginTerminate,
       EndedWithWorker
  <2>5. TerminalKeepsOnlyStragglers'
    BY <1>1 DEF EndInv, Ending, dataVars, StopUnderLock, TerminalKeepsOnlyStragglers
  <2>6. PoweredHasProcess'
    BY <1>1, DistinctAssumption DEF StopUnderLock, Lock, PoweredHasProcess
  <2> QED
    BY <2>1, <2>2, <2>3, <2>4, <2>5, <2>6 DEF Ending
<1>2. CASE PowerOff(t)
  <2>1. Released'
    BY <1>2 DEF EndInv, Ending, workerVars, PowerOff, BeginTerminate, Released
  <2>2. ReaderOwned'
    BY <1>2 DEF EndInv, Ending, workerVars, PowerOff, Lock, BeginTerminate,
       ReaderOwned
  <2>3. Launched'
    BY <1>2 DEF EndInv, Ending, workerVars, PowerOff, Lock, BeginTerminate, Launched
  <2>4. EndedWithWorker'
    BY <1>2 DEF Terminal, Active, Powered, PowerOff, MayPowerOff, EndedWithWorker
  <2>5. TerminalKeepsOnlyStragglers'
    BY <1>2 DEF Terminal, Active, Powered, PowerOff, MayPowerOff,
       TerminalKeepsOnlyStragglers
  <2>6. PoweredHasProcess'
    BY <1>2, DistinctAssumption DEF PowerOff, Lock, PoweredHasProcess
  <2> QED
    BY <2>1, <2>2, <2>3, <2>4, <2>5, <2>6 DEF Ending
<1>3. CASE PowerOn(t)
  <2>1. Released'
    BY <1>3, DistinctAssumption DEF EndInv, Ending, workerVars, PowerOn, MayPowerOn,
       Suspend, Released
  <2>2. ReaderOwned'
    BY <1>3 DEF EndInv, Ending, workerVars, PowerOn, MayPowerOn, ReaderOwned
  <2>3. Launched'
    BY <1>3 DEF EndInv, Ending, OneWorkerInv, OffMeansOff, Launching, PowerOn,
       MayPowerOn, Suspend, Launched
  <2>4. EndedWithWorker'
    BY <1>3 DEF Terminal, Active, PowerOn, EndedWithWorker
  <2>5. TerminalKeepsOnlyStragglers'
    BY <1>3 DEF Terminal, Active, PowerOn, TerminalKeepsOnlyStragglers
  <2>6. PoweredHasProcess'
    BY <1>3, DistinctAssumption DEF PowerOn, Lock, PoweredHasProcess
  <2> QED
    BY <2>1, <2>2, <2>3, <2>4, <2>5, <2>6 DEF Ending
<1>4. CASE PowerRefused(t)
  <2>1. Released'
    BY <1>4 DEF EndInv, Ending, workerVars, PowerRefused, Return, Released
  <2>2. ReaderOwned'
    BY <1>4 DEF EndInv, Ending, workerVars, PowerRefused, Return, ReaderOwned
  <2>3. Launched'
    BY <1>4 DEF EndInv, Ending, workerVars, PowerRefused, Return, Launched
  <2>4. EndedWithWorker'
    BY <1>4, DistinctAssumption DEF EndInv, Ending, Live, workerVars, PowerRefused,
       Return, EndedWithWorker
  <2>5. TerminalKeepsOnlyStragglers'
    BY <1>4 DEF EndInv, Ending, dataVars, PowerRefused, TerminalKeepsOnlyStragglers
  <2>6. PoweredHasProcess'
    BY <1>4, DistinctAssumption DEF EndInv, Ending, workerVars, PowerRefused, Return,
       PoweredHasProcess
  <2> QED
    BY <2>1, <2>2, <2>3, <2>4, <2>5, <2>6 DEF Ending
<1>5. CASE QmpLock(t)
  <2>1. Released'
    BY <1>5 DEF EndInv, Ending, OneWorkerInv, TypeInv, TypeOK, TaskType, Tasks,
       workerVars, QmpLock, Suspend, Return, Released
  <2>2. ReaderOwned'
    BY <1>5 DEF EndInv, Ending, OneWorkerInv, TypeInv, TypeOK, TaskType, workerVars,
       QmpLock, Suspend, Return, ReaderOwned
  <2>3. Launched'
    BY <1>5 DEF EndInv, Ending, OneWorkerInv, TypeInv, TypeOK, TaskType, workerVars,
       QmpLock, Suspend, Return, Launched
  <2>4. EndedWithWorker'
    BY <1>5, DistinctAssumption DEF EndInv, Ending, OneWorkerInv, TypeInv, TypeOK,
       TaskType, Live, Terminal, Active, Powered, Tasks, workerVars, QmpLock,
       QmpStillAdmits, Return, EndedWithWorker
  <2>5. TerminalKeepsOnlyStragglers'
    BY <1>5 DEF EndInv, Ending, dataVars, QmpLock, TerminalKeepsOnlyStragglers
  <2>6. PoweredHasProcess'
    BY <1>5, DistinctAssumption DEF EndInv, Ending, OneWorkerInv, TypeInv, TypeOK,
       TaskType, Tasks, workerVars, QmpLock, Suspend, Return, PoweredHasProcess
  <2> QED
    BY <2>1, <2>2, <2>3, <2>4, <2>5, <2>6 DEF Ending
<1> QED
  BY <1>1, <1>2, <1>3, <1>4, <1>5

\* ... of the other steps of requests ...
LEMMA RequestEnding ==
    ASSUME EndInv, NEW t \in Requests, RequestStep(t) \/ ClientStep(t)
    PROVE  Ending'
<1> t \in Tasks
  BY DEF Tasks
<1>1. CASE Expire(t)
  <2>1. Released'
    BY <1>1 DEF EndInv, Ending, OneWorkerInv, TypeInv, TypeOK, TaskType, Tasks,
       workerVars, Expire, BeginStop, Suspend, Released
  <2>2. ReaderOwned'
    BY <1>1 DEF EndInv, Ending, OneWorkerInv, TypeInv, TypeOK, TaskType, workerVars,
       Expire, BeginStop, Suspend, ReaderOwned
  <2>3. Launched'
    BY <1>1 DEF EndInv, Ending, OneWorkerInv, TypeInv, TypeOK, TaskType, workerVars,
       Expire, BeginStop, Suspend, Launched
  <2>4. EndedWithWorker'
    BY <1>1 DEF EndInv, Ending, OneWorkerInv, TypeInv, TypeOK, TaskType, Live, Tasks,
       workerVars, lockVars, Expire, BeginStop, Suspend, EndedWithWorker
  <2>5. TerminalKeepsOnlyStragglers'
    BY <1>1 DEF EndInv, Ending, dataVars, Expire, BeginStop,
       TerminalKeepsOnlyStragglers
  <2>6. PoweredHasProcess'
    BY <1>1 DEF EndInv, Ending, OneWorkerInv, TypeInv, TypeOK, TaskType, Tasks,
       workerVars, lockVars, Expire, BeginStop, Suspend, PoweredHasProcess
  <2> QED
    BY <2>1, <2>2, <2>3, <2>4, <2>5, <2>6 DEF Ending
<1>2. CASE Stop(t)
  <2>1. Released'
    BY <1>2 DEF EndInv, Ending, OneWorkerInv, TypeInv, TypeOK, TaskType, Tasks,
       workerVars, Stop, BeginStop, Suspend, Released
  <2>2. ReaderOwned'
    BY <1>2 DEF EndInv, Ending, OneWorkerInv, TypeInv, TypeOK, TaskType, workerVars,
       Stop, BeginStop, Suspend, ReaderOwned
  <2>3. Launched'
    BY <1>2 DEF EndInv, Ending, OneWorkerInv, TypeInv, TypeOK, TaskType, workerVars,
       Stop, BeginStop, Suspend, Launched
  <2>4. EndedWithWorker'
    BY <1>2 DEF EndInv, Ending, OneWorkerInv, TypeInv, TypeOK, TaskType, Live, Tasks,
       workerVars, lockVars, Stop, BeginStop, Suspend, EndedWithWorker
  <2>5. TerminalKeepsOnlyStragglers'
    BY <1>2 DEF EndInv, Ending, dataVars, Stop, BeginStop, TerminalKeepsOnlyStragglers
  <2>6. PoweredHasProcess'
    BY <1>2 DEF EndInv, Ending, OneWorkerInv, TypeInv, TypeOK, TaskType, Tasks,
       workerVars, lockVars, Stop, BeginStop, Suspend, PoweredHasProcess
  <2> QED
    BY <2>1, <2>2, <2>3, <2>4, <2>5, <2>6 DEF Ending
<1>3. CASE Joined(t)
  <2>1. Released'
    BY <1>3 DEF EndInv, Ending, workerVars, Joined, Suspend, Released
  <2>2. ReaderOwned'
    BY <1>3 DEF EndInv, Ending, workerVars, Joined, Suspend, ReaderOwned
  <2>3. Launched'
    BY <1>3 DEF EndInv, Ending, workerVars, Joined, Suspend, Launched
  <2>4. EndedWithWorker'
    BY <1>3 DEF EndInv, Ending, Live, workerVars, lockVars, Joined, Suspend,
       EndedWithWorker
  <2>5. TerminalKeepsOnlyStragglers'
    BY <1>3 DEF EndInv, Ending, dataVars, Joined, TerminalKeepsOnlyStragglers
  <2>6. PoweredHasProcess'
    BY <1>3 DEF EndInv, Ending, workerVars, lockVars, Joined, Suspend,
       PoweredHasProcess
  <2> QED
    BY <2>1, <2>2, <2>3, <2>4, <2>5, <2>6 DEF Ending
<1>4. CASE QmpAnswer(t)
  <2>1. Released'
    BY <1>4 DEF EndInv, Ending, Powered, workerVars, QmpAnswer, StateAfterQmp, Return,
       Released
  <2>2. ReaderOwned'
    BY <1>4 DEF EndInv, Ending, Powered, workerVars, QmpAnswer, StateAfterQmp, Return,
       ReaderOwned
  <2>3. Launched'
    BY <1>4 DEF EndInv, Ending, OneWorkerInv, Ownership, Live, Powered, workerVars,
       QmpAnswer, StateAfterQmp, QmpAnswers, Return, Launched, LaunchAlone
  <2>4. EndedWithWorker'
    BY <1>4 DEF EndInv, Ending, Live, Terminal, Active, Powered, QmpAnswer,
       StateAfterQmp, QmpAnswers, EndedWithWorker
  <2>5. TerminalKeepsOnlyStragglers'
    BY <1>4 DEF EndInv, Ending, Live, Terminal, Active, Powered, QmpAnswer,
       StateAfterQmp, QmpAnswers, TerminalKeepsOnlyStragglers, EndedWithWorker
  <2>6. PoweredHasProcess'
    BY <1>4, DistinctAssumption DEF EndInv, OneWorkerInv, Discipline, NoReplay,
       LockDiscipline, CreateDiscipline, Ownership, Live, LockedPcs, Tasks,
       workerVars, QmpAnswer, QmpAnswers, PoweredHasProcess, LiveIsOwned
  <2> QED
    BY <2>1, <2>2, <2>3, <2>4, <2>5, <2>6 DEF Ending
<1>5. CASE QmpFails(t)
  <2>1. Released'
    BY <1>5 DEF EndInv, Ending, workerVars, QmpFails, Return, Released
  <2>2. ReaderOwned'
    BY <1>5 DEF EndInv, Ending, workerVars, QmpFails, Return, ReaderOwned
  <2>3. Launched'
    BY <1>5 DEF EndInv, Ending, workerVars, QmpFails, Return, Launched
  <2>4. EndedWithWorker'
    BY <1>5 DEF EndInv, Ending, Live, workerVars, QmpFails, EndedWithWorker
  <2>5. TerminalKeepsOnlyStragglers'
    BY <1>5 DEF EndInv, Ending, dataVars, QmpFails, TerminalKeepsOnlyStragglers
  <2>6. PoweredHasProcess'
    BY <1>5, DistinctAssumption DEF EndInv, Ending, workerVars, QmpFails, Return,
       PoweredHasProcess
  <2> QED
    BY <2>1, <2>2, <2>3, <2>4, <2>5, <2>6 DEF Ending
<1>6. CASE ExpiryScan(t)
  <2>1. Released'
    BY <1>6 DEF EndInv, Ending, workerVars, ExpiryScan, Suspend, Released
  <2>2. ReaderOwned'
    BY <1>6 DEF EndInv, Ending, workerVars, ExpiryScan, Suspend, ReaderOwned
  <2>3. Launched'
    BY <1>6 DEF EndInv, Ending, workerVars, ExpiryScan, Suspend, Launched
  <2>4. EndedWithWorker'
    BY <1>6 DEF Terminal, ExpiryScan, EndedWithWorker
  <2>5. TerminalKeepsOnlyStragglers'
    BY <1>6 DEF EndInv, Ending, dataVars, ExpiryScan, TerminalKeepsOnlyStragglers
  <2>6. PoweredHasProcess'
    BY <1>6 DEF EndInv, Ending, workerVars, lockVars, ExpiryScan, Suspend,
       PoweredHasProcess
  <2> QED
    BY <2>1, <2>2, <2>3, <2>4, <2>5, <2>6 DEF Ending
<1>7. ASSUME NEW o \in {"power_off", "power_on"}, RequestPower(t, o)
      PROVE  Ending'
  <2>1. Released'
    BY <1>7 DEF EndInv, Ending, workerVars, RequestPower, Suspend, Released
  <2>2. ReaderOwned'
    BY <1>7 DEF EndInv, Ending, workerVars, RequestPower, Suspend, ReaderOwned
  <2>3. Launched'
    BY <1>7 DEF EndInv, Ending, workerVars, RequestPower, Suspend, Launched
  <2>4. EndedWithWorker'
    BY <1>7 DEF EndInv, Ending, Live, workerVars, lockVars, RequestPower, Suspend,
       EndedWithWorker
  <2>5. TerminalKeepsOnlyStragglers'
    BY <1>7 DEF EndInv, Ending, dataVars, RequestPower, TerminalKeepsOnlyStragglers
  <2>6. PoweredHasProcess'
    BY <1>7 DEF EndInv, Ending, workerVars, lockVars, RequestPower, Suspend,
       PoweredHasProcess
  <2> QED
    BY <2>1, <2>2, <2>3, <2>4, <2>5, <2>6 DEF Ending
<1>8. ASSUME NEW o \in QmpOps, QmpBegin(t, o)
      PROVE  Ending'
  <2>1. Released'
    BY <1>8 DEF EndInv, Ending, workerVars, QmpBegin, Suspend, Released
  <2>2. ReaderOwned'
    BY <1>8 DEF EndInv, Ending, workerVars, QmpBegin, Suspend, ReaderOwned
  <2>3. Launched'
    BY <1>8 DEF EndInv, Ending, workerVars, QmpBegin, Suspend, Launched
  <2>4. EndedWithWorker'
    BY <1>8 DEF EndInv, Ending, OneWorkerInv, TypeInv, TypeOK, TaskType, Live,
       Terminal, Active, Powered, workerVars, lockVars, QmpBegin, QmpAdmits, QmpOps,
       Suspend, EndedWithWorker
  <2>5. TerminalKeepsOnlyStragglers'
    BY <1>8 DEF EndInv, Ending, dataVars, QmpBegin, TerminalKeepsOnlyStragglers
  <2>6. PoweredHasProcess'
    BY <1>8 DEF EndInv, Ending, workerVars, lockVars, QmpBegin, Suspend,
       PoweredHasProcess
  <2> QED
    BY <2>1, <2>2, <2>3, <2>4, <2>5, <2>6 DEF Ending
<1>9. CASE WriteSerial(t)
  <2>1. Released'
    BY <1>9 DEF EndInv, Ending, workerVars, WriteSerial, Suspend, Released
  <2>2. ReaderOwned'
    BY <1>9 DEF EndInv, Ending, workerVars, WriteSerial, Suspend, ReaderOwned
  <2>3. Launched'
    BY <1>9 DEF EndInv, Ending, workerVars, WriteSerial, Suspend, Launched
  <2>4. EndedWithWorker'
    BY <1>9 DEF Terminal, Active, WriteSerial, MayWriteSerial, EndedWithWorker
  <2>5. TerminalKeepsOnlyStragglers'
    BY <1>9 DEF EndInv, Ending, dataVars, WriteSerial, TerminalKeepsOnlyStragglers
  <2>6. PoweredHasProcess'
    BY <1>9 DEF EndInv, Ending, workerVars, lockVars, WriteSerial, Suspend,
       PoweredHasProcess
  <2> QED
    BY <2>1, <2>2, <2>3, <2>4, <2>5, <2>6 DEF Ending
<1> QED
  BY <1>1, <1>2, <1>3, <1>4, <1>5, <1>6, <1>7, <1>8, <1>9 DEF RequestStep, ClientStep

\* ... and of the worker and its serial reader.
LEMMA ProcEnding ==
    ASSUME EndInv, NEW p \in Procs, WorkerExit(p) \/ ReaderStep(p)
    PROVE  Ending'
<1>1. CASE WorkerExit(p)
  <2>1. /\ TerminalKeepsOnlyStragglers'
       /\ PoweredHasProcess'
    BY <1>1 DEF EndInv, Ending, lockVars, dataVars, WorkerExit, taskVars,
       TerminalKeepsOnlyStragglers, PoweredHasProcess
  <2>2. Released'
    BY <1>1 DEF EndInv, Ending, WorkerExit, taskVars, Released
  <2>3. ReaderOwned'
    BY <1>1 DEF EndInv, Ending, WorkerExit, taskVars, ReaderOwned
  <2>4. Launched'
    BY <1>1 DEF EndInv, Ending, WorkerExit, taskVars, Launched
  <2>5. EndedWithWorker'
    BY <1>1 DEF EndInv, Ending, lockVars, WorkerExit, taskVars, EndedWithWorker
  <2> QED
    BY <2>1, <2>2, <2>3, <2>4, <2>5 DEF Ending
<1>2. CASE ReaderExit(p)
  <2>1. /\ EndedWithWorker'
       /\ TerminalKeepsOnlyStragglers'
       /\ PoweredHasProcess'
    BY <1>2 DEF EndInv, Ending, Live, lockVars, dataVars, ReaderExit, taskVars,
       EndedWithWorker, TerminalKeepsOnlyStragglers, PoweredHasProcess
  <2>2. Released'
    BY <1>2 DEF EndInv, Ending, ReaderExit, taskVars, Released
  <2>3. ReaderOwned'
    BY <1>2 DEF EndInv, Ending, ReaderExit, taskVars, ReaderOwned
  <2>4. Launched'
    BY <1>2 DEF EndInv, Ending, ReaderExit, taskVars, Launched
  <2> QED
    BY <2>1, <2>2, <2>3, <2>4 DEF Ending
<1>3. CASE ReaderFinish(p)
  <2>1. Released'
    BY <1>3 DEF EndInv, Ending, ReaderFinish, taskVars, Released
  <2>2. ReaderOwned'
    BY <1>3 DEF EndInv, Ending, ReaderFinish, taskVars, ReaderOwned
  <2>3. Launched'
    BY <1>3 DEF EndInv, Ending, States, Terminal, Active, ReaderFinish, taskVars,
       Launched
  <2>4. EndedWithWorker'
    BY <1>3, NotAReplay, DistinctAssumption DEF EndInv, Ending, OneWorkerInv,
       Discipline, LockDiscipline, CreateDiscipline, Ownership, Live, LockedPcs,
       ReaderFinish, taskVars, EndedWithWorker, Released, ReaderOwned, LiveIsOwned
  <2>5. TerminalKeepsOnlyStragglers'
    BY <1>3, NothingKept DEF ReaderFinish
  <2>6. PoweredHasProcess'
    BY <1>3 DEF Powered, ReaderFinish, PoweredHasProcess
  <2> QED
    BY <2>1, <2>2, <2>3, <2>4, <2>5, <2>6 DEF Ending
<1> QED
  BY <1>1, <1>2, <1>3 DEF ReaderStep

LEMMA EndStep ==
    ASSUME "replay" \notin Ops
    PROVE  EndInv /\ [Next]_vars => EndInv'
<1> SUFFICES ASSUME EndInv, [Next]_vars PROVE EndInv'
  OBVIOUS
<1>1. OneWorkerInv'
  BY OneWorkerStep DEF EndInv
<1>2. ASSUME NEW t \in Tasks, LockStep(t)
      PROVE  Ending'
  BY <1>2, RestoreEnding, LockEnding DEF LockStep
<1>3. ASSUME NEW r \in Replays, ReplayStep(r) \/ StartReplay(r)
      PROVE  FALSE
  BY <1>3, NoReplayStep DEF EndInv
<1>4. CASE UNCHANGED vars
  BY <1>1, <1>4 DEF EndInv, Ending, Released, ReaderOwned, Launched, EndedWithWorker,
     TerminalKeepsOnlyStragglers, PoweredHasProcess, Live, vars, taskVars, lockVars,
     workerVars, dataVars
<1> QED
  BY <1>1, <1>2, <1>3, <1>4, LaunchEnding, TerminateEnding, DrainEnding, RequestEnding,
     ProcEnding DEF Next, EndInv

(***************************************************************************)
(* A session that ended holds neither flash file, nor image, nor input     *)
(* recorded before it ended, whichever of stop, expiry, crash, failed      *)
(* launch and late QMP answers came last.  Its recording holds at most     *)
(* what write_serial and power_on add without looking at the session again *)
(* after drain, or after qmp_lock when there is nothing to restore.        *)
(***************************************************************************)
THEOREM EndedSessionIsClean ==
    ASSUME "replay" \notin Ops
    PROVE  Spec => []TerminalKeepsOnlyStragglers
<1>1. EndInv => TerminalKeepsOnlyStragglers
  BY DEF EndInv, Ending
<1>2. EndInv /\ [Next]_vars => EndInv'
  BY EndStep
<1> QED
  BY <1>1, <1>2, EndInit, PTL DEF Spec

(***************************************************************************)
(* A session shown as running or paused, with nobody at work on it, has a  *)
(* worker process: no late answer of pause, resume or refresh_state shows  *)
(* a session as running after its worker was taken away.                   *)
(***************************************************************************)
THEOREM RunningSessionHasWorker ==
    ASSUME "replay" \notin Ops
    PROVE  Spec => []PoweredHasProcess
<1>1. EndInv => PoweredHasProcess
  BY DEF EndInv, Ending
<1>2. EndInv /\ [Next]_vars => EndInv'
  BY EndStep
<1> QED
  BY <1>1, <1>2, EndInit, PTL DEF Spec

-----------------------------------------------------------------------------
(***************************************************************************)
(* Every step is a step of SessionContract or one that it does not see.    *)
(***************************************************************************)
Alive == \E p \in Procs : Live(p)
Busy  == pc[Creator] # "idle" \/ lifecycle_lock # None

\* The contract does not see the step.
Unseen ==
    /\ state' = state
    /\ Alive' <=> Alive
    /\ flash' = flash
    /\ Busy' <=> Busy

\* What the contract's End, Show and PowerOff ask for.
SeenEnding ==
    /\ state' \in Terminal
    /\ flash' = "gone"
    /\ Alive' <=> Alive
    /\ Alive => Busy'
    /\ Busy' => Busy

SeenShowing ==
    /\ state \in Powered \cup {"starting"}
    /\ state' \in Powered
    /\ Alive /\ Alive'
    /\ flash' = flash
    /\ Busy' => Busy

SeenPoweringOff ==
    /\ state' = "powered_off"
    /\ lifecycle_lock # None /\ op[lifecycle_lock] = "power_off"
    /\ ~Alive /\ ~Alive'
    /\ flash' = flash

\* What a step that makes an ended session active again must be.
Revival ==
    (state \in Terminal /\ state' \in Active)
        => /\ state' = "powered_off"
           /\ lifecycle_lock # None
           /\ op[lifecycle_lock] = "power_off"

Kept == [Contract!Next]_(Contract!vars) /\ Revival

LEMMA MayEndSeen ==
    ASSUME Busy' => Busy
    PROVE  Contract!MayEnd
<1>1. Contract!MayEnd <=> Busy' \in {Busy, FALSE}
  BY DEF Contract!MayEnd, Busy
<1>2. CASE Busy'
  <2>1. Busy' = Busy
    BY <1>2
  <2> QED
    BY <1>1, <2>1
<1>3. CASE ~Busy'
  <2>1. Busy' = FALSE
    BY <1>3
  <2> QED
    BY <1>1, <2>1
<1> QED
  BY <1>2, <1>3

LEMMA SeenIsKept ==
    ASSUME \/ Unseen \/ SeenEnding \/ SeenShowing \/ SeenPoweringOff
           \/ Contract!Launch \/ Contract!Die \/ Contract!Begin
           \/ Contract!Restored \/ Contract!PowerOn
    PROVE  Kept
<1> USE DEF Kept, Revival
<1>1. CASE Unseen
  <2>1. UNCHANGED Contract!vars
    BY <1>1 DEF Unseen, Alive, Busy, Contract!vars
  <2> QED
    BY <1>1, <2>1 DEF Unseen, Terminal
<1>2. CASE SeenEnding
  <2>1. Contract!End
    BY <1>2, MayEndSeen DEF SeenEnding, Contract!End, Contract!Terminal, Terminal,
       States, Active, Alive, Busy
  <2> QED
    BY <1>2, <2>1 DEF SeenEnding, Terminal, Contract!Next
<1>3. CASE SeenShowing
  <2>1. Contract!Show
    BY <1>3, MayEndSeen DEF SeenShowing, Contract!Show, Contract!Powered, Powered,
       Alive
  <2> QED
    BY <1>3, <2>1 DEF SeenShowing, Powered, Terminal, Active, Contract!Next
<1>4. CASE SeenPoweringOff
  <2>1. Contract!PowerOff
    BY <1>4, MayEndSeen DEF SeenPoweringOff, Contract!PowerOff, Alive, Busy
  <2> QED
    BY <1>4, <2>1 DEF SeenPoweringOff, Contract!Next
<1>5. CASE Contract!Launch \/ Contract!Die \/ Contract!Begin \/ Contract!Restored
  BY <1>5 DEF Contract!Launch, Contract!Die, Contract!Begin, Contract!Restored,
     Contract!Next, Terminal
<1>6. CASE Contract!PowerOn
  BY <1>6 DEF Contract!PowerOn, Contract!Next, Terminal, Active
<1> QED
  BY <1>1, <1>2, <1>3, <1>4, <1>5, <1>6

LEMMA LaunchSeen ==
    ASSUME EndInv, NEW t \in Tasks, LaunchStep(t)
    PROVE  Kept
<1>1. CASE Spawn(t)
  <2>1. Contract!Launch
    BY <1>1, NotAReplay, DistinctAssumption, NewSlot DEF EndInv, Ending, OneWorkerInv,
       TypeInv, TypeOK, WorkerType, Discipline, LockDiscipline, Ownership, Live,
       LockedPcs, lockVars, dataVars, Launched, LaunchAlone,
       TerminalKeepsOnlyStragglers, Spawn, Suspend, Contract!Launch
  <2> QED
    BY <2>1, SeenIsKept
<1>2. CASE SpawnFails(t)
  <2>1. SeenEnding \/ Unseen
    BY <1>2, NotAReplay, DistinctAssumption DEF EndInv, Ending, OneWorkerInv, TypeInv,
       Discipline, NoReplay, LockDiscipline, CreateDiscipline, Ownership, Live,
       LockedPcs, States, Terminal, Active, workerVars, lockVars, dataVars,
       LaunchAlone, SpawnFails, LaunchRaised, DestroyPrivateData, SeenEnding, Unseen,
       Alive, Busy
  <2> QED
    BY <2>1, SeenIsKept
<1>3. CASE Attach(t)
  <2>1. Unseen
    BY <1>3 DEF Live, lockVars, dataVars, Attach, Suspend, Unseen, Alive, Busy
  <2> QED
    BY <2>1, SeenIsKept
<1>4. CASE Ready(t)
  <2>1. SeenShowing
    BY <1>4, DistinctAssumption DEF EndInv, Ending, OneWorkerInv, TypeInv, TypeOK,
       TaskType, WorkerType, ControlOK, Live, Powered, Tasks, workerVars, lockVars,
       dataVars, Launched, Ready, LaunchStillCurrent, Suspend, AppendReplayAction,
       ActionDone, Return, Release, SeenShowing, Alive, Busy
  <2> QED
    BY <2>1, SeenIsKept
<1>5. CASE NotReady(t)
  <2>1. Unseen
    BY <1>5 DEF Live, workerVars, lockVars, dataVars, NotReady, BeginTerminate,
       Unseen, Alive, Busy
  <2> QED
    BY <2>1, SeenIsKept
<1> QED
  BY <1>1, <1>2, <1>3, <1>4, <1>5 DEF LaunchStep

LEMMA TerminateSeen ==
    ASSUME EndInv, NEW t \in Tasks, TerminateStep(t)
    PROVE  Kept
<1>1. CASE Capture(t)
  <2>1. Unseen
    BY <1>1 DEF Live, lockVars, dataVars, Capture, Suspend, Unseen, Alive, Busy
  <2> QED
    BY <2>1, SeenIsKept
<1>2. CASE KillTimeout(t)
  <2>1. Unseen
    BY <1>2 DEF Live, lockVars, dataVars, KillTimeout, taskVars, Unseen, Alive, Busy
  <2> QED
    BY <2>1, SeenIsKept
<1>3. CASE FinishStop(t)
  <2>1. SeenEnding
    BY <1>3, DistinctAssumption DEF EndInv, Ending, OneWorkerInv, ControlOK,
       Discipline, NoReplay, LockDiscipline, CreateDiscipline, Ownership, Live,
       LockedPcs, States, Terminal, Active, Tasks, workerVars, Released, LiveIsOwned,
       FinishStop, Terminated, DestroyPrivateData, Return, SeenEnding, Alive, Busy
  <2> QED
    BY <2>1, SeenIsKept
<1>4. CASE FinishPowerOff(t)
  <2>1. SeenPoweringOff
    BY <1>4, NotAReplay, DistinctAssumption DEF EndInv, OneWorkerInv, TypeInv,
       ControlOK, Discipline, LockDiscipline, CreateDiscipline, Ownership,
       OffMeansOff, Live, LockedPcs, workerVars, LiveIsOwned, FinishPowerOff,
       Terminated, AppendReplayAction, SeenPoweringOff, Alive
  <2> QED
    BY <2>1, SeenIsKept
<1>5. CASE FinishAbort(t)
  <2>1. SeenEnding \/ Unseen
    BY <1>5, DistinctAssumption DEF EndInv, Ending, OneWorkerInv, ControlOK,
       Discipline, NoReplay, LockDiscipline, CreateDiscipline, Ownership, OffMeansOff,
       Live, LockedPcs, Launching, States, Terminal, Active, Tasks, workerVars,
       lockVars, dataVars, Released, LiveIsOwned, FinishAbort, Terminated,
       LaunchRaised, DestroyPrivateData, SeenEnding, Unseen, Alive, Busy
  <2> QED
    BY <2>1, SeenIsKept
<1>6. CASE FinishDiscard(t)
  <2>1. SeenEnding
    BY <1>6, DistinctAssumption DEF EndInv, Ending, OneWorkerInv, ControlOK,
       Discipline, NoReplay, LockDiscipline, CreateDiscipline, Ownership, Live,
       LockedPcs, States, Terminal, Active, Tasks, workerVars, Released, LiveIsOwned,
       FinishDiscard, Terminated, DestroyPrivateData, SeenEnding, Alive, Busy
  <2> QED
    BY <2>1, SeenIsKept
<1> QED
  BY <1>1, <1>2, <1>3, <1>4, <1>5, <1>6 DEF TerminateStep

LEMMA RestoreSeen ==
    ASSUME EndInv, NEW t \in Tasks, Restore(t) \/ RestoreFails(t)
    PROVE  Kept
<1>1. CASE Restore(t)
  <2>1. /\ t \in Requests /\ lifecycle_lock = t /\ pc[Creator] = "idle"
        /\ state \notin {"starting", "powered_off"}
        /\ state \in Terminal => ~Alive
    BY <1>1, NotAReplay, DistinctAssumption DEF EndInv, Ending, OneWorkerInv, TypeInv,
       ControlOK, Discipline, LockDiscipline, CreateDiscipline, LockedPcs, Launched,
       EndedWithWorker, Restore, Alive
  <2>2. /\ lifecycle_lock' = None /\ pc'[Creator] = "idle"
        /\ UNCHANGED <<state, workerVars, flash>>
    BY <1>1, <2>1, DistinctAssumption DEF EndInv, OneWorkerInv, TypeInv, TypeOK, TaskType,
       Tasks, Restore, AppendReplayAction, ActionDone, Return, Release
  <2>3. Contract!Restored
    BY <2>1, <2>2, DistinctAssumption DEF Live, Alive, Terminal, States, Active, workerVars,
       Contract!Restored, Contract!Terminal
  <2> QED
    BY <2>3, SeenIsKept
<1>2. CASE RestoreFails(t)
  <2>1. Unseen
    BY <1>2 DEF Live, workerVars, lockVars, dataVars, RestoreFails, BeginTerminate,
       Unseen, Alive, Busy
  <2> QED
    BY <2>1, SeenIsKept
<1> QED
  BY <1>1, <1>2

LEMMA DrainSeen ==
    ASSUME EndInv, NEW t \in Tasks, DrainStep(t)
    PROVE  Kept
<1>1. /\ t \notin Replays /\ pc[t] = "drain" /\ t # Creator
      /\ Return(t)
      /\ UNCHANGED <<state, workerVars, lockVars, flash>>
  BY NotAReplay DEF EndInv, OneWorkerInv, Discipline, CreateDiscipline, TypeInv,
     ControlOK, DrainStep, Drained, DrainFails, AppendReplayAction, dataVars
<1>2. Unseen
  BY <1>1 DEF Live, workerVars, lockVars, Return, Unseen, Alive, Busy
<1> QED
  BY <1>2, SeenIsKept

LEMMA LockSeen ==
    ASSUME EndInv, NEW t \in Requests,
           StopUnderLock(t) \/ PowerOff(t) \/ PowerOn(t) \/ PowerRefused(t) \/ QmpLock(t)
    PROVE  Kept
<1> t \in Tasks
  BY DEF Tasks
<1>1. CASE StopUnderLock(t)
  <2>1. Contract!Begin \/ Unseen
    BY <1>1 DEF Live, workerVars, dataVars, StopUnderLock, Lock, BeginTerminate,
       Contract!Begin, Unseen, Alive, Busy
  <2> QED
    BY <2>1, SeenIsKept
<1>2. CASE PowerOff(t)
  <2>1. Contract!Begin \/ Unseen
    BY <1>2 DEF Live, workerVars, dataVars, PowerOff, Lock, BeginTerminate,
       Contract!Begin, Unseen, Alive, Busy
  <2> QED
    BY <2>1, SeenIsKept
<1>3. CASE PowerOn(t)
  <2>1. Contract!PowerOn
    BY <1>3, DistinctAssumption DEF EndInv, OneWorkerInv, Discipline,
       CreateDiscipline, OffMeansOff, Live, Terminal, Active, workerVars, dataVars,
       PowerOn, Lock, MayPowerOn, Contract!PowerOn
  <2> QED
    BY <2>1, SeenIsKept
<1>4. CASE PowerRefused(t)
  <2>1. Unseen
    BY <1>4, DistinctAssumption DEF Live, workerVars, lockVars, dataVars,
       PowerRefused, Return, Unseen, Alive, Busy
  <2> QED
    BY <2>1, SeenIsKept
<1>5. CASE QmpLock(t)
  <2>1. Unseen
    BY <1>5, DistinctAssumption DEF EndInv, OneWorkerInv, TypeInv, TypeOK, TaskType,
       Live, Tasks, workerVars, dataVars, QmpLock, Suspend, Return, Unseen, Alive,
       Busy
  <2> QED
    BY <2>1, SeenIsKept
<1> QED
  BY <1>1, <1>2, <1>3, <1>4, <1>5

LEMMA RequestSeen ==
    ASSUME EndInv, NEW t \in Requests, RequestStep(t) \/ ClientStep(t)
    PROVE  Kept
<1> t \in Tasks
  BY DEF Tasks
<1>1. CASE Expire(t)
  <2>1. Unseen
    BY <1>1 DEF EndInv, OneWorkerInv, TypeInv, TypeOK, TaskType, Live, Tasks,
       workerVars, lockVars, dataVars, Expire, BeginStop, Suspend, Unseen, Alive, Busy
  <2> QED
    BY <2>1, SeenIsKept
<1>2. CASE Stop(t)
  <2>1. Unseen
    BY <1>2, DistinctAssumption DEF EndInv, OneWorkerInv, TypeInv, TypeOK, TaskType,
       Live, Tasks, workerVars, lockVars, dataVars, Stop, BeginStop, Suspend, Unseen,
       Alive, Busy
  <2> QED
    BY <2>1, SeenIsKept
<1>3. CASE Joined(t)
  <2>1. Unseen
    BY <1>3 DEF Live, workerVars, lockVars, dataVars, Joined, Suspend, Unseen, Alive,
       Busy
  <2> QED
    BY <2>1, SeenIsKept
<1>4. CASE QmpAnswer(t)
  <2>1. SeenShowing \/ Unseen
    BY <1>4, NotAReplay, DistinctAssumption DEF EndInv, Ending, OneWorkerInv, TypeInv,
       TypeOK, OffMeansOff, Live, Terminal, Active, Powered, workerVars, dataVars,
       EndedWithWorker, QmpAnswer, StateAfterQmp, QmpAnswers, AppendReplayAction,
       Return, SeenShowing, Unseen, Alive, Busy
  <2> QED
    BY <2>1, SeenIsKept
<1>5. CASE QmpFails(t)
  <2>1. Unseen
    BY <1>5, DistinctAssumption DEF Live, workerVars, dataVars, QmpFails, Return,
       Unseen, Alive, Busy
  <2> QED
    BY <2>1, SeenIsKept
<1>6. CASE ExpiryScan(t)
  <2>1. Unseen
    BY <1>6, DistinctAssumption DEF Live, workerVars, lockVars, dataVars, ExpiryScan,
       Suspend, Unseen, Alive, Busy
  <2> QED
    BY <2>1, SeenIsKept
<1>7. ASSUME NEW o \in {"power_off", "power_on"}, RequestPower(t, o)
      PROVE  Kept
  <2>1. Unseen
    BY <1>7, DistinctAssumption DEF Live, workerVars, lockVars, dataVars,
       RequestPower, Suspend, Unseen, Alive, Busy
  <2> QED
    BY <2>1, SeenIsKept
<1>8. ASSUME NEW o \in QmpOps, QmpBegin(t, o)
      PROVE  Kept
  <2>1. Unseen
    BY <1>8, DistinctAssumption DEF Live, workerVars, lockVars, dataVars, QmpBegin,
       Suspend, Unseen, Alive, Busy
  <2> QED
    BY <2>1, SeenIsKept
<1>9. CASE WriteSerial(t)
  <2>1. Unseen
    BY <1>9, DistinctAssumption DEF Live, workerVars, lockVars, dataVars, WriteSerial,
       Suspend, Unseen, Alive, Busy
  <2> QED
    BY <2>1, SeenIsKept
<1> QED
  BY <1>1, <1>2, <1>3, <1>4, <1>5, <1>6, <1>7, <1>8, <1>9 DEF RequestStep, ClientStep

LEMMA ProcSeen ==
    ASSUME EndInv, NEW p \in Procs, WorkerExit(p) \/ ReaderStep(p)
    PROVE  Kept
<1>1. CASE WorkerExit(p)
  <2>1. Contract!Die
    BY <1>1 DEF EndInv, OneWorkerInv, TypeInv, TypeOK, WorkerType, Ownership, Live,
       lockVars, dataVars, AtMostOneWorker, WorkerExit, taskVars, Contract!Die
  <2> QED
    BY <2>1, SeenIsKept
<1>2. CASE ReaderExit(p)
  <2>1. Unseen
    BY <1>2 DEF Live, lockVars, dataVars, ReaderExit, taskVars, Unseen, Alive, Busy
  <2> QED
    BY <2>1, SeenIsKept
<1>3. CASE ReaderFinish(p)
  <2>1. SeenEnding
    BY <1>3, NotAReplay, DistinctAssumption DEF EndInv, Ending, OneWorkerInv, TypeInv,
       TypeOK, ControlOK, Discipline, NoReplay, LockDiscipline, Ownership, Live,
       LockedPcs, States, Terminal, Active, lockVars, ReaderOwned, LiveIsOwned,
       ReaderFinish, DestroyPrivateData, taskVars, SeenEnding, Alive, Busy
  <2> QED
    BY <2>1, SeenIsKept
<1> QED
  BY <1>1, <1>2, <1>3 DEF ReaderStep

LEMMA ContractStep ==
    ASSUME "replay" \notin Ops
    PROVE  EndInv /\ [Next]_vars => [Contract!Next]_(Contract!vars) /\ Revival
<1> SUFFICES ASSUME EndInv, [Next]_vars PROVE Kept
  BY DEF Kept
<1>1. ASSUME NEW t \in Tasks, LockStep(t)
      PROVE  Kept
  BY <1>1, RestoreSeen, LockSeen DEF LockStep
<1>2. ASSUME NEW r \in Replays, ReplayStep(r) \/ StartReplay(r)
      PROVE  FALSE
  BY <1>2, NoReplayStep DEF EndInv
<1>3. CASE UNCHANGED vars
  <2>1. Unseen
    BY <1>3 DEF Unseen, Alive, Busy, Live, vars, taskVars, lockVars, workerVars, dataVars
  <2> QED
    BY <2>1, SeenIsKept
<1> QED
  BY <1>1, <1>2, <1>3, LaunchSeen, TerminateSeen, DrainSeen, RequestSeen, ProcSeen
     DEF Next

(***************************************************************************)
(* A session that ended becomes active again only as powered_off, and only *)
(* by a power_off that passed its check before the session ended           *)
(* (_power_off_worker assigns the state without looking at it again).      *)
(***************************************************************************)
THEOREM OnlyAPowerOffRevives ==
    ASSUME "replay" \notin Ops
    PROVE  Spec => OnlyPowerOffRevives
<1>1. EndInv /\ [Next]_vars
        => [(state \in Terminal /\ state' \in Active)
               => /\ state' = "powered_off"
                  /\ lifecycle_lock # None
                  /\ op[lifecycle_lock] = "power_off"]_vars
  BY ContractStep DEF Revival
<1>2. EndInv /\ [Next]_vars => EndInv'
  BY EndStep
<1> QED
  BY <1>1, <1>2, EndInit, PTL DEF Spec, OnlyPowerOffRevives

(***************************************************************************)
(* A session keeps its contract: a worker runs only for a session that     *)
(* somebody launched from its own image, a session is shown as running     *)
(* only while a worker runs, as powered off only when it does not, and as  *)
(* ended only when its image is gone.                                      *)
(***************************************************************************)
THEOREM SessionKeepsContract ==
    ASSUME "replay" \notin Ops
    PROVE  Spec => ImplementsContract
<1>1. Init => Contract!Init
  BY DistinctAssumption DEF Init, Contract!Init, Live, Tasks
<1>2. EndInv /\ [Next]_vars => [Contract!Next]_(Contract!vars)
  BY ContractStep
<1>3. EndInv /\ [Next]_vars => EndInv'
  BY EndStep
<1> QED
  BY <1>1, <1>2, <1>3, EndInit, PTL DEF Spec, ImplementsContract, Contract!Spec

-----------------------------------------------------------------------------
(***************************************************************************)
(* Replays included.  A session that is starting is in somebody's hands: a *)
(* launch, a termination, or a stop that waits for its turn.  A replay     *)
(* that is cancelled in the middle of its launch leaves the session        *)
(* starting, so the invariant must also say that a cancelled replay is     *)
(* awaited by the stop that cancelled it.                                  *)
(***************************************************************************)
CancelledAwaited ==
    \A r \in cancelled :
        /\ pc[r] # "idle"
        /\ \E q \in Requests :
              pc[q] = "join" /\ op[q] \in {"stop", "expire"} /\ cap[q] = r

Tended == ReplayReachable /\ CancelledAwaited /\ StartingIsTransient

ReplayInv == TypeInv /\ Tended

LEMMA ReplayInit == Init => ReplayInv
<1> SUFFICES ASSUME Init PROVE ReplayInv
  OBVIOUS
<1>1. TypeInv
  BY TypeInit
<1>2. ReplayReachable /\ CancelledAwaited
  BY DistinctAssumption DEF Init, ReplayReachable, CancelledAwaited, Tasks
<1>3. StartingIsTransient
  BY DEF Init, StartingIsTransient, InHand, Tasks
<1> QED
  BY <1>1, <1>2, <1>3 DEF ReplayInv, Tended

\* A step of a coroutine that stop does not await keeps what stop awaits.
LEMMA StillAwaited ==
    ASSUME CancelledAwaited, cancelled \subseteq Replays, NEW t \in Tasks,
           cancelled' \subseteq cancelled, t \notin cancelled', t \in Replays \/ pc[t] # "join",
           \A u \in Tasks : u # t => pc'[u] = pc[u] /\ op'[u] = op[u] /\ cap'[u] = cap[u]
    PROVE  CancelledAwaited'
  BY DistinctAssumption DEF CancelledAwaited, Tasks

LEMMA LaunchReplay ==
    ASSUME ReplayInv, NEW t \in Tasks, LaunchStep(t)
    PROVE  Tended'
<1>1. CASE Spawn(t)
  <2>1. ReplayReachable'
    BY <1>1 DEF Spawn, ReplayInv, Tended, ReplayReachable, Suspend, replayVars
  <2>2. CancelledAwaited'
    BY <1>1 DEF Spawn, ReplayInv, Tended, CancelledAwaited, Suspend, replayVars
  <2>3. StartingIsTransient'
    BY <1>1 DEF Spawn, StartingIsTransient, InHand, Suspend
  <2> QED
    BY <2>1, <2>2, <2>3 DEF Tended
<1>2. CASE SpawnFails(t)
  <2>1. ReplayReachable'
    BY <1>2 DEF SpawnFails, LaunchRaised, BeginTerminate, ReplayRaised, EndReplay,
       ReplayInv, Tended, TypeInv, TypeOK, TaskType, ReplayReachable, Tasks, Return,
       replayVars
  <2>2. CancelledAwaited'
    BY <1>2 DEF SpawnFails, LaunchRaised, BeginTerminate, ReplayRaised, EndReplay,
       ReplayInv, Tended, TypeInv, TypeOK, TaskType, ReplayType, CancelledAwaited,
       Tasks, Runs, Return, replayVars
  <2>3. StartingIsTransient'
    BY <1>2 DEF SpawnFails, LaunchRaised, BeginTerminate, ReplayRaised, ReplayInv,
       TypeInv, TypeOK, TaskType, StartingIsTransient, InHand
  <2> QED
    BY <2>1, <2>2, <2>3 DEF Tended
<1>3. CASE Attach(t)
  <2>1. ReplayReachable'
    BY <1>3 DEF Attach, ReplayInv, Tended, ReplayReachable, Suspend, replayVars
  <2>2. CancelledAwaited'
    BY <1>3 DEF Attach, ReplayInv, Tended, CancelledAwaited, Suspend, replayVars
  <2>3. StartingIsTransient'
    BY <1>3 DEF Attach, StartingIsTransient, InHand, Suspend
  <2> QED
    BY <2>1, <2>2, <2>3 DEF Tended
<1>4. CASE Ready(t)
  <2>1. ReplayReachable'
    BY <1>4 DEF Ready, ActionDone, ReplayInv, Tended, TypeInv, TypeOK, TaskType,
       ReplayReachable, Tasks, Suspend, Return, replayVars
  <2>2. CancelledAwaited'
    BY <1>4 DEF Ready, ActionDone, ReplayInv, Tended, TypeInv, TypeOK, TaskType,
       ReplayType, ControlOK, CancelledAwaited, Tasks, Runs, Suspend, Return,
       replayVars
  <2>3. StartingIsTransient'
    BY <1>4 DEF Ready, StartingIsTransient
  <2> QED
    BY <2>1, <2>2, <2>3 DEF Tended
<1>5. CASE NotReady(t)
  <2>1. ReplayReachable'
    BY <1>5 DEF NotReady, BeginTerminate, ReplayInv, Tended, ReplayReachable,
       replayVars
  <2>2. CancelledAwaited'
    BY <1>5 DEF NotReady, BeginTerminate, ReplayInv, Tended, CancelledAwaited,
       replayVars
  <2>3. StartingIsTransient'
    BY <1>5 DEF NotReady, BeginTerminate, StartingIsTransient, InHand
  <2> QED
    BY <2>1, <2>2, <2>3 DEF Tended
<1> QED
  BY <1>1, <1>2, <1>3, <1>4, <1>5 DEF LaunchStep

LEMMA TerminateReplay ==
    ASSUME ReplayInv, NEW t \in Tasks, TerminateStep(t)
    PROVE  Tended'
<1>1. CASE Capture(t)
  <2>1. ReplayReachable'
    BY <1>1 DEF Capture, ReplayInv, Tended, ReplayReachable, Suspend, replayVars
  <2>2. CancelledAwaited'
    BY <1>1 DEF Capture, ReplayInv, Tended, CancelledAwaited, Suspend, replayVars
  <2>3. StartingIsTransient'
    BY <1>1 DEF Capture, StartingIsTransient, InHand, Suspend
  <2> QED
    BY <2>1, <2>2, <2>3 DEF Tended
<1>2. CASE KillTimeout(t)
  <2>1. /\ ReplayReachable' /\ CancelledAwaited'
    BY <1>2 DEF KillTimeout, ReplayInv, Tended, CancelledAwaited, ReplayReachable,
       taskVars, replayVars
  <2>2. StartingIsTransient'
    BY <1>2 DEF KillTimeout, StartingIsTransient, InHand, taskVars
  <2> QED
    BY <2>1, <2>2 DEF Tended
<1>3. CASE FinishStop(t)
  <2>1. ReplayReachable'
    BY <1>3 DEF FinishStop, ReplayInv, Tended, ReplayReachable, Return, replayVars
  <2>2. CancelledAwaited'
    BY <1>3 DEF FinishStop, Terminated, ReplayInv, Tended, CancelledAwaited, Runs,
       Return, replayVars
  <2>3. StartingIsTransient'
    BY <1>3 DEF FinishStop, StartingIsTransient
  <2> QED
    BY <2>1, <2>2, <2>3 DEF Tended
<1>4. CASE FinishPowerOff(t)
  <2>1. ReplayReachable'
    BY <1>4 DEF FinishPowerOff, ActionDone, Terminated, ReplayInv, Tended, TypeInv,
       TypeOK, TaskType, ReplayReachable, Tasks, Suspend, Return, replayVars
  <2>2. CancelledAwaited'
    <3>1. cancelled' \subseteq cancelled /\ t \notin cancelled' /\ pc[t] # "join"
      BY <1>4 DEF FinishPowerOff, ActionDone, Terminated, Runs, replayVars
    <3>2. \A u \in Tasks : u # t => pc'[u] = pc[u] /\ op'[u] = op[u] /\ cap'[u] = cap[u]
      BY <1>4 DEF FinishPowerOff, ActionDone, ReplayInv, TypeInv, TypeOK, TaskType,
         Suspend, Return
    <3> QED
      BY <3>1, <3>2, StillAwaited DEF ReplayInv, Tended, TypeInv, TypeOK, ReplayType
  <2>3. StartingIsTransient'
    BY <1>4 DEF FinishPowerOff, StartingIsTransient
  <2> QED
    BY <2>1, <2>2, <2>3 DEF Tended
<1>5. CASE FinishAbort(t)
  <2>1. ReplayReachable'
    BY <1>5 DEF FinishAbort, LaunchRaised, BeginTerminate, ReplayRaised, EndReplay,
       Terminated, ReplayInv, Tended, TypeInv, TypeOK, TaskType, ReplayReachable,
       Tasks, Return, replayVars
  <2>2. CancelledAwaited'
    BY <1>5 DEF FinishAbort, LaunchRaised, BeginTerminate, ReplayRaised, EndReplay,
       Terminated, ReplayInv, Tended, TypeInv, TypeOK, TaskType, ReplayType,
       CancelledAwaited, Tasks, Runs, Return, replayVars
  <2>3. StartingIsTransient'
    BY <1>5 DEF FinishAbort, LaunchRaised, BeginTerminate, ReplayRaised, ReplayInv,
       TypeInv, TypeOK, TaskType, StartingIsTransient, InHand
  <2> QED
    BY <2>1, <2>2, <2>3 DEF Tended
<1>6. CASE FinishDiscard(t)
  <2>1. ReplayReachable'
    BY <1>6 DEF FinishDiscard, EndReplay, ReplayInv, Tended, TypeInv, TypeOK,
       TaskType, ReplayReachable, Tasks, Return, replayVars
  <2>2. CancelledAwaited'
    BY <1>6, DistinctAssumption DEF FinishDiscard, EndReplay, ReplayInv, Tended,
       TypeInv, TypeOK, TaskType, ReplayType, ControlOK, CancelledAwaited,
       ReplayReachable, Tasks, Return, replayVars, workerVars
  <2>3. StartingIsTransient'
    BY <1>6 DEF FinishDiscard, StartingIsTransient
  <2> QED
    BY <2>1, <2>2, <2>3 DEF Tended
<1> QED
  BY <1>1, <1>2, <1>3, <1>4, <1>5, <1>6 DEF TerminateStep

LEMMA LockReplay ==
    ASSUME ReplayInv, NEW t \in Tasks, LockStep(t)
    PROVE  Tended'
<1>1. CASE Restore(t)
  <2>1. ReplayReachable'
    BY <1>1 DEF Restore, ActionDone, ReplayInv, Tended, TypeInv, TypeOK, TaskType,
       ReplayReachable, Tasks, Suspend, Return, replayVars
  <2>2. CancelledAwaited'
    BY <1>1, DistinctAssumption DEF Restore, ActionDone, ReplayInv, Tended,
       TypeInv, TypeOK, TaskType, ReplayType, CancelledAwaited, StartingIsTransient,
       InHand, Tasks, Runs, Suspend, Return, replayVars, workerVars, lockVars
  <2>3. StartingIsTransient'
    BY <1>1 DEF Restore, ActionDone, ReplayInv, Tended, TypeInv, TypeOK, TaskType,
       StartingIsTransient, InHand, Suspend, Return
  <2> QED
    BY <2>1, <2>2, <2>3 DEF Tended
<1>2. CASE RestoreFails(t)
  <2>1. ReplayReachable'
    BY <1>2 DEF RestoreFails, BeginTerminate, ReplayInv, Tended, ReplayReachable,
       replayVars
  <2>2. CancelledAwaited'
    BY <1>2 DEF RestoreFails, BeginTerminate, ReplayInv, Tended, CancelledAwaited,
       replayVars
  <2>3. StartingIsTransient'
    BY <1>2 DEF RestoreFails, BeginTerminate, ReplayInv, Tended, StartingIsTransient,
       InHand
  <2> QED
    BY <2>1, <2>2, <2>3 DEF Tended
<1>3. CASE t \in Requests /\ StopUnderLock(t)
  <2>1. ReplayReachable'
    BY <1>3, DistinctAssumption DEF StopUnderLock, BeginTerminate, ReplayInv, Tended,
       ReplayReachable, replayVars
  <2>2. CancelledAwaited'
    BY <1>3 DEF StopUnderLock, BeginTerminate, Lock, ReplayInv, Tended,
       CancelledAwaited, replayVars
  <2>3. StartingIsTransient'
    BY <1>3 DEF StopUnderLock, BeginTerminate, Lock, StartingIsTransient, InHand
  <2> QED
    BY <2>1, <2>2, <2>3 DEF Tended
<1>4. CASE t \in Requests /\ PowerOff(t)
  <2>1. ReplayReachable'
    BY <1>4, DistinctAssumption DEF PowerOff, BeginTerminate, ReplayInv, Tended,
       ReplayReachable, replayVars
  <2>2. CancelledAwaited'
    BY <1>4 DEF PowerOff, BeginTerminate, ReplayInv, Tended, CancelledAwaited,
       replayVars
  <2>3. StartingIsTransient'
    BY <1>4 DEF PowerOff, BeginTerminate, ReplayInv, Tended, StartingIsTransient, InHand
  <2> QED
    BY <2>1, <2>2, <2>3 DEF Tended
<1>5. CASE t \in Requests /\ PowerOn(t)
  <2>1. ReplayReachable'
    BY <1>5 DEF PowerOn, Lock, ReplayInv, Tended, ReplayReachable, Suspend, replayVars
  <2>2. CancelledAwaited'
    BY <1>5 DEF PowerOn, ReplayInv, Tended, CancelledAwaited, Suspend, replayVars
  <2>3. StartingIsTransient'
    BY <1>5 DEF PowerOn, ReplayInv, TypeInv, TypeOK, TaskType, StartingIsTransient, InHand,
       Suspend
  <2> QED
    BY <2>1, <2>2, <2>3 DEF Tended
<1>6. CASE t \in Requests /\ PowerRefused(t)
  <2>1. ReplayReachable'
    BY <1>6 DEF PowerRefused, ReplayInv, Tended, ReplayReachable, Return, replayVars
  <2>2. CancelledAwaited'
    BY <1>6, DistinctAssumption DEF PowerRefused, ReplayInv, Tended, TypeInv, TypeOK,
       ReplayType, CancelledAwaited, Return, replayVars
  <2>3. StartingIsTransient'
    BY <1>6 DEF PowerRefused, ReplayInv, Tended, StartingIsTransient, InHand, Return
  <2> QED
    BY <2>1, <2>2, <2>3 DEF Tended
<1>7. CASE t \in Requests /\ QmpLock(t)
  <2>1. ReplayReachable'
    BY <1>7 DEF QmpLock, ReplayInv, Tended, TypeInv, TypeOK, TaskType,
       ReplayReachable, Tasks, Suspend, Return, replayVars
  <2>2. CancelledAwaited'
    <3>1. cancelled' \subseteq cancelled /\ t \notin cancelled' /\ pc[t] # "join"
      BY <1>7, DistinctAssumption DEF QmpLock, ReplayInv, TypeInv, TypeOK, ReplayType,
         replayVars
    <3>2. \A u \in Tasks : u # t => pc'[u] = pc[u] /\ op'[u] = op[u] /\ cap'[u] = cap[u]
      BY <1>7 DEF QmpLock, ReplayInv, TypeInv, TypeOK, TaskType, Suspend, Return
    <3> QED
      BY <3>1, <3>2, StillAwaited DEF ReplayInv, Tended, TypeInv, TypeOK, ReplayType
  <2>3. StartingIsTransient'
    BY <1>7 DEF QmpLock, ReplayInv, Tended, TypeInv, TypeOK, TaskType, StartingIsTransient,
       InHand, Suspend, Return
  <2> QED
    BY <2>1, <2>2, <2>3 DEF Tended
<1> QED
  BY <1>1, <1>2, <1>3, <1>4, <1>5, <1>6, <1>7 DEF LockStep

LEMMA DrainReplay ==
    ASSUME ReplayInv, NEW t \in Tasks, DrainStep(t)
    PROVE  Tended'
<1>1. /\ pc[t] = "drain" /\ t \notin cancelled
      /\ pc' = [pc EXCEPT ![t] = IF pc'[t] = "replaying" THEN "replaying" ELSE "idle"]
      /\ \A u \in Tasks : u # t => op'[u] = op[u] /\ cap'[u] = cap[u]
  BY DEF DrainStep, Drained, DrainFails, Runs, ActionDone, ReplayRaised, EndReplay,
     Return, Suspend, ReplayInv, TypeInv, TypeOK, TaskType
<1>2. /\ cancelled' = cancelled
      /\ \/ replay_task' = replay_task
         \/ pc'[t] = "idle" /\ replay_task = t
  <2>1. CASE Drained(t)
    BY <2>1 DEF Drained, ActionDone, replayVars
  <2>2. CASE DrainFails(t) /\ t \in Replays
    <3>1. EndReplay(t)
      BY <2>2 DEF DrainFails, ReplayRaised
    <3> QED
      BY <1>1, <3>1 DEF EndReplay, Return, ReplayInv, TypeInv, TypeOK, TaskType
  <2>3. CASE DrainFails(t) /\ t \notin Replays
    BY <2>3 DEF DrainFails, replayVars
  <2> QED
    BY <2>1, <2>2, <2>3 DEF DrainStep
<1>3. ReplayReachable'
  BY <1>1, <1>2 DEF ReplayReachable, ReplayInv, Tended, TypeInv, TypeOK, TaskType, Tasks
<1>4. CancelledAwaited'
  BY <1>1, <1>2, StillAwaited DEF ReplayInv, Tended, TypeInv, TypeOK, TaskType, ReplayType
<1>5. StartingIsTransient'
  <2>1. state' \in {state, "failed"}
    BY DEF DrainStep, Drained, DrainFails, ReplayRaised
  <2>2. ~InHand(t)
    BY <1>1 DEF InHand
  <2> QED
    BY <1>1, <2>1, <2>2 DEF InHand, StartingIsTransient, ReplayInv, Tended, TypeInv,
       TypeOK, TaskType
<1> QED
  BY <1>3, <1>4, <1>5 DEF Tended

LEMMA RequestReplay ==
    ASSUME ReplayInv, NEW q \in Requests, RequestStep(q)
    PROVE  Tended'
<1> q \in Tasks
  BY DEF Tasks
<1>1. CASE Expire(q)
  <2>1. ReplayReachable'
    BY <1>1 DEF Expire, BeginStop, ReplayInv, Tended, TypeInv, TypeOK, TaskType,
       ReplayReachable, Tasks, Suspend
  <2>2. CancelledAwaited'
    BY <1>1 DEF Expire, BeginStop, ReplayInv, Tended, TypeInv, TypeOK, TaskType,
       ReplayType, CancelledAwaited, ReplayReachable, Tasks, Suspend
  <2>3. StartingIsTransient'
    BY <1>1 DEF Expire, BeginStop, ReplayInv, TypeInv, TypeOK, TaskType,
       StartingIsTransient, InHand, Suspend
  <2> QED
    BY <2>1, <2>2, <2>3 DEF Tended
<1>2. CASE Joined(q)
  <2>1. ReplayReachable'
    BY <1>2 DEF Joined, ReplayInv, Tended, ReplayReachable, Suspend, replayVars
  <2>2. CancelledAwaited'
    BY <1>2 DEF Joined, ReplayInv, Tended, CancelledAwaited, Suspend, replayVars
  <2>3. StartingIsTransient'
    BY <1>2 DEF Joined, ReplayInv, Tended, StartingIsTransient, InHand, Suspend
  <2> QED
    BY <2>1, <2>2, <2>3 DEF Tended
<1>3. CASE QmpAnswer(q)
  <2>1. ReplayReachable'
    BY <1>3 DEF QmpAnswer, ReplayInv, Tended, ReplayReachable, Return, replayVars
  <2>2. CancelledAwaited'
    BY <1>3, DistinctAssumption DEF QmpAnswer, ReplayInv, Tended, TypeInv, TypeOK,
       ReplayType, CancelledAwaited, Return, replayVars
  <2>3. StartingIsTransient'
    BY <1>3 DEF QmpAnswer, StateAfterQmp, Powered, ReplayInv, Tended, StartingIsTransient,
       InHand, Return
  <2> QED
    BY <2>1, <2>2, <2>3 DEF Tended
<1>4. CASE QmpFails(q)
  <2>1. ReplayReachable'
    BY <1>4 DEF QmpFails, ReplayInv, Tended, ReplayReachable, Return, replayVars
  <2>2. CancelledAwaited'
    BY <1>4, DistinctAssumption DEF QmpFails, ReplayInv, Tended, TypeInv, TypeOK,
       ReplayType, CancelledAwaited, Return, replayVars
  <2>3. StartingIsTransient'
    BY <1>4 DEF QmpFails, ReplayInv, Tended, StartingIsTransient, InHand, Return
  <2> QED
    BY <2>1, <2>2, <2>3 DEF Tended
<1> QED
  BY <1>1, <1>2, <1>3, <1>4 DEF RequestStep

LEMMA ClientReplay ==
    ASSUME ReplayInv, NEW q \in Requests, ClientStep(q)
    PROVE  Tended'
<1> q \in Tasks
  BY DEF Tasks
<1>1. CASE Stop(q)
  <2>1. ReplayReachable'
    BY <1>1, DistinctAssumption DEF Stop, BeginStop, ReplayInv, Tended, TypeInv,
       TypeOK, TaskType, ReplayReachable, Tasks, Suspend
  <2>2. CancelledAwaited'
    <3>1. \A u \in Tasks : u # q => pc'[u] = pc[u] /\ op'[u] = op[u] /\ cap'[u] = cap[u]
      BY <1>1 DEF Stop, BeginStop, ReplayInv, TypeInv, TypeOK, TaskType, Suspend
    <3>2. q \notin Replays
      BY DistinctAssumption
    <3>3. ASSUME NEW r \in cancelled 
          PROVE  /\ pc'[r] # "idle"
                 /\ \E u \in Requests :
                       pc'[u] = "join" /\ op'[u] \in {"stop", "expire"} /\ cap'[u] = r
      BY <1>1, <3>1, <3>2 DEF Stop, ReplayInv, Tended, TypeInv, TypeOK, ReplayType,
         CancelledAwaited, Tasks
    <3>4. ASSUME NEW r \in cancelled', r \notin cancelled
          PROVE  pc'[r] # "idle" /\ pc'[q] = "join" /\ op'[q] \in {"stop", "expire"} /\ cap'[q] = r
      BY <1>1, <3>1, <3>2, <3>4 DEF Stop, BeginStop, ReplayInv, TypeInv, TypeOK,
         TaskType, ReplayType, Tasks, Suspend
    <3> QED
      BY <3>3, <3>4 DEF CancelledAwaited
  <2>3. StartingIsTransient'
    BY <1>1 DEF Stop, BeginStop, ReplayInv, TypeInv, TypeOK, TaskType, StartingIsTransient,
       InHand, Suspend
  <2> QED
    BY <2>1, <2>2, <2>3 DEF Tended
<1>2. CASE ExpiryScan(q)
  <2>1. ReplayReachable'
    BY <1>2, DistinctAssumption DEF ExpiryScan, ReplayInv, Tended, ReplayReachable,
       Suspend, replayVars
  <2>2. CancelledAwaited'
    BY <1>2 DEF ExpiryScan, ReplayInv, Tended, CancelledAwaited, Suspend, replayVars
  <2>3. StartingIsTransient'
    BY <1>2 DEF ExpiryScan, ReplayInv, Tended, StartingIsTransient, InHand, Suspend
  <2> QED
    BY <2>1, <2>2, <2>3 DEF Tended
<1>3. ASSUME NEW o \in {"power_off", "power_on"}, RequestPower(q, o)
      PROVE  Tended'
  <2>1. ReplayReachable'
    BY <1>3, DistinctAssumption DEF RequestPower, ReplayInv, Tended, ReplayReachable,
       Suspend, replayVars
  <2>2. CancelledAwaited'
    BY <1>3 DEF RequestPower, ReplayInv, Tended, CancelledAwaited, Suspend, replayVars
  <2>3. StartingIsTransient'
    BY <1>3 DEF RequestPower, ReplayInv, Tended, StartingIsTransient, InHand, Suspend
  <2> QED
    BY <2>1, <2>2, <2>3 DEF Tended
<1>4. ASSUME NEW o \in QmpOps, QmpBegin(q, o)
      PROVE  Tended'
  <2>1. ReplayReachable'
    BY <1>4, DistinctAssumption DEF QmpBegin, ReplayInv, Tended, ReplayReachable,
       Suspend, replayVars
  <2>2. CancelledAwaited'
    BY <1>4 DEF QmpBegin, ReplayInv, Tended, CancelledAwaited, Suspend, replayVars
  <2>3. StartingIsTransient'
    BY <1>4 DEF QmpBegin, ReplayInv, Tended, StartingIsTransient, InHand, Suspend
  <2> QED
    BY <2>1, <2>2, <2>3 DEF Tended
<1>5. CASE WriteSerial(q)
  <2>1. ReplayReachable'
    BY <1>5, DistinctAssumption DEF WriteSerial, ReplayInv, Tended, ReplayReachable,
       Suspend, replayVars
  <2>2. CancelledAwaited'
    BY <1>5 DEF WriteSerial, ReplayInv, Tended, CancelledAwaited, Suspend, replayVars
  <2>3. StartingIsTransient'
    BY <1>5 DEF WriteSerial, MayWriteSerial, StartingIsTransient
  <2> QED
    BY <2>1, <2>2, <2>3 DEF Tended
<1> QED
  BY <1>1, <1>2, <1>3, <1>4, <1>5 DEF ClientStep

LEMMA TaskReplay ==
    ASSUME ReplayInv, NEW r \in Replays, ReplayStep(r) \/ StartReplay(r)
    PROVE  Tended'
<1> r \in Tasks
  BY DEF Tasks
<1>1. CASE RunReplay(r)
  <2>1. ReplayReachable'
    BY <1>1 DEF RunReplay, BeginTerminate, ReplayInv, Tended, ReplayReachable
  <2>2. CancelledAwaited'
    BY <1>1 DEF RunReplay, BeginTerminate, ReplayInv, Tended, CancelledAwaited
  <2>3. StartingIsTransient'
    BY <1>1 DEF RunReplay, BeginTerminate, ReplayInv, Tended, StartingIsTransient, InHand
  <2> QED
    BY <2>1, <2>2, <2>3 DEF Tended
<1>2. CASE FinishRestart(r)
  <2>1. ReplayReachable'
    BY <1>2 DEF FinishRestart, Terminated, ReplayInv, Tended, ReplayReachable,
       Suspend, replayVars
  <2>2. CancelledAwaited'
    BY <1>2 DEF FinishRestart, Terminated, ReplayInv, Tended, CancelledAwaited,
       Suspend, replayVars
  <2>3. StartingIsTransient'
    BY <1>2 DEF FinishRestart, Terminated, StartingIsTransient, InHand, Suspend
  <2> QED
    BY <2>1, <2>2, <2>3 DEF Tended
<1>3. CASE ReplayInput(r)
  <2>1. /\ ReplayReachable' /\ CancelledAwaited'
    BY <1>3 DEF ReplayInput, ReplayInv, Tended, CancelledAwaited, ReplayReachable,
       taskVars
  <2>2. StartingIsTransient'
    BY <1>3 DEF ReplayInput, ReplayInv, Tended, StartingIsTransient, InHand, taskVars
  <2> QED
    BY <2>1, <2>2 DEF Tended
<1>4. CASE ReplayInputFails(r)
  <2>1. ReplayReachable'
    BY <1>4 DEF ReplayInputFails, ReplayRaised, EndReplay, ReplayInv, Tended, TypeInv,
       TypeOK, TaskType, ReplayReachable, Return
  <2>2. CancelledAwaited'
    BY <1>4 DEF ReplayInputFails, ReplayRaised, EndReplay, ReplayInv, Tended,
       CancelledAwaited, Return
  <2>3. StartingIsTransient'
    BY <1>4 DEF ReplayInputFails, ReplayRaised, StartingIsTransient
  <2> QED
    BY <2>1, <2>2, <2>3 DEF Tended
<1>5. CASE ReplayPowerOff(r)
  <2>1. ReplayReachable'
    BY <1>5 DEF ReplayPowerOff, BeginTerminate, ReplayInv, Tended, ReplayReachable,
       replayVars
  <2>2. CancelledAwaited'
    BY <1>5 DEF ReplayPowerOff, BeginTerminate, ReplayInv, Tended, CancelledAwaited,
       replayVars
  <2>3. StartingIsTransient'
    BY <1>5 DEF ReplayPowerOff, BeginTerminate, ReplayInv, Tended, StartingIsTransient,
       InHand
  <2> QED
    BY <2>1, <2>2, <2>3 DEF Tended
<1>6. CASE ReplayPowerOn(r)
  <2>1. ReplayReachable'
    BY <1>6 DEF ReplayPowerOn, ReplayInv, Tended, ReplayReachable, Suspend, replayVars
  <2>2. CancelledAwaited'
    BY <1>6 DEF ReplayPowerOn, ReplayInv, Tended, CancelledAwaited, Suspend,
       replayVars
  <2>3. StartingIsTransient'
    BY <1>6 DEF ReplayPowerOn, ReplayInv, TypeInv, TypeOK, TaskType, StartingIsTransient,
       InHand, Suspend
  <2> QED
    BY <2>1, <2>2, <2>3 DEF Tended
<1>7. CASE ReplayCompletes(r)
  <2>1. ReplayReachable'
    BY <1>7 DEF ReplayCompletes, EndReplay, ReplayInv, Tended, TypeInv, TypeOK,
       TaskType, ReplayReachable, Return
  <2>2. CancelledAwaited'
    BY <1>7 DEF ReplayCompletes, EndReplay, ReplayInv, Tended, CancelledAwaited,
       Return
  <2>3. StartingIsTransient'
    BY <1>7 DEF ReplayCompletes, EndReplay, ReplayInv, Tended, StartingIsTransient, InHand,
       Return
  <2> QED
    BY <2>1, <2>2, <2>3 DEF Tended
<1>8. CASE CancelReplay(r)
  <2>1. ReplayReachable'
    BY <1>8 DEF CancelReplay, EndReplay, ReplayInv, Tended, TypeInv, TypeOK, TaskType,
       ReplayReachable, Tasks, Return
  <2>2. CancelledAwaited'
    <3>1. cancelled' \subseteq cancelled /\ r \notin cancelled'
      BY <1>8 DEF CancelReplay, EndReplay
    <3>2. \A u \in Tasks : u # r => pc'[u] = pc[u] /\ op'[u] = op[u] /\ cap'[u] = cap[u]
      BY <1>8 DEF CancelReplay, EndReplay, ReplayInv, TypeInv, TypeOK, TaskType,
         Return
    <3> QED
      BY <3>1, <3>2, StillAwaited DEF ReplayInv, Tended, TypeInv, TypeOK, ReplayType
  <2>3. StartingIsTransient'
    BY <1>8, DistinctAssumption DEF CancelReplay, EndReplay, ReplayInv, Tended,
       TypeInv, TypeOK, TaskType, CancelledAwaited, ReplayReachable, StartingIsTransient,
       InHand, Tasks, Return
  <2> QED
    BY <2>1, <2>2, <2>3 DEF Tended
<1>9. CASE StartReplay(r)
  <2>1. ReplayReachable'
    BY <1>9, DistinctAssumption DEF StartReplay, MayReplay, ReplayInv, Tended,
       ReplayReachable, Tasks, Suspend
  <2>2. CancelledAwaited'
    BY <1>9 DEF StartReplay, ReplayInv, Tended, CancelledAwaited, Suspend
  <2>3. StartingIsTransient'
    BY <1>9 DEF StartReplay, MayReplay, Powered, StartingIsTransient
  <2> QED
    BY <2>1, <2>2, <2>3 DEF Tended
<1>10. CASE ReplaySerial(r)
  <2>1. ReplayReachable'
    BY <1>10 DEF ReplaySerial, ReplayInv, Tended, ReplayReachable, Suspend, replayVars
  <2>2. CancelledAwaited'
    BY <1>10 DEF ReplaySerial, ReplayInv, Tended, CancelledAwaited, Suspend, replayVars
  <2>3. StartingIsTransient'
    BY <1>10 DEF ReplaySerial, MayWriteSerial, StartingIsTransient
  <2> QED
    BY <2>1, <2>2, <2>3 DEF Tended
<1> QED
  BY <1>1, <1>2, <1>3, <1>4, <1>5, <1>6, <1>7, <1>8, <1>9, <1>10 DEF ReplayStep

LEMMA ProcReplay ==
    ASSUME ReplayInv, NEW p \in Procs, WorkerExit(p) \/ ReaderStep(p)
    PROVE  Tended'
<1>1. CASE WorkerExit(p)
  <2>1. /\ ReplayReachable' /\ CancelledAwaited'
    BY <1>1 DEF WorkerExit, ReplayInv, Tended, CancelledAwaited, ReplayReachable,
       taskVars, replayVars
  <2>2. StartingIsTransient'
    BY <1>1 DEF WorkerExit, ReplayInv, Tended, StartingIsTransient, InHand, taskVars
  <2> QED
    BY <2>1, <2>2 DEF Tended
<1>2. CASE ReaderExit(p)
  <2>1. /\ ReplayReachable' /\ CancelledAwaited'
    BY <1>2 DEF ReaderExit, ReplayInv, Tended, CancelledAwaited, ReplayReachable,
       taskVars, replayVars
  <2>2. StartingIsTransient'
    BY <1>2 DEF ReaderExit, ReplayInv, Tended, StartingIsTransient, InHand, taskVars
  <2> QED
    BY <2>1, <2>2 DEF Tended
<1>3. CASE ReaderFinish(p)
  <2>1. /\ ReplayReachable' /\ CancelledAwaited'
    BY <1>3 DEF ReaderFinish, ReplayInv, Tended, CancelledAwaited, ReplayReachable,
       taskVars, replayVars
  <2>2. StartingIsTransient'
    BY <1>3 DEF ReaderFinish, StartingIsTransient
  <2> QED
    BY <2>1, <2>2 DEF Tended
<1> QED
  BY <1>1, <1>2, <1>3 DEF ReaderStep

LEMMA ReplayInvStep == ReplayInv /\ [Next]_vars => ReplayInv'
<1> SUFFICES ASSUME ReplayInv, [Next]_vars PROVE ReplayInv'
  OBVIOUS
<1>1. TypeInv'
  BY TypeStep DEF ReplayInv, Tended
<1>2. Tended'
  <2>1. CASE UNCHANGED vars
    BY <2>1 DEF ReplayInv, Tended, ReplayReachable, CancelledAwaited, StartingIsTransient,
       InHand, vars, taskVars, replayVars
  <2> QED
    BY <2>1, LaunchReplay, TerminateReplay, LockReplay, DrainReplay, RequestReplay,
       ClientReplay, TaskReplay, ProcReplay DEF Next
<1> QED
  BY <1>1, <1>2 DEF ReplayInv, Tended

(***************************************************************************)
(* With replays: a replay that runs and was not cancelled is the one that  *)
(* the session knows of (start_replay, stop, the finally of _run_replay).  *)
(***************************************************************************)
THEOREM ReplaysAreReachable == Spec => []ReplayReachable
<1>1. ReplayInv => ReplayReachable
  BY DEF ReplayInv, Tended
<1> QED
  BY <1>1, ReplayInit, ReplayInvStep, PTL DEF Spec

(***************************************************************************)
(* With replays: a session that is starting is never left alone, whichever *)
(* launch fails and whichever replay is cancelled (_launch, _run_replay,   *)
(* _terminate_worker, stop).                                               *)
(***************************************************************************)
THEOREM NeverStuckStarting == Spec => []StartingIsTransient
<1>1. ReplayInv => StartingIsTransient
  BY DEF ReplayInv, Tended
<1> QED
  BY <1>1, ReplayInit, ReplayInvStep, PTL DEF Spec

=============================================================================
