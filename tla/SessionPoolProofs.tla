------------------------- MODULE SessionPoolProofs --------------------------
(***************************************************************************)
(* Proofs about SessionPool, for every number of sessions, of capacity     *)
(* slots and of requests.                                                  *)
(***************************************************************************)
EXTENDS SessionPool, FiniteSetTheorems, TLAPS

\* Coroutine t is inside `async with session.lifecycle_lock', or creates.
Working == {"launch", "ready", "wait"}

\* Which operation a coroutine is in, by where it is, and on a session that
\* create has made.
TasksOK ==
    /\ \A t \in Tasks : pc[t] \in {"idle", "probe"} => target[t] = None
    /\ \A t \in Tasks : pc[t] \in Working \cup {"lock"} =>
           target[t] \in Sessions /\ shown[target[t]] # "none"
    /\ \A t \in Tasks : pc[t] = "idle" <=> op[t] = "none"
    /\ \A t \in Tasks : pc[t] = "probe" => op[t] = "create"
    /\ \A t \in Tasks : pc[t] = "lock" => op[t] \in {"stop", "power_off", "power_on"}
    /\ \A t \in Tasks : pc[t] \in {"launch", "ready"} => op[t] \in {"create", "power_on"}
    /\ \A t \in {Cleaner, Closer} : pc[t] \in {"idle", "lock", "wait"}
                                    /\ op[t] \in {"none", "stop"}

\* A session is worked on by its creator, before anybody else knows it, or by
\* the holder of its lifecycle_lock.
Owned ==
    /\ \A t \in Tasks : (pc[t] \in Working /\ op[t] # "create") => lifecycle_lock[target[t]] = t
    /\ \A s \in Sessions : lifecycle_lock[s] # None =>
           /\ pc[lifecycle_lock[s]] \in Working /\ op[lifecycle_lock[s]] # "create"
           /\ target[lifecycle_lock[s]] = s
    /\ \A t, u \in Tasks : (pc[t] \in Working /\ op[t] = "create" /\ target[u] = target[t]) => u = t

\* What is listed to be stopped was returned by create, and closing begins
\* when the last request has been answered.
Listing ==
    /\ \A s \in expired \cup listed[Cleaner] \cup listed[Closer] :
           s \in Sessions /\ Returned(s)
    /\ service = "up" => listed[Closer] = {} /\ pc[Closer] = "idle"
    /\ service # "up" => /\ \A q \in Requests : pc[q] = "idle"
                         /\ pc[Cleaner] = "idle" /\ listed[Cleaner] = {}

\* A worker runs for an active session, except that close may end a session
\* whose worker has only been told to end.
WorkersAreActive ==
    /\ \A s \in Sessions : worker[s] = "alive" => attached[s]
    /\ \A s \in Sessions : worker[s] # "none" =>
           \/ shown[s] \in Active
           \/ service # "up"
    /\ \A s \in Sessions : reader[s] = "exiting" => worker[s] = "none"
    /\ \A s \in Sessions : (service = "up" /\ worker[s] # "none" /\ ~attached[s]) =>
           \E t \in Tasks : pc[t] = "wait" /\ target[t] = s
    /\ \A s \in Sessions : shown[s] = "none" => worker[s] = "none" /\ reader[s] = "none"
    /\ \A s \in Sessions : shown[s] = "powered_off" => worker[s] = "none" /\ reader[s] = "none"

\* A launch finds neither a worker nor a reader.
LaunchIsFresh ==
    \A t \in Tasks : pc[t] = "launch" =>
        /\ shown[target[t]] = "starting"
        /\ worker[target[t]] = "none" /\ reader[target[t]] = "none"

EndedIsPrivate == \A s \in Sessions : shown[s] \in {"none", "ended"} => ~private[s]

\* The sessions that hold a capacity slot.
Slots == {s \in Sessions : worker[s] # "none" \/ (private[s] /\ shown[s] \in Active)}

SlotsWithinCapacity ==
    /\ IsFiniteSet(Known)
    /\ Cardinality(Slots) <= MaxSessions

\* close has yet to list, to stop or has ended a session.
ClosingEnds ==
    service # "up" => \A s \in Known :
        \/ s \in listed[Closer]
        \/ pc[Closer] # "idle" /\ target[Closer] = s
        \/ shown[s] = "ended" /\ ~private[s] /\ worker[s] # "alive"

DownIsClosed == service = "down" => pc[Closer] = "idle" /\ listed[Closer] = {}

PoolInv ==
    /\ TypeOK /\ TasksOK /\ Owned /\ Listing /\ WorkersAreActive /\ LaunchIsFresh
    /\ EndedIsPrivate /\ SlotsWithinCapacity /\ ClosingEnds /\ DownIsClosed

\* A step that takes no slot keeps within the capacity.
LEMMA SlotsShrink ==
    ASSUME PoolInv, Slots' \subseteq Slots, Known' = Known
    PROVE  SlotsWithinCapacity'
<1>1. IsFiniteSet(Slots)
  <2>1. Slots \in SUBSET Known
    BY DEF PoolInv, Slots, Known, WorkersAreActive, Active
  <2> QED
    BY <2>1, FS_Subset DEF PoolInv, SlotsWithinCapacity
<1>2. Slots' \in SUBSET Slots
  OBVIOUS
<1>3. IsFiniteSet(Slots') /\ Cardinality(Slots') <= Cardinality(Slots)
  BY <1>1, <1>2, FS_Subset
<1>4. Cardinality(Slots) \in Nat /\ Cardinality(Slots') \in Nat
  BY <1>1, <1>3, FS_CardinalityType
<1> QED
  BY <1>3, <1>4, PoolAssumption DEF PoolInv, SlotsWithinCapacity

\* The steps of stop ...
LEMMA StopStepInv ==
    ASSUME PoolInv, NEW t \in Tasks, LockStep(t) \/ StopStep(t)
    PROVE  PoolInv'
<1>1. CASE Stop(t)
  <2>1. TypeOK'
    BY <1>1, PoolAssumption DEF Stop, PoolInv, TypeOK, TasksOK, Suspend, Return, Lock,
       Terminate
  <2>2. TasksOK'
    BY <1>1, PoolAssumption DEF Stop, PoolInv, TypeOK, TasksOK, Suspend, Terminate
  <2>3. Owned'
    BY <1>1, PoolAssumption DEF Stop, PoolInv, TypeOK, TasksOK, Owned, ClosingEnds,
       DownIsClosed, Working, Returned, Known, Tasks, taskVars, Suspend, Return, Lock,
       Release, Terminate
  <2>4. Listing'
    BY <1>1, PoolAssumption DEF Stop, PoolInv, TypeOK, TasksOK, Owned, Listing,
       WorkersAreActive, Working, Returned, taskVars, Suspend, Release, Terminate
  <2>5. WorkersAreActive'
    BY <1>1 DEF Stop, PoolInv, TypeOK, Listing, WorkersAreActive, taskVars, Suspend,
       Terminate
  <2>6. LaunchIsFresh'
    BY <1>1, PoolAssumption DEF Stop, PoolInv, TypeOK, LaunchIsFresh, EndedIsPrivate,
       taskVars, Suspend, Release, Terminate
  <2>7. EndedIsPrivate'
    BY <1>1 DEF Stop, PoolInv, EndedIsPrivate
  <2>8. SlotsWithinCapacity'
    <3>1. Slots' \subseteq Slots /\ Known' = Known
      BY <1>1 DEF Stop, Known, Terminate, Slots
    <3> QED
      BY <3>1, SlotsShrink
  <2>9. ClosingEnds'
    BY <1>1, PoolAssumption DEF Stop, PoolInv, TypeOK, TasksOK, Owned, ClosingEnds,
       DownIsClosed, Known, Tasks, taskVars, Suspend, Release, Terminate
  <2>10. DownIsClosed'
    BY <1>1, PoolAssumption DEF Stop, PoolInv, TypeOK, TasksOK, Owned, Listing,
       DownIsClosed, Tasks
  <2> QED
    BY <2>1, <2>2, <2>3, <2>4, <2>5, <2>6, <2>7, <2>8, <2>9, <2>10 DEF PoolInv
<1>2. CASE StopIdle(t)
  <2>1. TypeOK'
    BY <1>2, PoolAssumption DEF StopIdle, PoolInv, TypeOK, TasksOK, Return, End
  <2>2. TasksOK'
    BY <1>2, PoolAssumption DEF StopIdle, PoolInv, TypeOK, TasksOK, Owned, Working,
       Returned, Return, Lock, Terminated, End
  <2>3. Owned'
    BY <1>2, PoolAssumption DEF StopIdle, PoolInv, TypeOK, TasksOK, Owned, Working,
       Return
  <2>4. Listing'
    BY <1>2, PoolAssumption DEF StopIdle, PoolInv, TypeOK, Listing, WorkersAreActive,
       Working, Returned, Return, Lock, Terminated, End
  <2>5. WorkersAreActive'
    BY <1>2, PoolAssumption DEF StopIdle, PoolInv, TypeOK, TasksOK, Owned, Listing,
       WorkersAreActive, Working, Returned, Known, Tasks, Return, Lock, Terminated,
       End
  <2>6. LaunchIsFresh'
    BY <1>2, PoolAssumption DEF StopIdle, PoolInv, TypeOK, TasksOK, Owned, Listing,
       WorkersAreActive, LaunchIsFresh, EndedIsPrivate, Working, Returned, Known,
       Tasks, Return, Lock, Terminated, End
  <2>7. EndedIsPrivate'
    BY <1>2, PoolAssumption DEF StopIdle, PoolInv, TypeOK, EndedIsPrivate, End
  <2>8. SlotsWithinCapacity'
    <3>1. Slots' \subseteq Slots /\ Known' = Known
      BY <1>2 DEF StopIdle, PoolInv, TypeOK, TasksOK, Known, End, Slots
    <3> QED
      BY <3>1, SlotsShrink
  <2>9. ClosingEnds'
    BY <1>2, PoolAssumption DEF StopIdle, PoolInv, TypeOK, TasksOK, Owned, Listing,
       WorkersAreActive, ClosingEnds, DownIsClosed, Known, Tasks, Terminated, End
  <2>10. DownIsClosed'
    BY <1>2 DEF StopIdle, PoolInv, TypeOK, Listing, DownIsClosed, Tasks
  <2> QED
    BY <2>1, <2>2, <2>3, <2>4, <2>5, <2>6, <2>7, <2>8, <2>9, <2>10 DEF PoolInv
<1>3. CASE KillTimeout(t)
  <2>1. /\ TasksOK' /\ Owned' /\ Listing' /\ EndedIsPrivate' /\ DownIsClosed'
    BY <1>3, PoolAssumption DEF KillTimeout, PoolInv, TypeOK, TasksOK, Owned, Listing,
       WorkersAreActive, LaunchIsFresh, EndedIsPrivate, ClosingEnds, DownIsClosed,
       Working, Returned, taskVars, Suspend
  <2>2. TypeOK'
    BY <1>3, PoolAssumption DEF KillTimeout, PoolInv, TypeOK, TasksOK, Working,
       taskVars
  <2>3. WorkersAreActive'
    BY <1>3 DEF KillTimeout, PoolInv, WorkersAreActive, taskVars
  <2>4. LaunchIsFresh'
    BY <1>3 DEF KillTimeout, PoolInv, LaunchIsFresh, taskVars
  <2>5. SlotsWithinCapacity'
    <3>1. Slots' \subseteq Slots /\ Known' = Known
      BY <1>3 DEF KillTimeout, Known, Slots
    <3> QED
      BY <3>1, SlotsShrink
  <2>6. ClosingEnds'
    BY <1>3 DEF KillTimeout, PoolInv, TypeOK, ClosingEnds, DownIsClosed, Known,
       taskVars
  <2> QED
    BY <2>1, <2>2, <2>3, <2>4, <2>5, <2>6 DEF PoolInv
<1>4. CASE FinishEnd(t)
  <2>1. TypeOK'
    BY <1>4, PoolAssumption DEF FinishEnd, PoolInv, TypeOK, TasksOK, Owned, Working,
       Returned, Return, Lock, Release, Terminate, Terminated, End
  <2>2. TasksOK'
    BY <1>4, PoolAssumption DEF FinishEnd, PoolInv, TypeOK, TasksOK, Owned, Working,
       Returned, Return, Lock, Terminated, End
  <2>3. Owned'
    BY <1>4, PoolAssumption DEF FinishEnd, PoolInv, TypeOK, TasksOK, Owned, Working,
       Returned, Return, Lock, Release, Terminate
  <2>4. Listing'
    BY <1>4, PoolAssumption DEF FinishEnd, PoolInv, TypeOK, Listing, WorkersAreActive,
       Working, Returned, Return, Lock, Terminated, End
  <2>5. WorkersAreActive'
    BY <1>4 DEF FinishEnd, PoolInv, WorkersAreActive, Return, Terminated, End
  <2>6. LaunchIsFresh'
    BY <1>4, PoolAssumption DEF FinishEnd, PoolInv, TypeOK, TasksOK, Owned, Listing,
       WorkersAreActive, LaunchIsFresh, EndedIsPrivate, Working, Returned, Return,
       Lock, Terminated, End
  <2>7. EndedIsPrivate'
    BY <1>4, PoolAssumption DEF FinishEnd, PoolInv, TypeOK, EndedIsPrivate, End
  <2>8. SlotsWithinCapacity'
    <3>1. Slots' \subseteq Slots /\ Known' = Known
      BY <1>4, PoolAssumption DEF FinishEnd, PoolInv, TypeOK, TasksOK, Returned,
         Known, End, Slots
    <3> QED
      BY <3>1, SlotsShrink
  <2>9. ClosingEnds'
    BY <1>4, PoolAssumption DEF FinishEnd, PoolInv, TypeOK, TasksOK, Owned, Listing,
       WorkersAreActive, ClosingEnds, DownIsClosed, Known, Tasks, Terminated, End
  <2>10. DownIsClosed'
    BY <1>4, PoolAssumption DEF FinishEnd, PoolInv, DownIsClosed, Return
  <2> QED
    BY <2>1, <2>2, <2>3, <2>4, <2>5, <2>6, <2>7, <2>8, <2>9, <2>10 DEF PoolInv
<1> QED
  BY <1>1, <1>2, <1>3, <1>4 DEF LockStep, StopStep

\* ... of requests ...
LEMMA PowerInv ==
    ASSUME PoolInv, NEW q \in Requests, ClientStep(q) \/ PowerStep(q)
    PROVE  PoolInv'
<1> q \in Tasks
  BY DEF Tasks
<1>1. CASE Create(q)
  <2>1. /\ EndedIsPrivate' /\ SlotsWithinCapacity'
    BY <1>1, PoolAssumption DEF Create, PoolInv, TypeOK, LaunchIsFresh,
       EndedIsPrivate, Known, Tasks, Active, recordVars, SlotsWithinCapacity, Slots
  <2>2. TypeOK'
    BY <1>1, PoolAssumption DEF Create, PoolInv, TypeOK, recordVars, Suspend
  <2>3. TasksOK'
    BY <1>1, PoolAssumption DEF Create, PoolInv, TypeOK, TasksOK, Owned, Working,
       Returned, Active, recordVars, taskVars, Suspend
  <2>4. Owned'
    BY <1>1, PoolAssumption DEF Create, PoolInv, TypeOK, TasksOK, Owned, Working,
       Suspend
  <2>5. Listing'
    BY <1>1, PoolAssumption DEF Create, PoolInv, TypeOK, TasksOK, Owned, Listing,
       WorkersAreActive, Working, Returned, Active, recordVars, taskVars, Suspend
  <2>6. WorkersAreActive'
    BY <1>1 DEF Create, PoolInv, WorkersAreActive, Active, recordVars, Suspend
  <2>7. LaunchIsFresh'
    BY <1>1 DEF Create, PoolInv, TypeOK, LaunchIsFresh, recordVars, Suspend
  <2>8. ClosingEnds'
    BY <1>1 DEF Create, ClosingEnds
  <2>9. DownIsClosed'
    BY <1>1 DEF Create, DownIsClosed
  <2> QED
    BY <2>1, <2>2, <2>3, <2>4, <2>5, <2>6, <2>7, <2>8, <2>9 DEF PoolInv
<1>2. ASSUME NEW s \in Sessions, NEW o \in {"stop", "power_off", "power_on"}, Request(q, o, s)
      PROVE  PoolInv'
  <2>1. /\ EndedIsPrivate' /\ SlotsWithinCapacity'
    BY <1>2, PoolAssumption DEF Request, PoolInv, TypeOK, LaunchIsFresh,
       EndedIsPrivate, Known, Tasks, Active, recordVars, SlotsWithinCapacity, Slots
  <2>2. TypeOK'
    BY <1>2 DEF Request, PoolInv, TypeOK, Working, Returned, Active, recordVars,
       Suspend
  <2>3. TasksOK'
    BY <1>2, PoolAssumption DEF Request, PoolInv, TypeOK, TasksOK, Owned, Working,
       Returned, Active, recordVars, taskVars, Suspend
  <2>4. Owned'
    BY <1>2, PoolAssumption DEF Request, PoolInv, TypeOK, TasksOK, Owned, Working,
       Returned, Known, Tasks, taskVars, Suspend
  <2>5. Listing'
    BY <1>2, PoolAssumption DEF Request, PoolInv, TypeOK, Listing, WorkersAreActive,
       Working, Returned, Active, recordVars, taskVars, Suspend
  <2>6. WorkersAreActive'
    BY <1>2 DEF Request, PoolInv, WorkersAreActive, Active, recordVars, Suspend
  <2>7. LaunchIsFresh'
    BY <1>2 DEF Request, PoolInv, TypeOK, LaunchIsFresh, recordVars, Suspend
  <2>8. ClosingEnds'
    BY <1>2 DEF Request, ClosingEnds
  <2>9. DownIsClosed'
    BY <1>2 DEF Request, DownIsClosed
  <2> QED
    BY <2>1, <2>2, <2>3, <2>4, <2>5, <2>6, <2>7, <2>8, <2>9 DEF PoolInv
<1>3. CASE PowerOff(q)
  <2>1. TypeOK'
    BY <1>3, PoolAssumption DEF PowerOff, PoolInv, TypeOK, TasksOK, Suspend, Return,
       Lock, Terminate
  <2>2. TasksOK'
    BY <1>3, PoolAssumption DEF PowerOff, PoolInv, TypeOK, TasksOK, Suspend, Terminate
  <2>3. Owned'
    BY <1>3, PoolAssumption DEF PowerOff, PoolInv, TypeOK, TasksOK, Owned,
       ClosingEnds, DownIsClosed, Working, Returned, Known, Tasks, taskVars, Suspend,
       Return, Lock, Release, Terminate
  <2>4. Listing'
    BY <1>3, PoolAssumption DEF PowerOff, PoolInv, TypeOK, TasksOK, Owned, Listing,
       WorkersAreActive, Working, Returned, taskVars, Suspend, Release, Terminate
  <2>5. WorkersAreActive'
    BY <1>3 DEF PowerOff, PoolInv, TypeOK, Listing, WorkersAreActive, taskVars,
       Suspend, Terminate
  <2>6. LaunchIsFresh'
    BY <1>3, PoolAssumption DEF PowerOff, PoolInv, TypeOK, LaunchIsFresh,
       EndedIsPrivate, taskVars, Suspend, Release, Terminate
  <2>7. EndedIsPrivate'
    BY <1>3 DEF PowerOff, PoolInv, EndedIsPrivate
  <2>8. SlotsWithinCapacity'
    <3>1. Slots' \subseteq Slots /\ Known' = Known
      BY <1>3 DEF PowerOff, Known, Terminate, Slots
    <3> QED
      BY <3>1, SlotsShrink
  <2>9. ClosingEnds'
    BY <1>3, PoolAssumption DEF PowerOff, PoolInv, TypeOK, TasksOK, Listing,
       ClosingEnds
  <2>10. DownIsClosed'
    BY <1>3, PoolAssumption DEF PowerOff, PoolInv, TypeOK, TasksOK, Listing,
       DownIsClosed
  <2> QED
    BY <2>1, <2>2, <2>3, <2>4, <2>5, <2>6, <2>7, <2>8, <2>9, <2>10 DEF PoolInv
<1>4. CASE PowerOn(q)
  <2>1. TypeOK'
    BY <1>4, PoolAssumption DEF PowerOn, PoolInv, TypeOK, TasksOK, Owned, Active,
       recordVars, taskVars, Suspend, Return, Lock
  <2>2. TasksOK'
    BY <1>4, PoolAssumption DEF PowerOn, PoolInv, TypeOK, TasksOK, Suspend, Lock
  <2>3. Owned'
    BY <1>4, PoolAssumption DEF PowerOn, PoolInv, TypeOK, TasksOK, Owned, Working,
       Returned, Known, Tasks, taskVars, Suspend, Return, Lock
  <2>4. Listing'
    BY <1>4, PoolAssumption DEF PowerOn, PoolInv, TypeOK, TasksOK, Owned, Listing,
       Returned, Suspend
  <2>5. WorkersAreActive'
    BY <1>4 DEF PowerOn, PoolInv, WorkersAreActive, Suspend
  <2>6. LaunchIsFresh'
    BY <1>4, PoolAssumption DEF PowerOn, PoolInv, TypeOK, TasksOK, Owned, Listing,
       WorkersAreActive, LaunchIsFresh, EndedIsPrivate, taskVars, Suspend, Return,
       Lock
  <2>7. EndedIsPrivate'
    BY <1>4 DEF PowerOn, PoolInv, EndedIsPrivate
  <2>8. SlotsWithinCapacity'
    <3>1. Slots' \subseteq Slots /\ Known' = Known
      BY <1>4 DEF PowerOn, Known, Active, Slots
    <3> QED
      BY <3>1, SlotsShrink
  <2>9. ClosingEnds'
    BY <1>4, PoolAssumption DEF PowerOn, PoolInv, TypeOK, TasksOK, Listing,
       ClosingEnds
  <2>10. DownIsClosed'
    BY <1>4, PoolAssumption DEF PowerOn, PoolInv, TypeOK, TasksOK, Listing,
       DownIsClosed
  <2> QED
    BY <2>1, <2>2, <2>3, <2>4, <2>5, <2>6, <2>7, <2>8, <2>9, <2>10 DEF PoolInv
<1>5. CASE PowerRefused(q)
  <2>1. /\ EndedIsPrivate' /\ SlotsWithinCapacity'
    BY <1>5, PoolAssumption DEF PowerRefused, PoolInv, TypeOK, LaunchIsFresh,
       EndedIsPrivate, Known, Tasks, Active, recordVars, SlotsWithinCapacity, Slots
  <2>2. TypeOK'
    BY <1>5, PoolAssumption DEF PowerRefused, PoolInv, TypeOK, recordVars, Return
  <2>3. TasksOK'
    BY <1>5, PoolAssumption DEF PowerRefused, PoolInv, TypeOK, TasksOK, Owned,
       Listing, WorkersAreActive, Known, Tasks, Active, recordVars, Return, Lock
  <2>4. Owned'
    BY <1>5, PoolAssumption DEF PowerRefused, PoolInv, TypeOK, TasksOK, Owned,
       Working, Return
  <2>5. Listing'
    BY <1>5, PoolAssumption DEF PowerRefused, PoolInv, TypeOK, Listing,
       WorkersAreActive, Working, Returned, Active, recordVars, Return, Lock
  <2>6. WorkersAreActive'
    BY <1>5 DEF PowerRefused, PoolInv, WorkersAreActive, Active, recordVars, Return
  <2>7. LaunchIsFresh'
    BY <1>5 DEF PowerRefused, PoolInv, TypeOK, LaunchIsFresh, recordVars, Return
  <2>8. ClosingEnds'
    BY <1>5 DEF PowerRefused, PoolInv, Listing, ClosingEnds
  <2>9. DownIsClosed'
    BY <1>5 DEF PowerRefused, PoolInv, Listing, DownIsClosed
  <2> QED
    BY <2>1, <2>2, <2>3, <2>4, <2>5, <2>6, <2>7, <2>8, <2>9 DEF PoolInv
<1> QED
  BY <1>1, <1>2, <1>3, <1>4, <1>5 DEF ClientStep, PowerStep

\* ... of create and of a launch ...
LEMMA LaunchInv ==
    ASSUME PoolInv, NEW q \in Requests, LaunchStep(q)
    PROVE  PoolInv'
<1> q \in Tasks
  BY DEF Tasks
<1>1. ASSUME NEW s \in Sessions, Admit(q, s)
      PROVE  PoolInv'
  <2>1. TypeOK'
    BY <1>1, PoolAssumption DEF Admit, PoolInv, TypeOK, Active, Suspend
  <2>2. TasksOK'
    BY <1>1, PoolAssumption DEF Admit, PoolInv, TypeOK, TasksOK, Suspend
  <2>3. Owned'
    BY <1>1, PoolAssumption DEF Admit, PoolInv, TypeOK, TasksOK, Owned, Suspend
  <2>4. Listing'
    BY <1>1 DEF Admit, PoolInv, TypeOK, Listing, Returned, Suspend
  <2>5. WorkersAreActive'
    BY <1>1 DEF Admit, PoolInv, WorkersAreActive, Suspend
  <2>6. LaunchIsFresh'
    BY <1>1, PoolAssumption DEF Admit, PoolInv, TypeOK, Listing, WorkersAreActive,
       LaunchIsFresh, Suspend
  <2>7. EndedIsPrivate'
    BY <1>1 DEF Admit, PoolInv, TypeOK, EndedIsPrivate
  <2>8. SlotsWithinCapacity'
    <3> DEFINE A == {x \in Sessions : shown[x] \in Active}
    <3>1. /\ Slots \in SUBSET A /\ A \in SUBSET Known
          /\ Slots' \in SUBSET (Slots \cup {s}) /\ Known' = Known \cup {s}
      BY <1>1, PoolAssumption DEF Admit, Suspend, PoolInv, TypeOK, TasksOK, Listing,
         WorkersAreActive, Slots, Known, Active
    <3>2. IsFiniteSet(Known) /\ IsFiniteSet(A) /\ Cardinality(A) < MaxSessions
      BY <1>1, <3>1, FS_Subset DEF Admit, ActiveCount, PoolInv, SlotsWithinCapacity
    <3>3. IsFiniteSet(Slots) /\ Cardinality(Slots) <= Cardinality(A)
      BY <3>1, <3>2, FS_Subset
    <3>4. IsFiniteSet(Slots \cup {s}) /\ Cardinality(Slots \cup {s}) <= Cardinality(Slots) + 1
      <4>1. s \notin Slots
        BY <1>1, <3>1 DEF Admit, Active
      <4>2. /\ IsFiniteSet(Slots \cup {s})
            /\ Cardinality(Slots \cup {s}) = Cardinality(Slots) + 1
        BY <3>3, <4>1, FS_AddElement
      <4>3. Cardinality(Slots) \in Nat
        BY <3>3, FS_CardinalityType
      <4> QED
        BY <4>2, <4>3
    <3>5. IsFiniteSet(Slots') /\ Cardinality(Slots') <= Cardinality(Slots \cup {s})
      BY <3>1, <3>4, FS_Subset
    <3>6. IsFiniteSet(Known')
      BY <3>1, <3>2, FS_AddElement
    <3>7. /\ Cardinality(Slots') \in Nat /\ Cardinality(Slots \cup {s}) \in Nat
          /\ Cardinality(Slots) \in Nat /\ Cardinality(A) \in Nat
      BY <3>2, <3>3, <3>4, <3>5, FS_CardinalityType
    <3> HIDE DEF A
    <3> QED
      BY <3>2, <3>3, <3>4, <3>5, <3>6, <3>7, PoolAssumption DEF SlotsWithinCapacity
  <2>9. ClosingEnds'
    BY <1>1 DEF Admit, PoolInv, Listing, ClosingEnds
  <2>10. DownIsClosed'
    BY <1>1 DEF Admit, PoolInv, Listing, DownIsClosed
  <2> QED
    BY <2>1, <2>2, <2>3, <2>4, <2>5, <2>6, <2>7, <2>8, <2>9, <2>10 DEF PoolInv
<1>2. CASE Refuse(q)
  <2>1. /\ EndedIsPrivate' /\ SlotsWithinCapacity'
    BY <1>2, PoolAssumption DEF Refuse, PoolInv, TypeOK, LaunchIsFresh,
       EndedIsPrivate, Known, Tasks, Active, recordVars, SlotsWithinCapacity, Slots
  <2>2. TypeOK'
    BY <1>2, PoolAssumption DEF Refuse, PoolInv, TypeOK, recordVars, Return
  <2>3. TasksOK'
    BY <1>2, PoolAssumption DEF Refuse, PoolInv, TypeOK, TasksOK, Owned, Listing,
       WorkersAreActive, Known, Tasks, Active, recordVars, Return, Lock
  <2>4. Owned'
    BY <1>2, PoolAssumption DEF Refuse, PoolInv, TypeOK, TasksOK, Owned, Working,
       Return
  <2>5. Listing'
    BY <1>2, PoolAssumption DEF Refuse, PoolInv, TypeOK, Listing, WorkersAreActive,
       Working, Returned, Active, recordVars, Return, Lock
  <2>6. WorkersAreActive'
    BY <1>2 DEF Refuse, PoolInv, WorkersAreActive, Active, recordVars, Return
  <2>7. LaunchIsFresh'
    BY <1>2 DEF Refuse, PoolInv, TypeOK, LaunchIsFresh, recordVars, Return
  <2>8. ClosingEnds'
    BY <1>2 DEF Refuse, PoolInv, Listing, ClosingEnds
  <2>9. DownIsClosed'
    BY <1>2 DEF Refuse, PoolInv, Listing, DownIsClosed
  <2> QED
    BY <2>1, <2>2, <2>3, <2>4, <2>5, <2>6, <2>7, <2>8, <2>9 DEF PoolInv
<1>3. CASE Launch(q)
  <2>1. TypeOK'
    BY <1>3, PoolAssumption DEF Launch, PoolInv, TypeOK, TasksOK, Working, Suspend
  <2>2. TasksOK'
    BY <1>3, PoolAssumption DEF Launch, PoolInv, TypeOK, TasksOK, Working, Suspend
  <2>3. Owned'
    BY <1>3, PoolAssumption DEF Launch, PoolInv, TypeOK, TasksOK, Owned, Working,
       Suspend
  <2>4. Listing'
    BY <1>3 DEF Launch, PoolInv, TypeOK, Listing, Returned, Suspend
  <2>5. WorkersAreActive'
    BY <1>3, PoolAssumption DEF Launch, PoolInv, TypeOK, Listing, WorkersAreActive,
       LaunchIsFresh, Suspend
  <2>6. LaunchIsFresh'
    BY <1>3, PoolAssumption DEF Launch, PoolInv, TypeOK, TasksOK, Owned,
       LaunchIsFresh, EndedIsPrivate, Working, Returned, taskVars, Suspend
  <2>7. EndedIsPrivate'
    BY <1>3 DEF Launch, PoolInv, EndedIsPrivate
  <2>8. SlotsWithinCapacity'
    <3>1. Slots' \subseteq Slots /\ Known' = Known
      BY <1>3 DEF Launch, PoolInv, TypeOK, TasksOK, WorkersAreActive, LaunchIsFresh,
         Returned, Known, End, Slots
    <3> QED
      BY <3>1, SlotsShrink
  <2>9. ClosingEnds'
    BY <1>3 DEF Launch, PoolInv, Listing, ClosingEnds
  <2>10. DownIsClosed'
    BY <1>3 DEF Launch, PoolInv, Listing, DownIsClosed
  <2> QED
    BY <2>1, <2>2, <2>3, <2>4, <2>5, <2>6, <2>7, <2>8, <2>9, <2>10 DEF PoolInv
<1>4. CASE LaunchFails(q)
  <2>1. TypeOK'
    BY <1>4, PoolAssumption DEF LaunchFails, PoolInv, TypeOK, TasksOK, Owned, Working,
       Returned, Return, Lock, Release, Terminate, Terminated, End
  <2>2. TasksOK'
    BY <1>4, PoolAssumption DEF LaunchFails, PoolInv, TypeOK, TasksOK, Owned, Working,
       Returned, Return, Lock, Terminated, End
  <2>3. Owned'
    BY <1>4, PoolAssumption DEF LaunchFails, PoolInv, TypeOK, TasksOK, Owned, Working,
       Returned, Return, Lock, Release, Terminate
  <2>4. Listing'
    BY <1>4, PoolAssumption DEF LaunchFails, PoolInv, TypeOK, Listing,
       WorkersAreActive, Working, Returned, Return, Lock, Terminated, End
  <2>5. WorkersAreActive'
    BY <1>4, PoolAssumption DEF LaunchFails, PoolInv, TypeOK, Listing,
       WorkersAreActive, LaunchIsFresh, EndedIsPrivate, Return, Lock, Terminated, End
  <2>6. LaunchIsFresh'
    BY <1>4, PoolAssumption DEF LaunchFails, PoolInv, TypeOK, TasksOK, Owned, Listing,
       WorkersAreActive, LaunchIsFresh, EndedIsPrivate, Working, Returned, Return,
       Lock, Terminated, End
  <2>7. EndedIsPrivate'
    BY <1>4, PoolAssumption DEF LaunchFails, PoolInv, TypeOK, EndedIsPrivate, End
  <2>8. SlotsWithinCapacity'
    <3>1. Slots' \subseteq Slots /\ Known' = Known
      BY <1>4 DEF LaunchFails, PoolInv, TypeOK, TasksOK, Known, End, Slots
    <3> QED
      BY <3>1, SlotsShrink
  <2>9. ClosingEnds'
    BY <1>4 DEF LaunchFails, PoolInv, Listing, ClosingEnds
  <2>10. DownIsClosed'
    BY <1>4 DEF LaunchFails, PoolInv, Listing, DownIsClosed
  <2> QED
    BY <2>1, <2>2, <2>3, <2>4, <2>5, <2>6, <2>7, <2>8, <2>9, <2>10 DEF PoolInv
<1>5. CASE Ready(q)
  <2>1. TypeOK'
    BY <1>5, PoolAssumption DEF Ready, PoolInv, TypeOK, TasksOK, Owned, ClosingEnds,
       DownIsClosed, Working, Returned, Active, recordVars, Return, Lock, Release,
       Terminate
  <2>2. TasksOK'
    BY <1>5, PoolAssumption DEF Ready, PoolInv, TypeOK, TasksOK, Working, Return
  <2>3. Owned'
    BY <1>5, PoolAssumption DEF Ready, PoolInv, TypeOK, TasksOK, Owned, Working,
       Returned, Return, Lock, Release, Terminate
  <2>4. Listing'
    BY <1>5 DEF Ready, PoolInv, TypeOK, Listing, Returned, Return
  <2>5. WorkersAreActive'
    BY <1>5 DEF Ready, PoolInv, WorkersAreActive, Active, Return
  <2>6. LaunchIsFresh'
    BY <1>5 DEF Ready, PoolInv, LaunchIsFresh, Return
  <2>7. EndedIsPrivate'
    BY <1>5 DEF Ready, PoolInv, EndedIsPrivate
  <2>8. SlotsWithinCapacity'
    <3>1. Slots' \subseteq Slots /\ Known' = Known
      BY <1>5 DEF Ready, Known, Slots
    <3> QED
      BY <3>1, SlotsShrink
  <2>9. ClosingEnds'
    BY <1>5 DEF Ready, PoolInv, Listing, ClosingEnds
  <2>10. DownIsClosed'
    BY <1>5 DEF Ready, PoolInv, Listing, DownIsClosed
  <2> QED
    BY <2>1, <2>2, <2>3, <2>4, <2>5, <2>6, <2>7, <2>8, <2>9, <2>10 DEF PoolInv
<1>6. CASE NotReady(q)
  <2>1. TypeOK'
    BY <1>6, PoolAssumption DEF NotReady, PoolInv, TypeOK, TasksOK, Owned, Working,
       Returned, taskVars, Suspend, Release, Terminate
  <2>2. TasksOK'
    BY <1>6, PoolAssumption DEF NotReady, PoolInv, TypeOK, TasksOK, Owned, Working,
       Returned, taskVars, Suspend, Release, Terminate
  <2>3. Owned'
    BY <1>6, PoolAssumption DEF NotReady, PoolInv, TypeOK, TasksOK, Owned, Working,
       Returned, taskVars, Suspend, Release, Terminate
  <2>4. Listing'
    BY <1>6, PoolAssumption DEF NotReady, PoolInv, TypeOK, TasksOK, Owned, Listing,
       WorkersAreActive, Working, Returned, taskVars, Suspend, Release, Terminate
  <2>5. WorkersAreActive'
    BY <1>6 DEF NotReady, PoolInv, TypeOK, Listing, WorkersAreActive, taskVars,
       Suspend, Terminate
  <2>6. LaunchIsFresh'
    BY <1>6, PoolAssumption DEF NotReady, PoolInv, TypeOK, LaunchIsFresh,
       EndedIsPrivate, taskVars, Suspend, Release, Terminate
  <2>7. EndedIsPrivate'
    BY <1>6 DEF NotReady, PoolInv, EndedIsPrivate
  <2>8. SlotsWithinCapacity'
    <3>1. Slots' \subseteq Slots /\ Known' = Known
      BY <1>6 DEF NotReady, Known, Terminate, Slots
    <3> QED
      BY <3>1, SlotsShrink
  <2>9. ClosingEnds'
    BY <1>6 DEF NotReady, PoolInv, Listing, ClosingEnds
  <2>10. DownIsClosed'
    BY <1>6 DEF NotReady, PoolInv, Listing, DownIsClosed
  <2> QED
    BY <2>1, <2>2, <2>3, <2>4, <2>5, <2>6, <2>7, <2>8, <2>9, <2>10 DEF PoolInv
<1>7. CASE FinishPowerOff(q)
  <2>1. TypeOK'
    BY <1>7, PoolAssumption DEF FinishPowerOff, PoolInv, TypeOK, TasksOK, Owned,
       ClosingEnds, DownIsClosed, Working, Returned, Active, recordVars, Return, Lock,
       Release, Terminate
  <2>2. TasksOK'
    BY <1>7, PoolAssumption DEF FinishPowerOff, PoolInv, TypeOK, TasksOK, Working,
       Return
  <2>3. Owned'
    BY <1>7, PoolAssumption DEF FinishPowerOff, PoolInv, TypeOK, TasksOK, Owned,
       Working, Returned, Return, Lock, Release, Terminate
  <2>4. Listing'
    BY <1>7 DEF FinishPowerOff, PoolInv, TypeOK, Listing, Returned, Return
  <2>5. WorkersAreActive'
    BY <1>7, PoolAssumption DEF FinishPowerOff, PoolInv, TypeOK, Listing,
       WorkersAreActive, Return, Terminated
  <2>6. LaunchIsFresh'
    BY <1>7, PoolAssumption DEF FinishPowerOff, PoolInv, TypeOK, TasksOK, Owned,
       Listing, WorkersAreActive, LaunchIsFresh, EndedIsPrivate, Working, Returned,
       Return, Lock, Terminated, End
  <2>7. EndedIsPrivate'
    BY <1>7 DEF FinishPowerOff, PoolInv, EndedIsPrivate
  <2>8. SlotsWithinCapacity'
    <3>1. Slots' \subseteq Slots /\ Known' = Known
      BY <1>7 DEF FinishPowerOff, PoolInv, TypeOK, TasksOK, EndedIsPrivate,
         ClosingEnds, Returned, Known, End, Slots
    <3> QED
      BY <3>1, SlotsShrink
  <2>9. ClosingEnds'
    BY <1>7, PoolAssumption DEF FinishPowerOff, PoolInv, TypeOK, TasksOK, Listing,
       ClosingEnds
  <2>10. DownIsClosed'
    BY <1>7, PoolAssumption DEF FinishPowerOff, PoolInv, TypeOK, TasksOK, Listing,
       DownIsClosed
  <2> QED
    BY <2>1, <2>2, <2>3, <2>4, <2>5, <2>6, <2>7, <2>8, <2>9, <2>10 DEF PoolInv
<1> QED
  BY <1>1, <1>2, <1>3, <1>4, <1>5, <1>6, <1>7 DEF LaunchStep

\* ... of the worker, its reader and the clock ...
LEMMA SessionInv ==
    ASSUME PoolInv, NEW s \in Sessions,
           WorkerExit(s) \/ ReaderExit(s) \/ ReaderFinish(s) \/ Expire(s)
    PROVE  PoolInv'
<1>1. CASE WorkerExit(s)
  <2>1. /\ TasksOK' /\ Owned' /\ Listing' /\ EndedIsPrivate' /\ DownIsClosed'
    BY <1>1, PoolAssumption DEF WorkerExit, PoolInv, TypeOK, TasksOK, Owned, Listing,
       WorkersAreActive, LaunchIsFresh, EndedIsPrivate, ClosingEnds, DownIsClosed,
       Working, Returned, taskVars, Suspend
  <2>2. TypeOK'
    BY <1>1 DEF WorkerExit, PoolInv, TypeOK, taskVars
  <2>3. WorkersAreActive'
    BY <1>1 DEF WorkerExit, PoolInv, WorkersAreActive, taskVars
  <2>4. LaunchIsFresh'
    BY <1>1 DEF WorkerExit, PoolInv, LaunchIsFresh, taskVars
  <2>5. SlotsWithinCapacity'
    <3>1. Slots' \subseteq Slots /\ Known' = Known
      BY <1>1 DEF WorkerExit, Known, Slots
    <3> QED
      BY <3>1, SlotsShrink
  <2>6. ClosingEnds'
    BY <1>1 DEF WorkerExit, PoolInv, TypeOK, ClosingEnds, DownIsClosed, Known,
       taskVars
  <2> QED
    BY <2>1, <2>2, <2>3, <2>4, <2>5, <2>6 DEF PoolInv
<1>2. CASE ReaderExit(s)
  <2>1. /\ TasksOK' /\ Owned' /\ Listing' /\ EndedIsPrivate'
        /\ SlotsWithinCapacity' /\ ClosingEnds' /\ DownIsClosed'
    BY <1>2, PoolAssumption DEF ReaderExit, PoolInv, TypeOK, TasksOK, Owned, Listing,
       WorkersAreActive, LaunchIsFresh, EndedIsPrivate, ClosingEnds, DownIsClosed,
       Working, Returned, Known, Tasks, taskVars, Suspend, SlotsWithinCapacity, Slots
  <2>2. TypeOK'
    BY <1>2 DEF ReaderExit, PoolInv, TypeOK, taskVars
  <2>3. WorkersAreActive'
    BY <1>2 DEF ReaderExit, PoolInv, WorkersAreActive, taskVars
  <2>4. LaunchIsFresh'
    BY <1>2 DEF ReaderExit, PoolInv, LaunchIsFresh, taskVars
  <2> QED
    BY <2>1, <2>2, <2>3, <2>4 DEF PoolInv
<1>3. CASE ReaderFinish(s)
  <2>1. /\ Owned' /\ DownIsClosed'
    BY <1>3, PoolAssumption DEF ReaderFinish, PoolInv, TypeOK, TasksOK, Owned,
       DownIsClosed, taskVars
  <2>2. TypeOK'
    BY <1>3 DEF ReaderFinish, PoolInv, TypeOK, taskVars
  <2>3. TasksOK'
    BY <1>3 DEF ReaderFinish, PoolInv, TasksOK, taskVars
  <2>4. Listing'
    BY <1>3 DEF ReaderFinish, PoolInv, TypeOK, Listing, Returned, taskVars
  <2>5. WorkersAreActive'
    BY <1>3 DEF ReaderFinish, PoolInv, WorkersAreActive, taskVars
  <2>6. LaunchIsFresh'
    BY <1>3 DEF ReaderFinish, PoolInv, LaunchIsFresh, taskVars
  <2>7. EndedIsPrivate'
    BY <1>3 DEF ReaderFinish, PoolInv, TypeOK, EndedIsPrivate
  <2>8. SlotsWithinCapacity'
    <3>1. Slots' \subseteq Slots /\ Known' = Known
      BY <1>3 DEF ReaderFinish, Known, Active, Slots
    <3> QED
      BY <3>1, SlotsShrink
  <2>9. ClosingEnds'
    BY <1>3 DEF ReaderFinish, PoolInv, TypeOK, ClosingEnds, DownIsClosed, Known,
       taskVars
  <2> QED
    BY <2>1, <2>2, <2>3, <2>4, <2>5, <2>6, <2>7, <2>8, <2>9 DEF PoolInv
<1>4. CASE Expire(s)
  <2>1. /\ TasksOK' /\ Owned' /\ WorkersAreActive' /\ LaunchIsFresh'
        /\ EndedIsPrivate' /\ SlotsWithinCapacity' /\ ClosingEnds'
        /\ DownIsClosed'
    BY <1>4, PoolAssumption DEF Expire, PoolInv, TypeOK, TasksOK, Owned, Listing,
       WorkersAreActive, LaunchIsFresh, EndedIsPrivate, ClosingEnds, DownIsClosed,
       Known, Tasks, Active, recordVars, taskVars, Suspend, SlotsWithinCapacity, Slots
  <2>2. TypeOK'
    BY <1>4, PoolAssumption DEF Expire, PoolInv, TypeOK, recordVars, taskVars
  <2>3. Listing'
    BY <1>4, PoolAssumption DEF Expire, PoolInv, TypeOK, Listing, WorkersAreActive,
       Working, Returned, Active, recordVars, taskVars, Suspend
  <2> QED
    BY <2>1, <2>2, <2>3 DEF PoolInv
<1> QED
  BY <1>1, <1>2, <1>3, <1>4

\* ... and of the cleanup loop and close.
LEMMA ServiceInv ==
    ASSUME PoolInv, CleanerScan \/ StopNext(Cleaner) \/ StopNext(Closer) \/ CloserStep
    PROVE  PoolInv'
<1> Cleaner \in Tasks /\ Closer \in Tasks
  BY DEF Tasks
<1>1. CASE CleanerScan
  <2>1. /\ TasksOK' /\ Owned' /\ WorkersAreActive' /\ LaunchIsFresh'
        /\ EndedIsPrivate' /\ SlotsWithinCapacity'
    BY <1>1, PoolAssumption DEF CleanerScan, PoolInv, TypeOK, TasksOK, Owned, Listing,
       WorkersAreActive, LaunchIsFresh, EndedIsPrivate, Known, Tasks, Active,
       recordVars, taskVars, Suspend, SlotsWithinCapacity, Slots
  <2>2. TypeOK'
    BY <1>1, PoolAssumption DEF CleanerScan, PoolInv, TypeOK, recordVars, taskVars
  <2>3. Listing'
    BY <1>1, PoolAssumption DEF CleanerScan, PoolInv, TypeOK, Listing,
       WorkersAreActive, Working, Returned, Active, recordVars, taskVars, Suspend
  <2>4. ClosingEnds'
    BY <1>1 DEF CleanerScan, ClosingEnds
  <2>5. DownIsClosed'
    BY <1>1 DEF CleanerScan, DownIsClosed
  <2> QED
    BY <2>1, <2>2, <2>3, <2>4, <2>5 DEF PoolInv
<1>2. CASE StopNext(Cleaner)
  <2>1. /\ EndedIsPrivate' /\ SlotsWithinCapacity'
    BY <1>2, PoolAssumption DEF StopNext, PoolInv, TypeOK, LaunchIsFresh,
       EndedIsPrivate, Known, Tasks, Active, recordVars, SlotsWithinCapacity, Slots
  <2>2. TypeOK'
    BY <1>2, PoolAssumption DEF StopNext, PoolInv, TypeOK, Listing, WorkersAreActive,
       Working, Returned, Active, recordVars, taskVars, Suspend
  <2>3. TasksOK'
    BY <1>2, PoolAssumption DEF StopNext, PoolInv, TypeOK, TasksOK, Owned, Listing,
       WorkersAreActive, Working, Returned, Active, recordVars, taskVars, Suspend
  <2>4. Owned'
    BY <1>2, PoolAssumption DEF StopNext, PoolInv, TypeOK, TasksOK, Owned, Listing,
       WorkersAreActive, Working, Returned, Known, Tasks, taskVars, Suspend
  <2>5. Listing'
    BY <1>2, PoolAssumption DEF StopNext, PoolInv, TypeOK, Listing, WorkersAreActive,
       Working, Returned, Active, recordVars, taskVars, Suspend
  <2>6. WorkersAreActive'
    BY <1>2 DEF StopNext, PoolInv, WorkersAreActive, Active, recordVars, Suspend
  <2>7. LaunchIsFresh'
    BY <1>2 DEF StopNext, PoolInv, TypeOK, LaunchIsFresh, recordVars, Suspend
  <2>8. ClosingEnds'
    BY <1>2 DEF StopNext, PoolInv, Listing, ClosingEnds
  <2>9. DownIsClosed'
    BY <1>2 DEF StopNext, PoolInv, Listing, DownIsClosed
  <2> QED
    BY <2>1, <2>2, <2>3, <2>4, <2>5, <2>6, <2>7, <2>8, <2>9 DEF PoolInv
<1>3. CASE StopNext(Closer)
  <2>1. /\ EndedIsPrivate' /\ SlotsWithinCapacity'
    BY <1>3, PoolAssumption DEF StopNext, PoolInv, TypeOK, LaunchIsFresh,
       EndedIsPrivate, Known, Tasks, Active, recordVars, SlotsWithinCapacity, Slots
  <2>2. TypeOK'
    BY <1>3, PoolAssumption DEF StopNext, PoolInv, TypeOK, Listing, WorkersAreActive,
       Working, Returned, Active, recordVars, taskVars, Suspend
  <2>3. TasksOK'
    BY <1>3, PoolAssumption DEF StopNext, PoolInv, TypeOK, TasksOK, Owned, Listing,
       WorkersAreActive, Working, Returned, Active, recordVars, taskVars, Suspend
  <2>4. Owned'
    BY <1>3, PoolAssumption DEF StopNext, PoolInv, TypeOK, TasksOK, Owned, Listing,
       WorkersAreActive, Working, Returned, Known, Tasks, taskVars, Suspend
  <2>5. Listing'
    BY <1>3, PoolAssumption DEF StopNext, PoolInv, TypeOK, Listing, WorkersAreActive,
       Working, Returned, Active, recordVars, taskVars, Suspend
  <2>6. WorkersAreActive'
    BY <1>3, PoolAssumption DEF StopNext, PoolInv, Listing, WorkersAreActive,
       recordVars
  <2>7. LaunchIsFresh'
    BY <1>3, PoolAssumption DEF StopNext, PoolInv, TypeOK, Listing, WorkersAreActive,
       LaunchIsFresh, EndedIsPrivate, Known, Tasks, taskVars, Suspend
  <2>8. ClosingEnds'
    BY <1>3, PoolAssumption DEF StopNext, PoolInv, TypeOK, ClosingEnds, DownIsClosed,
       Known, Tasks, Active, recordVars, taskVars, Suspend
  <2>9. DownIsClosed'
    BY <1>3 DEF StopNext, PoolInv, DownIsClosed
  <2> QED
    BY <2>1, <2>2, <2>3, <2>4, <2>5, <2>6, <2>7, <2>8, <2>9 DEF PoolInv
<1>4. CASE Close
  <2>1. /\ EndedIsPrivate' /\ SlotsWithinCapacity'
    BY <1>4, PoolAssumption DEF Close, PoolInv, TypeOK, LaunchIsFresh, EndedIsPrivate,
       Known, Tasks, Active, recordVars, SlotsWithinCapacity, Slots
  <2>2. TypeOK'
    BY <1>4, PoolAssumption DEF Close, PoolInv, TypeOK, Known, Tasks, Active,
       recordVars, Return, Lock, Release, Terminate
  <2>3. TasksOK'
    BY <1>4, PoolAssumption DEF Close, PoolInv, TypeOK, TasksOK, Owned, Listing,
       Tasks, Return
  <2>4. Owned'
    BY <1>4, PoolAssumption DEF Close, PoolInv, TypeOK, TasksOK, Owned, Listing,
       WorkersAreActive, Return, Release
  <2>5. Listing'
    BY <1>4, PoolAssumption DEF Close, PoolInv, TypeOK, TasksOK, Owned, Listing,
       WorkersAreActive, Working, Returned, Known, Tasks, Active, recordVars, Return,
       Lock
  <2>6. WorkersAreActive'
    BY <1>4 DEF Close, PoolInv, WorkersAreActive, recordVars
  <2>7. LaunchIsFresh'
    BY <1>4, PoolAssumption DEF Close, PoolInv, TypeOK, TasksOK, Owned, LaunchIsFresh,
       Tasks, Return
  <2>8. ClosingEnds'
    BY <1>4, PoolAssumption DEF Close, PoolInv, TypeOK, ClosingEnds, Known, recordVars
  <2>9. DownIsClosed'
    BY <1>4 DEF Close, DownIsClosed
  <2> QED
    BY <2>1, <2>2, <2>3, <2>4, <2>5, <2>6, <2>7, <2>8, <2>9 DEF PoolInv
<1>5. CASE Closed
  <2>1. /\ TasksOK' /\ Owned' /\ LaunchIsFresh' /\ EndedIsPrivate'
        /\ SlotsWithinCapacity'
    BY <1>5, PoolAssumption DEF Closed, PoolInv, TypeOK, TasksOK, Owned, Listing,
       WorkersAreActive, LaunchIsFresh, EndedIsPrivate, Known, Tasks, Active,
       recordVars, taskVars, Suspend, SlotsWithinCapacity, Slots
  <2>2. TypeOK'
    BY <1>5, PoolAssumption DEF Closed, PoolInv, TypeOK, recordVars, taskVars
  <2>3. Listing'
    BY <1>5, PoolAssumption DEF Closed, PoolInv, TypeOK, Listing, WorkersAreActive,
       Working, Returned, Active, recordVars, taskVars, Suspend
  <2>4. WorkersAreActive'
    BY <1>5 DEF Closed, PoolInv, WorkersAreActive, recordVars
  <2>5. ClosingEnds'
    BY <1>5, PoolAssumption DEF Closed, PoolInv, TypeOK, ClosingEnds, Known,
       recordVars
  <2>6. DownIsClosed'
    BY <1>5 DEF Closed, DownIsClosed, taskVars
  <2> QED
    BY <2>1, <2>2, <2>3, <2>4, <2>5, <2>6 DEF PoolInv
<1> QED
  BY <1>1, <1>2, <1>3, <1>4, <1>5 DEF CloserStep

LEMMA PoolInit == Init => PoolInv
<1> SUFFICES ASSUME Init PROVE PoolInv
  OBVIOUS
<1>1. TypeOK /\ TasksOK /\ Owned
  BY DEF Init, TypeOK, TasksOK, Owned, Tasks, Working
<1>2. Listing /\ WorkersAreActive /\ LaunchIsFresh /\ EndedIsPrivate
  BY DEF Init, Tasks, Listing, WorkersAreActive, LaunchIsFresh, EndedIsPrivate
<1>3. SlotsWithinCapacity
  <2>1. Known = {} /\ Slots = {}
    BY DEF Init, Known, Slots
  <2> QED
    BY <2>1, FS_EmptySet, PoolAssumption DEF SlotsWithinCapacity
<1>4. ClosingEnds /\ DownIsClosed
  BY DEF Init, ClosingEnds, DownIsClosed
<1> QED
  BY <1>1, <1>2, <1>3, <1>4 DEF PoolInv

LEMMA PoolStep == PoolInv /\ [Next]_vars => PoolInv'
<1> SUFFICES ASSUME PoolInv, [Next]_vars PROVE PoolInv'
  OBVIOUS
<1>1. CASE UNCHANGED vars
  BY <1>1 DEF PoolInv, TypeOK, TasksOK, Owned, Listing, Returned, WorkersAreActive,
     LaunchIsFresh, EndedIsPrivate, SlotsWithinCapacity, Slots, Known, ClosingEnds,
     DownIsClosed, vars, recordVars, taskVars
<1> QED
  BY <1>1, StopStepInv, PowerInv, LaunchInv, SessionInv, ServiceInv DEF Next

(***************************************************************************)
(* The invariant of the pool: who owns a session, which sessions hold a    *)
(* capacity slot, and what close has still to stop (create, stop,          *)
(* _cleanup_loop, close).                                                  *)
(***************************************************************************)
THEOREM PoolInvariant == Spec => []PoolInv
  BY PoolInit, PoolStep, PTL DEF Spec

(***************************************************************************)
(* Every variable keeps its type, and a coroutine past `create' works on a *)
(* session of the table.                                                   *)
(***************************************************************************)
THEOREM PoolTypes == Spec => []TypeOK
<1>1. PoolInv => TypeOK
  BY DEF PoolInv
<1> QED
  BY <1>1, PoolInvariant, PTL

(***************************************************************************)
(* There are never more workers than max_concurrent_sessions, although     *)
(* create counts the sessions that are active and not the workers, a       *)
(* worker outlives the request that ends it, and a late power_off revives  *)
(* a session whose slot is gone.                                           *)
(***************************************************************************)
THEOREM CapacityIsKept == Spec => []WorkersWithinCapacity
<1>1. PoolInv => WorkersWithinCapacity
  <2> SUFFICES ASSUME PoolInv PROVE WorkersWithinCapacity
    OBVIOUS
  <2> DEFINE W == {s \in Sessions : worker[s] # "none"}
  <2>1. W \in SUBSET Slots /\ Slots \in SUBSET Known
    BY DEF PoolInv, Slots, Known, WorkersAreActive, Active
  <2>2. IsFiniteSet(Slots)
    BY <2>1, FS_Subset DEF PoolInv, SlotsWithinCapacity
  <2>3. IsFiniteSet(W) /\ Cardinality(W) <= Cardinality(Slots)
    BY <2>1, <2>2, FS_Subset
  <2>4. Cardinality(W) \in Nat /\ Cardinality(Slots) \in Nat
    BY <2>2, <2>3, FS_CardinalityType
  <2>5. Cardinality(Slots) <= MaxSessions
    BY DEF PoolInv, SlotsWithinCapacity
  <2> HIDE DEF W
  <2>6. Cardinality(W) <= MaxSessions
    BY <2>3, <2>4, <2>5, PoolAssumption
  <2> QED
    BY <2>6 DEF W, WorkersWithinCapacity
<1> QED
  BY <1>1, PoolInvariant, PTL

(***************************************************************************)
(* When close has returned, every session of the table has ended, its      *)
(* image is gone and its worker was told to end, also a session that the   *)
(* cancelled cleanup loop was about to stop.                               *)
(***************************************************************************)
THEOREM NothingSurvivesClose == Spec => []CloseEndsSessions
<1>1. PoolInv => CloseEndsSessions
  BY DEF PoolInv, CloseEndsSessions, ClosingEnds, DownIsClosed, Known, EndedIsPrivate,
     WorkersAreActive
<1> QED
  BY <1>1, PoolInvariant, PTL
=============================================================================
