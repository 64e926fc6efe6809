---------------------------- MODULE SessionDebug ----------------------------
(***************************************************************************)
(* The debugger of one session: pause, resume, refresh_state and the       *)
(* debug_* operations of SessionManager (sessions.py), the GDB client they *)
(* share (gdb.py), and the power cycles that replace the worker under it.  *)
(*                                                                         *)
(*   Requests   slots for API requests                                     *)
(*   RunTasks   slots for _continue_under_debugger tasks                   *)
(*   Clients    slots for GdbRemoteClient objects                          *)
(*                                                                         *)
(* A step is the code between two suspensions, or a step of the worker.    *)
(* The worker's end of the GDB socket is QEMU's stub: it serves one        *)
(* connection, stops the machine when one is opened or when it receives    *)
(* anything while the machine runs, and answers requests in order.         *)
(***************************************************************************)
EXTENDS Naturals, FiniteSets, Sequences

CONSTANTS
    Requests, RunTasks, Clients, Addresses, None,
    Offered,            \* the operations requests ask for, a subset of Ops
    MaxBreakpoints,     \* MAX_DEBUG_BREAKPOINTS
    MaxLate             \* bound on requests and replies under way when one times out

ASSUME DebugAssumption ==
    /\ MaxBreakpoints \in Nat \ {0} /\ MaxLate \in Nat
    /\ None \notin Requests \cup RunTasks \cup Clients \cup Addresses
    /\ Requests \cap RunTasks = {} /\ IsFiniteSet(Requests)

VARIABLES
    state,              \* SessionRecord.state
    gdb_client, debug_run_task, debug_breakpoints,
    pc,                 \* where each request and run task is suspended
    op,                 \* its operation: <<name, address>>
    held,               \* its local variable: a client, a QMP answer or a run task
    conn,               \* the client that connected last, and ...
    open,               \* ... whether its connection is open
    todo, replies,      \* requests on their way to the stub, and its replies
    power,              \* where power_off and power_on are, under lifecycle_lock
    vm,                 \* the worker: "none", "running" or "halted"
    resumed,            \* the stub owes its client a stop reply
    hardware,           \* the breakpoints set in the worker
    doubt,              \* history: addresses whose last request was not answered
    late                \* history: a command on this connection was given up while
                        \* its reply was still to come

sessionVars == <<state, gdb_client, debug_run_task, debug_breakpoints>>
taskVars    == <<pc, op, held>>
wireVars    == <<conn, open, todo, replies>>
workerVars  == <<vm, resumed, hardware>>
vars == <<sessionVars, taskVars, wireVars, power, workerVars, doubt, late>>

Tasks    == Requests \cup RunTasks
DebugOps == ({"read", "step"} \X {None}) \cup ({"add", "remove"} \X Addresses)
Ops      == DebugOps \cup ({"pause", "resume", "poll"} \X {None})
Continue == <<"continue", None>>
Refusal  == <<"error", None>>
Nothing  == <<"none", None>>
Powered  == {"running", "paused"}

ASSUME OfferedAssumption == Offered \subseteq Ops

TypeOK ==
    /\ state \in Powered \cup {"starting", "powered_off", "failed"}
    /\ gdb_client \in Clients \cup {None}
    /\ debug_run_task \in RunTasks \cup {None}
    /\ debug_breakpoints \subseteq Addresses
    /\ pc \in [Tasks -> {"idle", "qmp", "answered", "connect", "negotiate", "start",
                         "lock", "reply", "await_run", "close", "finally"}]
    /\ op \in [Tasks -> Ops \cup {Continue, Nothing}]
    /\ held \in [Tasks -> Clients \cup RunTasks \cup {None, "running", "halted"}]
    /\ \A t \in Tasks : pc[t] \in {"negotiate", "lock", "reply"} => held[t] \in Clients
    /\ \A t \in Tasks : pc[t] = "await_run" => held[t] \in RunTasks
    /\ conn \in Clients \cup {None} /\ open \in BOOLEAN
    /\ todo \in Seq(DebugOps \cup {Continue})
    /\ replies \in Seq(DebugOps \cup {Continue, Refusal})
    /\ power \in {"idle", "closed", "launch"}
    /\ vm \in {"none", "running", "halted"} /\ resumed \in BOOLEAN
    /\ hardware \subseteq Addresses /\ doubt \subseteq Addresses /\ late \in BOOLEAN

\* A session whose worker has booted, with no debugger attached.
Init ==
    /\ state = "running"
    /\ gdb_client = None /\ debug_run_task = None /\ debug_breakpoints = {}
    /\ pc = [t \in Tasks |-> "idle"]
    /\ op = [t \in Tasks |-> Nothing]
    /\ held = [t \in Tasks |-> None]
    /\ conn = None /\ open = FALSE /\ todo = <<>> /\ replies = <<>>
    /\ power = "idle"
    /\ vm = "running" /\ resumed = FALSE /\ hardware = {}
    /\ doubt = {} /\ late = FALSE

-----------------------------------------------------------------------------
(* Helpers *)

Suspend(t, where, local) ==
    pc' = [pc EXCEPT ![t] = where] /\ held' = [held EXCEPT ![t] = local] /\ UNCHANGED op

Return(t) ==
    /\ pc' = [pc EXCEPT ![t] = "idle"]
    /\ op' = [op EXCEPT ![t] = Nothing]
    /\ held' = [held EXCEPT ![t] = None]

\* qmp_lock and a client's _lock are held over the await of an answer.
QmpFree     == \A t \in Tasks : pc[t] # "answered"
LockFree(c) == \A t \in Tasks : ~(pc[t] = "reply" /\ held[t] = c)

\* Closing, ending or opening a connection takes the event loop more rounds
\* than resuming a coroutine whose reply has arrived.
RepliesRead == replies # <<>> => LockFree(conn)

\* What is left to read of a connection that ends: the reply somebody waits for.
LeftToRead == IF \E t \in Tasks : pc'[t] = "reply" /\ held'[t] = conn THEN replies ELSE <<>>

\* GdbRemoteClient.close: the connection is gone at both ends.
Close(c) ==
    /\ IF c # None /\ conn = c
       THEN open' = FALSE /\ resumed' = FALSE /\ todo' = <<>> /\ replies' = LeftToRead
       ELSE UNCHANGED <<open, resumed, todo, replies>>
    /\ UNCHANGED <<conn, vm, hardware>>

\* The machine stops; a client that let it run is sent a stop reply.
Halt ==
    /\ vm' = "halted" /\ resumed' = FALSE
    /\ replies' = IF resumed THEN Append(replies, Continue) ELSE replies
    /\ UNCHANGED <<conn, open, hardware>>

\* The worker and its connection are gone.
Dead ==
    /\ vm' = "none" /\ resumed' = FALSE /\ hardware' = {}
    /\ open' = FALSE /\ todo' = <<>> /\ replies' = LeftToRead /\ UNCHANGED conn

-----------------------------------------------------------------------------
(* QMP: pause, resume without a debugger, and refresh_state, which starts  *)
(* every debug operation, every GET, and the error path of a run task.     *)

\* A request arrives and makes the checks that precede its first await.
Begin(q, o) ==
    /\ pc[q] = "idle"
    /\ CASE o[1] = "pause"  -> TRUE
         [] o[1] = "resume" -> state = "paused" /\ gdb_client = None
         [] OTHER           -> state \in Powered
    /\ pc' = [pc EXCEPT ![q] = "qmp"] /\ op' = [op EXCEPT ![q] = o]
    /\ UNCHANGED <<sessionVars, held, wireVars, power, workerVars, doubt, late>>

\* Under qmp_lock QEMU executes stop, cont or query-status and answers.
QmpExecute(t) ==
    /\ pc[t] = "qmp" /\ QmpFree /\ vm # "none"
    /\ op[t][1] = "pause" => state = "running"
    /\ CASE op[t][1] = "pause"  -> Halt /\ UNCHANGED todo
         [] op[t][1] = "resume" -> vm' = "running" /\ UNCHANGED <<resumed, hardware, wireVars>>
         [] OTHER               -> UNCHANGED <<workerVars, wireVars>>
    /\ Suspend(t, "answered", vm')
    /\ UNCHANGED <<sessionVars, power, doubt, late>>

\* No worker answers, or not in time; or the session cannot be paused.
QmpFails(t) ==
    /\ pc[t] = "qmp" /\ QmpFree
    /\ IF t \in RunTasks THEN Suspend(t, "close", None) ELSE Return(t)
    /\ UNCHANGED <<sessionVars, wireVars, power, workerVars, doubt, late>>

\* The answer reaches its coroutine, which assigns the state it learned.
Learn(t) ==
    /\ pc[t] = "answered"
    /\ state' = IF held[t] = "running" THEN "running" ELSE "paused"
    /\ UNCHANGED <<gdb_client, debug_run_task, debug_breakpoints, wireVars,
                   power, workerVars, doubt, late>>

\* A control request or a GET is over, unless pause must await a run task.
ControlDone(q) ==
    /\ Learn(q) /\ op[q] \notin DebugOps
    /\ IF op[q][1] = "pause" /\ debug_run_task # None
       THEN Suspend(q, "await_run", debug_run_task)
       ELSE Return(q)

\* A debug operation has its client; setting a breakpoint checks the quota.
Use(q, c) ==
    IF /\ op[q][1] = "add" /\ op[q][2] \notin debug_breakpoints
       /\ Cardinality(debug_breakpoints) >= MaxBreakpoints
    THEN Return(q)
    ELSE Suspend(q, "lock", c)

\* Mutant: the session's client is used whether or not there is one.
DebugCheckedUnconnected(q) ==
    /\ Learn(q) /\ op[q] \in DebugOps
    /\ \/ held[q] = "running" /\ Return(q)
       \/ held[q] = "halted" /\ Use(q, gdb_client)

\* _require_paused_debug_session, and _debug_client when there is a client.
DebugChecked(q) ==
    /\ Learn(q) /\ op[q] \in DebugOps
    /\ \/ held[q] = "running" /\ Return(q)
       \/ held[q] = "halted" /\ gdb_client = None /\ Suspend(q, "connect", None)
       \/ held[q] = "halted" /\ gdb_client # None /\ Use(q, gdb_client)

-----------------------------------------------------------------------------
(* The GDB client *)

\* open_unix_connection: the stub accepts one connection, and stops the machine.
Attach(q, c) ==
    /\ pc[q] = "connect"
    /\ c # gdb_client /\ \A t \in Tasks : held[t] # c
    /\ vm # "none" /\ ~open /\ RepliesRead
    /\ conn' = c /\ open' = TRUE /\ todo' = <<>> /\ replies' = <<>>
    /\ vm' = "halted"
    /\ Suspend(q, "negotiate", c)
    /\ late' = FALSE
    /\ UNCHANGED <<sessionVars, power, resumed, hardware, doubt>>

\* _negotiate is over: the session's client is whichever connected last.
Negotiated(q) ==
    /\ pc[q] = "negotiate" /\ open /\ conn = held[q]
    /\ gdb_client' = held[q]
    /\ Use(q, held[q])
    /\ UNCHANGED <<state, debug_run_task, debug_breakpoints, wireVars, power,
                   workerVars, doubt, late>>

\* The socket stays unavailable or busy, or the negotiation fails.
ConnectFails(q) ==
    /\ pc[q] \in {"connect", "negotiate"}
    /\ Return(q)
    /\ Close(held[q])
    /\ UNCHANGED <<sessionVars, power, doubt, late>>

\* Mutant: command does not take the client's lock.
SendUnlocked(t) ==
    /\ pc[t] = "lock" /\ open /\ conn = held[t]
    /\ todo' = Append(todo, op[t])
    /\ Suspend(t, "reply", held[t])
    /\ UNCHANGED <<sessionVars, conn, open, replies, power, workerVars, doubt, late>>

\* command: the client's lock is taken and the request written.
Send(t) ==
    /\ pc[t] = "lock" /\ LockFree(held[t]) /\ open /\ conn = held[t]
    /\ todo' = Append(todo, op[t])
    /\ Suspend(t, "reply", held[t])
    /\ UNCHANGED <<sessionVars, conn, open, replies, power, workerVars, doubt, late>>

\* The connection of task t has ended and holds no reply: its command raises.
Disconnected(t) ==
    /\ ~open \/ conn # held[t]
    /\ \/ pc[t] = "lock" /\ LockFree(held[t])
       \/ pc[t] = "reply" /\ (conn = held[t] => replies = <<>>)

\* The next reply on the connection of task t.
Arrives(t) == pc[t] = "reply" /\ conn = held[t] /\ replies # <<>>

Kind(o) == CASE o[1] = "read" -> "data"
             [] o[1] \in {"add", "remove"} -> "ok"
             [] o[1] = "error" -> "error"
             [] OTHER -> "stop"

\* ... is taken for the answer to its command.  Reading the registers takes
\* several commands, and the lock is free between them.
Reply(q) ==
    /\ Arrives(q)
    /\ replies' = Tail(replies)
    /\ IF Kind(Head(replies)) = "ok" /\ Kind(op[q]) = "ok"
       THEN debug_breakpoints' = IF op[q][1] = "add" THEN debug_breakpoints \cup {op[q][2]}
                                                     ELSE debug_breakpoints \ {op[q][2]}
       ELSE UNCHANGED debug_breakpoints
    /\ \/ Return(q)
       \/ op[q][1] = "read" /\ Kind(Head(replies)) = "data" /\ Suspend(q, "lock", held[q])
    /\ UNCHANGED <<state, gdb_client, debug_run_task, conn, open, todo, power,
                   workerVars, doubt, late>>

\* Two seconds pass, or the connection ends.  The client of a command that
\* timed out stays in use: its reply may be taken for the next one's.
CommandFails(q) ==
    /\ \/ /\ pc[q] = "reply" /\ open /\ conn = held[q]
          /\ Len(todo) + Len(replies) <= MaxLate
          /\ doubt' = Addresses
          /\ late' = (late \/ todo # <<>> \/ replies # <<>>)
       \/ /\ Disconnected(q)
          /\ doubt' = doubt \cup ({op[q][2]} \cap Addresses)
          /\ UNCHANGED late
    /\ Return(q)
    /\ UNCHANGED <<sessionVars, wireVars, power, workerVars>>

-----------------------------------------------------------------------------
(* _continue_under_debugger *)

\* resume with a debugger attached.
Resume(r) ==
    /\ state = "paused" /\ gdb_client # None
    /\ pc[r] = "idle" /\ \A q \in Requests : held[q] # r
    /\ state' = "running"
    /\ debug_run_task' = r
    /\ pc' = [pc EXCEPT ![r] = "start"] /\ op' = [op EXCEPT ![r] = Continue]
    /\ UNCHANGED <<gdb_client, debug_breakpoints, held, wireVars, power, workerVars, doubt, late>>

\* The except clause begins with refresh_state.
RunRaised(r) == Suspend(r, IF state \in Powered THEN "qmp" ELSE "close", None)

RunStart(r) ==
    /\ pc[r] = "start"
    /\ IF gdb_client = None THEN RunRaised(r) ELSE Suspend(r, "lock", gdb_client)
    /\ UNCHANGED <<sessionVars, wireVars, power, workerVars, doubt, late>>

\* The stop reply arrives.
RunStopped(r) ==
    /\ Arrives(r) /\ Kind(Head(replies)) = "stop"
    /\ replies' = Tail(replies)
    /\ state' = IF state = "running" THEN "paused" ELSE state
    /\ debug_run_task' = None
    /\ Return(r)
    /\ UNCHANGED <<gdb_client, debug_breakpoints, conn, open, todo, power,
                   workerVars, doubt, late>>

\* Another reply, or the end of the connection.
RunFails(r) ==
    /\ Disconnected(r) \/ (Arrives(r) /\ Kind(Head(replies)) # "stop")
    /\ replies' = IF Arrives(r) THEN Tail(replies) ELSE replies
    /\ RunRaised(r)
    /\ UNCHANGED <<sessionVars, conn, open, todo, power, workerVars, doubt, late>>

RunRefreshed(r) == Learn(r) /\ Suspend(r, "close", None)

\* The session's client, whichever it is by now, is closed ...
RunCloses(r) ==
    /\ pc[r] = "close"
    /\ gdb_client' = None
    /\ Suspend(r, "finally", None)
    /\ Close(gdb_client)
    /\ UNCHANGED <<state, debug_run_task, debug_breakpoints, power, doubt, late>>

\* ... and the finally clause clears debug_run_task, whichever it is.
RunEnds(r) ==
    /\ pc[r] = "finally"
    /\ debug_run_task' = None
    /\ Return(r)
    /\ UNCHANGED <<state, gdb_client, debug_breakpoints, wireVars, power, workerVars, doubt, late>>

-----------------------------------------------------------------------------
(* pause awaits the run task it found *)

RunAwaited(q) ==
    /\ pc[q] = "await_run" /\ pc[held[q]] = "idle"
    /\ Return(q)
    /\ UNCHANGED <<sessionVars, wireVars, power, workerVars, doubt, late>>

\* Run task r is cancelled at its await, its finally clause runs, and the
\* session's client is closed; request q, if there is one, returns.
Abandon(r, q) ==
    /\ pc' = [t \in Tasks |-> IF t \in {r, q} THEN "idle" ELSE pc[t]]
    /\ op' = [t \in Tasks |-> IF t \in {r, q} THEN Nothing ELSE op[t]]
    /\ held' = [t \in Tasks |-> IF t \in {r, q} THEN None ELSE held[t]]
    /\ debug_run_task' = None
    /\ gdb_client' = None
    /\ Close(gdb_client)

\* Two seconds pass.
PauseTimesOut(q) ==
    /\ pc[q] = "await_run" /\ pc[held[q]] # "idle"
    /\ Abandon(held[q], q)
    /\ UNCHANGED <<state, debug_breakpoints, power, doubt, late>>

-----------------------------------------------------------------------------
(* Power cycles, under lifecycle_lock *)

\* power_off begins with _close_debugger.
PowerOff ==
    /\ power = "idle" /\ state \in Powered
    /\ power' = "closed"
    /\ Abandon(debug_run_task, None)
    /\ UNCHANGED <<state, debug_breakpoints, doubt, late>>

PoweredOff ==
    /\ power = "closed" /\ RepliesRead
    /\ power' = "idle"
    /\ state' = "powered_off"
    /\ UNCHANGED taskVars
    /\ Dead
    /\ UNCHANGED <<gdb_client, debug_run_task, debug_breakpoints, doubt, late>>

\* Mutant: the breakpoints of the previous worker are kept.
PowerOnKeepsBreakpoints ==
    /\ power = "idle" /\ state = "powered_off"
    /\ power' = "launch" /\ state' = "starting"
    /\ vm' = "running" /\ doubt' = {} /\ late' = FALSE
    /\ UNCHANGED <<gdb_client, debug_run_task, debug_breakpoints, taskVars, wireVars,
                   resumed, hardware>>

PowerOn ==
    /\ power = "idle" /\ state = "powered_off"
    /\ power' = "launch" /\ state' = "starting"
    /\ debug_breakpoints' = {}
    /\ vm' = "running" /\ doubt' = {} /\ late' = FALSE
    /\ UNCHANGED <<gdb_client, debug_run_task, taskVars, wireVars, resumed, hardware>>

\* _wait_for_qmp_running: a machine that a debugger stopped is not a valid start.
Booted ==
    /\ power = "launch"
    /\ power' = "idle" /\ UNCHANGED taskVars
    /\ \/ vm = "running" /\ state' = "running" /\ UNCHANGED <<workerVars, wireVars>>
       \/ vm = "halted"  /\ state' = "failed"  /\ Dead
    /\ UNCHANGED <<gdb_client, debug_run_task, debug_breakpoints, doubt, late>>

-----------------------------------------------------------------------------
(* The worker's stub *)

\* The next request; one that finds the machine running stops it and is lost.
StubStep ==
    /\ open /\ todo # <<>>
    /\ todo' = Tail(todo)
    /\ LET o == Head(todo)
       IN  \/ vm = "running" /\ Halt
          \/ /\ vm = "halted" /\ o = Continue
             /\ vm' = "running" /\ resumed' = TRUE
             /\ UNCHANGED <<conn, open, replies, hardware>>
          \/ /\ vm = "halted" /\ o # Continue
             /\ replies' = Append(replies, o)
             /\ hardware' = CASE o[1] = "add"    -> hardware \cup {o[2]}
                               [] o[1] = "remove" -> hardware \ {o[2]}
                               [] OTHER           -> hardware
             /\ UNCHANGED <<conn, open, vm, resumed>>
          \/ /\ vm = "halted" /\ o[1] = "add"
             /\ replies' = Append(replies, Refusal)
             /\ UNCHANGED <<conn, open, workerVars>>
    /\ UNCHANGED <<sessionVars, taskVars, power, doubt, late>>

\* The guest reaches a breakpoint.
Hit ==
    /\ vm = "running" /\ hardware # {}
    /\ Halt
    /\ UNCHANGED <<sessionVars, taskVars, todo, power, doubt, late>>

-----------------------------------------------------------------------------
RequestStep(q) ==
    \/ ControlDone(q) \/ DebugChecked(q)
    \/ (\E c \in Clients : Attach(q, c)) \/ Negotiated(q) \/ ConnectFails(q)
    \/ Reply(q) \/ CommandFails(q) \/ RunAwaited(q) \/ PauseTimesOut(q)

RunStep(r) ==
    \/ RunRefreshed(r)
    \/ RunStart(r) \/ RunStopped(r) \/ RunFails(r) \/ RunCloses(r) \/ RunEnds(r)

LockStep(t) == QmpExecute(t) \/ QmpFails(t) \/ Send(t)

PowerStep == PoweredOff \/ Booted

Next ==
    \/ \E t \in Tasks : LockStep(t)
    \/ \E q \in Requests : RequestStep(q) \/ \E o \in Offered : Begin(q, o)
    \/ \E r \in RunTasks : RunStep(r) \/ Resume(r)
    \/ PowerOff \/ PowerStep \/ PowerOn
    \/ StubStep \/ Hit

Spec == Init /\ [][Next]_vars

-----------------------------------------------------------------------------
(* Properties *)

\* The service and the worker agree on every breakpoint whose last request was
\* answered: over reconnections, failed requests, power cycles and resumes,
\* debug_breakpoints is neither ahead of the worker nor behind it.
BreakpointsAgree ==
    vm # "none" => \A a \in Addresses \ doubt :
        (\A q \in Requests : pc[q] = "reply" => op[q][2] # a)
            => (a \in debug_breakpoints <=> a \in hardware)

\* Requests that overlap may pass the quota together, but only they: the excess
\* over MAX_DEBUG_BREAKPOINTS is less than the number of requests at once.
QuotaExcessIsBounded ==
    Cardinality(debug_breakpoints) < MaxBreakpoints + Cardinality(Requests)

\* A reply is the answer to the request of the coroutine it reaches, unless a
\* command was given up on the same connection before its reply came: the
\* client's lock keeps one request under way, a cancelled run task takes its
\* connection with it, a command that times out because its request was lost is
\* owed nothing, and no reply outlives its connection.  After a timeout with the
\* reply to come the client stays in use, and what its commands return may be
\* the answer to an earlier one until the next connection.
AnswersMatch ==
    ~late => \A t \in Tasks : Arrives(t) => Head(replies) \in {op[t], Refusal}

(* Not so: what the code does not keep, and the README explains. *)

\* A session holds at most MAX_DEBUG_BREAKPOINTS breakpoints (protocol.md: may
\* hold at most 32 hardware breakpoints).
BreakpointQuota == Cardinality(debug_breakpoints) <= MaxBreakpoints

\* Powering off closes the debugger's connection (architecture.md).
PowerOffClosesDebugger == state = "powered_off" => gdb_client = None

\* A run task that waits for the guest to stop is the session's, so that pause
\* and power off find it.
RunTaskReachable ==
    \A r \in RunTasks : pc[r] \in {"start", "lock", "reply"} => debug_run_task = r
=============================================================================
