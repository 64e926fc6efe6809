----------------------------- MODULE BrokerLink -----------------------------
(***************************************************************************)
(* One broker connection after STARTED: the service's BrokerWorkerProcess  *)
(* and BrokerStdin (broker_protocol.py), the frames in both directions,    *)
(* and the tasks of the broker's _run_worker (worker_broker.py): the relay *)
(* of control frames, the two output pumps with their common budget, and   *)
(* the supervision that ends them.  WorkerBroker has the connections, the  *)
(* claims and the containers around it.                                    *)
(*                                                                         *)
(* Input is counted in chunks, numbered as they are written; output is     *)
(* counted in bytes.  A frame is read whole or not at all (read_frame).    *)
(***************************************************************************)
EXTENDS Naturals, Sequences

CONSTANTS
    Writers,        \* coroutines that write serial input: streams and replays
    None,
    MaxWrites,      \* bound on the chunks written
    MaxBuffered,    \* MAX_BUFFERED_STDIN, in chunks
    Room,           \* frames that a socket, or chunks that the worker's stdin,
                    \* takes before drain() waits
    MaxPrint,       \* bound on the bytes the worker prints on each stream
    Limit           \* the broker's output limit

ASSUME LinkAssumption ==
    /\ MaxWrites \in Nat /\ MaxPrint \in Nat /\ Limit \in Nat
    /\ MaxBuffered \in Nat \ {0} /\ Room \in Nat
    /\ None \notin Writers \cup {"exit", "lost", "terminate", "kill", "control"}
    /\ "control" \notin Writers

VARIABLES
    pc,             \* of each writer: "idle", "drain" or "send"
    written, pending, batch,    \* BrokerStdin: all writes, _pending, drain's local list
    stdin_lock,     \* BrokerStdin._lock
    asked,          \* what _terminate_worker has asked for last
    control,        \* the _send_control tasks
    receiving,      \* is the _receive task running?  It closes stdin at its end
    returncode,     \* BrokerWorkerProcess._returncode
    received,       \* bytes fed to stdout and stderr
    frame_lock,     \* FrameWriter._lock of the service: who waits for the transport
    up, down,       \* frames on their way to the broker and to the service
    open,           \* has neither end closed the connection?
    relay,          \* where _relay_control is
    phase,          \* where _run_worker is
    pump,           \* is the _pump_output task of each stream running?
    remaining, exceeded,    \* _OutputBudget
    alive,          \* the worker
    stdin, got,     \* chunks in its stdin, and chunks it has read
    out, printed    \* bytes in its output pipes, and bytes it has printed

inputVars   == <<pc, written, pending, batch, stdin_lock>>
processVars == <<asked, control, receiving, returncode, received>>
linkVars    == <<frame_lock, up, down, open>>
taskVars    == <<relay, phase>>
outputVars  == <<pump, remaining, exceeded>>
workerVars  == <<alive, stdin, got, out, printed>>
vars == <<inputVars, processVars, linkVars, taskVars, outputVars, workerVars>>

Streams  == {"stdout", "stderr"}
Chunks   == 1..MaxWrites
Controls == {"terminate", "kill"}

\* The pending input stays within its limit, and at most one frame is behind a
\* full transport on the way to the service.  On the way to the broker there may
\* be more: a cancelled send leaves its frame behind and gives the lock up.
TypeOK ==
    /\ pc \in [Writers -> {"idle", "drain", "send"}]
    /\ written \in 0..MaxWrites
    /\ pending \in Seq(Chunks) /\ Len(pending) <= MaxBuffered /\ batch \in Seq(Chunks)
    /\ stdin_lock \in Writers \cup {None}
    /\ asked \in Controls \cup {None} /\ control \in Seq(Controls)
    /\ receiving \in BOOLEAN /\ returncode \in {None, "exit", "lost"}
    /\ received \in [Streams -> 0..MaxPrint]
    /\ up \in Seq(({"stdin"} \X Chunks) \cup (Controls \X {0}))
    /\ frame_lock \in Writers \cup {"control", None}
    /\ down \in Seq((Streams \X (1..MaxPrint)) \cup {<<"exit", 0>>}) /\ Len(down) <= Room + 1
    /\ open \in BOOLEAN
    /\ relay \in {"read", "stdin", "stop", "kill", "ended"}
    /\ phase \in {"supervise", "pumps", "closed", "crashed"}
    /\ pump \in [Streams -> BOOLEAN]
    /\ remaining \in 0..Limit /\ exceeded \in BOOLEAN
    /\ alive \in BOOLEAN /\ stdin \in Seq(Chunks) /\ got \in Seq(Chunks)
    /\ out \in [Streams -> 0..MaxPrint] /\ printed \in [Streams -> 0..MaxPrint]

Init ==
    /\ pc = [w \in Writers |-> "idle"]
    /\ written = 0 /\ pending = <<>> /\ batch = <<>> /\ stdin_lock = None
    /\ asked = None /\ control = <<>>
    /\ receiving = TRUE /\ returncode = None
    /\ received = [s \in Streams |-> 0]
    /\ frame_lock = None /\ up = <<>> /\ down = <<>> /\ open = TRUE
    /\ relay = "read" /\ phase = "supervise" /\ pump = [s \in Streams |-> TRUE]
    /\ remaining = Limit /\ exceeded = FALSE
    /\ alive = TRUE /\ stdin = <<>> /\ got = <<>>
    /\ out = [s \in Streams |-> 0] /\ printed = [s \in Streams |-> 0]

-----------------------------------------------------------------------------
(* The service: serial input *)

\* A session that still has its process writes to it, and drains at once.
Write(w) ==
    /\ pc[w] = "idle" /\ asked = None /\ receiving
    /\ written < MaxWrites /\ Len(pending) < MaxBuffered
    /\ written' = written + 1
    /\ pending' = Append(pending, written + 1)
    /\ pc' = [pc EXCEPT ![w] = "drain"]
    /\ UNCHANGED <<batch, stdin_lock, processVars, linkVars, taskVars, outputVars, workerVars>>

\* Mutant: the pending list is sent without taking it.
DrainKeepsPending(w) ==
    /\ pc[w] = "drain" /\ stdin_lock = None
    /\ stdin_lock' = w /\ batch' = pending
    /\ pc' = [pc EXCEPT ![w] = "send"]
    /\ UNCHANGED <<written, pending, processVars, linkVars, taskVars, outputVars, workerVars>>

\* drain takes its lock and the pending chunks, those of other writers too.
Drain(w) ==
    /\ pc[w] = "drain" /\ stdin_lock = None
    /\ stdin_lock' = w /\ batch' = pending /\ pending' = <<>>
    /\ pc' = [pc EXCEPT ![w] = "send"]
    /\ UNCHANGED <<written, processVars, linkVars, taskVars, outputVars, workerVars>>

\* The transport takes more.
Free(frames) == Len(frames) <= Room

\* FrameWriter.send takes its lock, writes the frame and waits for the transport.
Send(holder, frame) ==
    /\ frame_lock = None /\ open
    /\ frame_lock' = holder /\ up' = Append(up, frame)
    /\ UNCHANGED <<down, open>>

SendChunk(w) ==
    /\ pc[w] = "send" /\ batch # <<>>
    /\ Send(w, <<"stdin", Head(batch)>>)
    /\ batch' = Tail(batch)
    /\ UNCHANGED <<pc, written, pending, stdin_lock, processVars,
                   taskVars, outputVars, workerVars>>

\* The transport has drained, or is closed: send returns.
Flushed ==
    /\ frame_lock # None
    /\ Free(up) \/ ~open
    /\ frame_lock' = None
    /\ UNCHANGED <<inputVars, processVars, up, down, open, taskVars, outputVars, workerVars>>

\* drain is over for the writer, and so is a send that it was in.
Leave(w) ==
    /\ batch' = IF pc[w] = "send" THEN <<>> ELSE batch
    /\ stdin_lock' = IF pc[w] = "send" THEN None ELSE stdin_lock
    /\ frame_lock' = IF frame_lock = w THEN None ELSE frame_lock
    /\ pc' = [pc EXCEPT ![w] = "idle"]
    /\ UNCHANGED <<written, pending, processVars, up, down, open,
                   taskVars, outputVars, workerVars>>

\* Everything is sent, or the connection is gone and send raises.
Drained(w) ==
    /\ pc[w] = "send"
    /\ \/ batch = <<>> /\ frame_lock # w
       \/ ~open /\ frame_lock \in {None, w}
    /\ Leave(w)

\* The writer is cancelled: a serial stream whose other half ended, or a
\* replay.  What it had taken and not written is lost, other writers' chunks
\* too; a frame it had written stays, and the lock is free with the transport
\* still full.
Cancel(w) == pc[w] \in {"drain", "send"} /\ Leave(w)

-----------------------------------------------------------------------------
(* The service: ending the worker, and what it receives *)

\* _terminate_worker: terminate, and kill when the worker has not ended in time.
Ask(kind) ==
    /\ returncode = None
    /\ asked = IF kind = "terminate" THEN None ELSE "terminate"
    /\ asked' = kind /\ control' = Append(control, kind)
    /\ UNCHANGED <<inputVars, receiving, returncode, received, linkVars, taskVars,
                   outputVars, workerVars>>

\* _finish: the first return code stays.
Finish(code) == returncode' = IF returncode = None THEN code ELSE returncode

\* _send_control sends like everyone else.
SendControl ==
    /\ control # <<>>
    /\ Send("control", <<Head(control), 0>>)
    /\ control' = Tail(control)
    /\ UNCHANGED <<inputVars, asked, receiving, returncode, received,
                   taskVars, outputVars, workerVars>>

\* The connection is gone: send raises at once, or where it waits.
SendControlFails ==
    /\ ~open
    /\ \/ frame_lock = None /\ control # <<>> /\ control' = Tail(control)
       \/ frame_lock = "control" /\ UNCHANGED control
    /\ frame_lock' = None
    /\ Finish("lost")
    /\ UNCHANGED <<inputVars, asked, receiving, received, up, down, open,
                   taskVars, outputVars, workerVars>>

\* _receive feeds a frame of output.
Receive ==
    /\ receiving /\ down # <<>> /\ Head(down)[1] \in Streams
    /\ received' = [received EXCEPT ![Head(down)[1]] = @ + Head(down)[2]]
    /\ down' = Tail(down)
    /\ UNCHANGED <<inputVars, asked, control, receiving, returncode, frame_lock, up, open,
                   taskVars, outputVars, workerVars>>

\* _receive ends: it closes stdin and the connection.
ReceiveEnds(code) ==
    /\ receiving
    /\ IF code = "exit" THEN down # <<>> /\ Head(down)[1] = "exit" ELSE ~open
    /\ Finish(code)
    /\ receiving' = FALSE /\ pending' = <<>>
    /\ open' = FALSE /\ down' = <<>>
    /\ UNCHANGED <<pc, written, batch, stdin_lock, asked, control, received, frame_lock, up,
                   taskVars, outputVars, workerVars>>

-----------------------------------------------------------------------------
(* The broker: the relay of control frames *)

RelayRead ==
    /\ relay = "read" /\ up # <<>>
    /\ up' = Tail(up)
    /\ \/ /\ Head(up)[1] = "stdin" /\ alive
          /\ stdin' = Append(stdin, Head(up)[2]) /\ relay' = "stdin"
       \/ /\ Head(up)[1] = "terminate" /\ relay' = "stop" /\ UNCHANGED stdin
       \/ /\ Head(up)[1] = "kill" /\ relay' = "kill" /\ UNCHANGED stdin
    /\ UNCHANGED <<inputVars, processVars, frame_lock, down, open, phase, outputVars,
                   alive, got, out, printed>>

\* The worker's stdin has drained.
RelayDrained ==
    /\ relay = "stdin" /\ alive /\ Len(stdin) <= Room
    /\ relay' = "read"
    /\ UNCHANGED <<inputVars, processVars, linkVars, phase, outputVars, workerVars>>

\* docker stop or docker kill returns, and may have failed.
DockerControl ==
    /\ relay \in {"stop", "kill"}
    /\ relay' = "read" /\ alive' \in {alive, FALSE}
    /\ UNCHANGED <<inputVars, processVars, linkVars, phase, outputVars, stdin, got, out, printed>>

\* The connection ended, or the worker did while its stdin was written.
RelayEnds ==
    /\ \/ relay = "read" /\ up = <<>> /\ ~open
       \/ relay \in {"read", "stdin"} /\ ~alive
    /\ relay' = "ended"
    /\ UNCHANGED <<inputVars, processVars, linkVars, phase, outputVars, workerVars>>

-----------------------------------------------------------------------------
(* The broker: output and supervision *)

\* _OutputBudget.consume; its answer is n <= remaining.
Consume(n) ==
    IF n > remaining THEN exceeded' = TRUE /\ UNCHANGED remaining
                     ELSE remaining' = remaining - n /\ UNCHANGED exceeded

\* _pump_output reads a chunk of n bytes, and sends it within the budget.
Pump(s, n) ==
    /\ pump[s] /\ n <= out[s] /\ open /\ Free(down)
    /\ out' = [out EXCEPT ![s] = @ - n]
    /\ Consume(n)
    /\ IF n > remaining
       THEN pump' = [pump EXCEPT ![s] = FALSE] /\ UNCHANGED down
       ELSE down' = Append(down, <<s, n>>) /\ UNCHANGED pump
    /\ UNCHANGED <<inputVars, processVars, frame_lock, up, open, taskVars, alive, stdin, got, printed>>

\* The worker's output has ended, or a chunk cannot be sent.
PumpEnds(s) ==
    /\ pump[s]
    /\ IF out[s] = 0 THEN ~alive ELSE ~open
    /\ pump' = [pump EXCEPT ![s] = FALSE]
    /\ UNCHANGED <<inputVars, processVars, linkVars, taskVars, remaining, exceeded, workerVars>>

\* Mutant: there is no wall time.
SuperviseForever ==
    /\ phase = "supervise"
    /\ ~alive \/ relay = "ended" \/ exceeded
    /\ alive' = FALSE /\ relay' = "ended" /\ phase' = "pumps"
    /\ UNCHANGED <<inputVars, processVars, linkVars, outputVars, stdin, got, out, printed>>

\* The worker has ended, or the relay, the output budget or, at any time, the
\* wall time makes the broker kill it; then the relay is cancelled.
Supervise ==
    /\ phase = "supervise"
    /\ alive' = FALSE /\ relay' = "ended" /\ phase' = "pumps"
    /\ UNCHANGED <<inputVars, processVars, linkVars, outputVars, stdin, got, out, printed>>

\* Mutant: EXIT does not wait for the transport.
SendExitAtOnce ==
    /\ phase = "pumps" /\ \A s \in Streams : ~pump[s]
    /\ down' = IF open THEN Append(down, <<"exit", 0>>) ELSE down
    /\ phase' = "closed" /\ open' = FALSE
    /\ UNCHANGED <<inputVars, processVars, frame_lock, up, relay, outputVars, workerVars>>

\* Mutant: EXIT does not wait for the pumps.
SendExitEarly ==
    /\ phase = "pumps"
    /\ ~open \/ Free(down)
    /\ down' = IF open THEN Append(down, <<"exit", 0>>) ELSE down
    /\ phase' = "closed" /\ open' = FALSE
    /\ UNCHANGED <<inputVars, processVars, frame_lock, up, relay, outputVars, workerVars>>

\* Both pumps have ended; _safe_send ignores a connection that is gone.
SendExit ==
    /\ phase = "pumps" /\ \A s \in Streams : ~pump[s]
    /\ ~open \/ Free(down)
    /\ down' = IF open THEN Append(down, <<"exit", 0>>) ELSE down
    /\ phase' = "closed" /\ open' = FALSE
    /\ UNCHANGED <<inputVars, processVars, frame_lock, up, relay, outputVars, workerVars>>

\* The broker's process dies; the worker does not.
Crash ==
    /\ phase \in {"supervise", "pumps"}
    /\ phase' = "crashed" /\ relay' = "ended" /\ open' = FALSE
    /\ pump' = [s \in Streams |-> FALSE]
    /\ UNCHANGED <<inputVars, processVars, frame_lock, up, down, remaining, exceeded, workerVars>>

-----------------------------------------------------------------------------
(* The worker, which nothing obliges to read *)

ReadStdin ==
    /\ alive /\ stdin # <<>>
    /\ got' = Append(got, Head(stdin)) /\ stdin' = Tail(stdin)
    /\ UNCHANGED <<inputVars, processVars, linkVars, taskVars, outputVars, alive, out, printed>>

WorkerPrints(s) ==
    /\ alive /\ printed[s] < MaxPrint
    /\ printed' = [printed EXCEPT ![s] = @ + 1]
    /\ out' = [out EXCEPT ![s] = @ + 1]
    /\ UNCHANGED <<inputVars, processVars, linkVars, taskVars, outputVars, alive, stdin, got>>

Exit ==
    /\ alive /\ alive' = FALSE
    /\ UNCHANGED <<inputVars, processVars, linkVars, taskVars, outputVars, stdin, got, out, printed>>

-----------------------------------------------------------------------------
Next ==
    \/ \E w \in Writers : Write(w) \/ Drain(w) \/ SendChunk(w) \/ Drained(w) \/ Cancel(w)
    \/ \E k \in Controls : Ask(k)
    \/ SendControl \/ SendControlFails \/ Flushed
    \/ Receive \/ \E c \in {"exit", "lost"} : ReceiveEnds(c)
    \/ RelayRead \/ RelayDrained \/ DockerControl \/ RelayEnds
    \/ \E s \in Streams : PumpEnds(s) \/ WorkerPrints(s) \/ \E n \in 1..MaxPrint : Pump(s, n)
    \/ Supervise \/ SendExit \/ Crash
    \/ ReadStdin \/ Exit

\* The tasks of both event loops are scheduled, timers fire, and a docker
\* command returns within its timeout.  The worker owes nothing.
Fairness ==
    /\ \A w \in Writers : WF_vars(Drain(w)) /\ WF_vars(SendChunk(w)) /\ WF_vars(Drained(w))
    /\ WF_vars(Ask("kill")) /\ WF_vars(SendControl) /\ WF_vars(SendControlFails)
    /\ WF_vars(Flushed)
    /\ WF_vars(Receive) /\ \A c \in {"exit", "lost"} : WF_vars(ReceiveEnds(c))
    /\ WF_vars(RelayRead) /\ WF_vars(RelayDrained) /\ WF_vars(DockerControl) /\ WF_vars(RelayEnds)
    /\ \A s \in Streams : WF_vars(PumpEnds(s)) /\ WF_vars(\E n \in 1..MaxPrint : Pump(s, n))
    /\ WF_vars(Supervise) /\ WF_vars(SendExit)

Spec == Init /\ [][Next]_vars
FairSpec == Spec /\ Fairness

-----------------------------------------------------------------------------
Increasing(s) == \A i, j \in 1..Len(s) : i < j => s[i] < s[j]

ChunksOf(s) == {s[i] : i \in 1..Len(s)}

\* The frames that carry input.
InFlight == {i \in 1..Len(up) : up[i][1] = "stdin"}

\* The chunks on their way: read, in the pipe, on the connection, taken by a
\* drain, and pending.
Path == <<ChunksOf(got), ChunksOf(stdin), {up[i][2] : i \in InFlight},
          ChunksOf(batch), ChunksOf(pending)>>

\* Serial input reaches the worker in the order in which it was written and
\* no chunk twice, although several writers share the pending list and each
\* drain sends what it finds there: in each place and from place to place the
\* chunks ahead are older.
StdinInOrder ==
    /\ \A s \in {got, stdin, batch, pending} : Increasing(s)
    /\ \A i, j \in InFlight : i < j => up[i][2] < up[j][2]
    /\ \A m, n \in 1..5 : m < n => \A x \in Path[m], y \in Path[n] : x < y

\* A service that learns the worker's exit code has received everything the
\* worker printed, unless the output limit ended it: EXIT follows the output
\* of both pumps.  Together they never deliver more than the limit.
OutputIsDelivered ==
    /\ returncode = "exit" /\ ~exceeded => received = printed
    /\ received["stdout"] + received["stderr"] <= Limit

\* A worker that was asked to end is reported as ended, even when it does not
\* read its input and the request is queued behind input that it will not
\* read, and even when the docker commands fail or the broker dies.
\* _terminate_worker, which awaits this after kill, has no timeout of its own.
TerminateEnds == asked # None ~> returncode # None
=============================================================================
