---------------------------- MODULE SerialStream ----------------------------
(***************************************************************************)
(* The serial output of a session (sessions.py: _read_serial, _publish,    *)
(* subscribe_serial; api.py: the serial WebSocket).  The reader appends    *)
(* the worker's chunks to a bounded buffer and puts them on the bounded    *)
(* queue of every subscriber.  A client first gets the buffer, one send    *)
(* after the other, then registers a queue and follows it until None, the  *)
(* end-of-stream marker.  Sending to a slow client suspends the stream,    *)
(* and everything else goes on.                                            *)
(*                                                                         *)
(* The session's own operations are taken one at a time, as SessionLife-   *)
(* cycle shows them to be without overlapping replays; what is kept of     *)
(* each is its effect on the stream, in its order: release the worker,     *)
(* then clear, change the state, publish None or not.                      *)
(***************************************************************************)
EXTENDS Naturals, Sequences

CONSTANTS
    Clients,
    BufferSize,     \* maxlen of serial_buffer (256)
    QueueSize,      \* maxsize of a subscriber's queue (128)
    MaxChunks,      \* bound: chunks one worker prints
    MaxBoots,       \* bound: workers of the session
    None            \* the end-of-stream marker

ASSUME SerialAssumption ==
    /\ BufferSize \in Nat \ {0}
    /\ QueueSize \in Nat \ {0}
    /\ MaxChunks \in Nat
    /\ MaxBoots \in Nat \ {0}

VARIABLES
    state,          \* "starting", "running", "powered_off" or "ended"
    process,        \* does the session refer to its worker?
    pending,        \* the operation that has released the worker: "none",
                    \* "power_off", "replay" or "stop"
    launch,         \* who launched the worker: "create", "power_on", "replay"
    boot,           \* which worker it is; history
    printed,        \* chunks it has printed; history
    serial_buffer,
    subscribers,    \* clients whose queue is registered
    queue,
    stream,         \* what subscribe_serial does for each client
    position,       \* chunks of the buffer it has yielded
    mutated,        \* was serial_buffer changed since the iteration began?
    received        \* the chunks a client was sent; history

sessionVars == <<state, process, pending, launch, boot, printed>>
streamVars  == <<stream, position, received>>
vars == <<sessionVars, serial_buffer, subscribers, queue, mutated, streamVars>>

Chunks == [boot : 1 .. MaxBoots, n : 1 .. MaxChunks]
Live   == {"running"}   \* running or paused: the serial port does not tell

TypeOK ==
    /\ state \in {"starting", "running", "powered_off", "ended"}
    /\ process \in BOOLEAN
    /\ pending \in {"none", "power_off", "replay", "stop"}
    /\ launch \in {"create", "power_on", "replay"}
    /\ boot \in 1 .. MaxBoots
    /\ printed \in 0 .. MaxChunks
    /\ serial_buffer \in Seq(Chunks) /\ Len(serial_buffer) <= BufferSize
    /\ subscribers \subseteq Clients
    /\ \A c \in Clients : Len(queue[c]) <= QueueSize
    /\ stream \in [Clients -> {"none", "replaying", "live", "ended", "broken"}]
    /\ position \in [Clients -> 0 .. BufferSize]
    /\ mutated \in [Clients -> BOOLEAN]
    /\ \A c \in Clients : received[c] \in Seq(Chunks)

Init ==
    /\ state = "starting"
    /\ process = TRUE
    /\ pending = "none"
    /\ launch = "create"
    /\ boot = 1
    /\ printed = 0
    /\ serial_buffer = <<>>
    /\ subscribers = {}
    /\ queue = [c \in Clients |-> <<>>]
    /\ stream = [c \in Clients |-> "none"]
    /\ position = [c \in Clients |-> 0]
    /\ mutated = [c \in Clients |-> FALSE]
    /\ received = [c \in Clients |-> <<>>]

-----------------------------------------------------------------------------
(* The buffer and the subscribers.                                         *)

\* Mutant: a queue may grow without bound.
FullNever == {}

Full == {c \in subscribers : Len(queue[c]) >= QueueSize}

\* _publish: a queue that is full loses its registration.
Publish(item) ==
    /\ queue' = [c \in Clients |-> IF c \in subscribers \ Full
                                   THEN Append(queue[c], item) ELSE queue[c]]
    /\ subscribers' = subscribers \ Full

\* Mutant: a changed deque goes unnoticed by the iterations over it.
DequeChangesUnnoticed(new) ==
    /\ serial_buffer' = new
    /\ UNCHANGED mutated

\* A change of the deque invalidates the iterations over it.
DequeChanges(new) ==
    /\ serial_buffer' = new
    /\ mutated' = [c \in Clients |-> mutated[c] \/ new # serial_buffer]

BufferWith(chunk) ==
    IF Len(serial_buffer) < BufferSize THEN Append(serial_buffer, chunk)
                                       ELSE Append(Tail(serial_buffer), chunk)

\* _read_serial: one chunk of the current worker.
Output ==
    /\ process
    /\ printed < MaxChunks
    /\ printed' = printed + 1
    /\ LET chunk == [boot |-> boot, n |-> printed + 1]
       IN  DequeChanges(BufferWith(chunk)) /\ Publish(chunk)
    /\ UNCHANGED <<state, process, pending, launch, boot, streamVars>>

-----------------------------------------------------------------------------
(* The session.                                                            *)

Ready ==
    /\ state = "starting" /\ process
    /\ state' = "running"
    /\ UNCHANGED <<process, pending, launch, boot, printed,
                   serial_buffer, subscribers, queue, mutated, streamVars>>

\* _terminate_worker: output that still comes is not the session's any more.
Release(operation) ==
    /\ pending = "none"
    /\ operation = "stop" \/ state = "running"
    /\ operation = "replay" => boot < MaxBoots
    /\ pending' = operation
    /\ process' = FALSE
    /\ UNCHANGED <<state, launch, boot, printed,
                   serial_buffer, subscribers, queue, mutated, streamVars>>

\* Mutant: power off without the end-of-stream marker.
FinishPowerOffSilently ==
    /\ pending = "power_off"
    /\ pending' = "none"
    /\ state' = "powered_off"
    /\ UNCHANGED <<process, launch, boot, printed,
                   serial_buffer, subscribers, queue, mutated, streamVars>>

FinishPowerOff ==
    /\ pending = "power_off"
    /\ pending' = "none"
    /\ state' = "powered_off"
    /\ Publish(None)
    /\ UNCHANGED <<process, launch, boot, printed, serial_buffer, mutated, streamVars>>

\* stop: the buffer is cleared before the marker is published.
FinishStop ==
    /\ pending = "stop"
    /\ pending' = "none"
    /\ state' = "ended"
    /\ DequeChanges(<<>>)
    /\ Publish(None)
    /\ UNCHANGED <<process, launch, boot, printed, streamVars>>

\* A new worker: _power_on_worker and _run_replay clear the buffer; neither
\* publishes anything.
Boot ==
    /\ boot < MaxBoots
    /\ \/ pending = "replay" /\ launch' = "replay"
       \/ pending = "none" /\ state = "powered_off" /\ launch' = "power_on"
    /\ pending' = "none"
    /\ state' = "starting"
    /\ process' = TRUE
    /\ boot' = boot + 1
    /\ printed' = 0
    /\ DequeChanges(<<>>)
    /\ UNCHANGED <<subscribers, queue, streamVars>>

\* The launch fails: only _power_on_worker publishes the marker.
LaunchFails ==
    /\ state = "starting" /\ process
    /\ state' = "ended"
    /\ process' = FALSE
    /\ DequeChanges(<<>>)
    /\ IF launch = "power_on" THEN Publish(None) ELSE UNCHANGED <<subscribers, queue>>
    /\ UNCHANGED <<pending, launch, boot, printed, streamVars>>

\* _read_serial: the worker has ended by itself.
WorkerExits ==
    /\ process
    /\ process' = FALSE
    /\ state' = "ended"
    /\ Publish(None)
    /\ DequeChanges(<<>>)
    /\ UNCHANGED <<pending, launch, boot, printed, streamVars>>

-----------------------------------------------------------------------------
(* A client's stream.                                                      *)

\* subscribe_serial from the head of its loop over the buffer up to the next
\* suspension, with `at' chunks already yielded: the iteration breaks, yields
\* one more chunk, or is over; then the stream ends or registers its queue.
Advance(c, at, broken) ==
    IF broken THEN
        /\ stream' = [stream EXCEPT ![c] = "broken"]
        /\ UNCHANGED <<position, received, subscribers, queue>>
    ELSE IF at < Len(serial_buffer) THEN
        /\ stream' = [stream EXCEPT ![c] = "replaying"]
        /\ position' = [position EXCEPT ![c] = at + 1]
        /\ received' = [received EXCEPT ![c] = Append(@, serial_buffer[at + 1])]
        /\ UNCHANGED <<subscribers, queue>>
    ELSE IF state \notin Live THEN
        /\ stream' = [stream EXCEPT ![c] = "ended"]
        /\ UNCHANGED <<position, received, subscribers, queue>>
    ELSE
        /\ stream' = [stream EXCEPT ![c] = "live"]
        /\ subscribers' = subscribers \cup {c}
        /\ queue' = [queue EXCEPT ![c] = <<>>]
        /\ UNCHANGED <<position, received>>

Subscribe(c) ==
    /\ stream[c] = "none"
    /\ mutated' = [mutated EXCEPT ![c] = FALSE]
    /\ Advance(c, 0, FALSE)
    /\ UNCHANGED <<sessionVars, serial_buffer>>

\* The send of a buffered chunk is over.
NextBuffered(c) ==
    /\ stream[c] = "replaying"
    /\ Advance(c, position[c], mutated[c])
    /\ UNCHANGED <<sessionVars, serial_buffer, mutated>>

\* The send of the last chunk is over, and the queue has another item.
NextQueued(c) ==
    /\ stream[c] = "live"
    /\ queue[c] # <<>>
    /\ queue' = [queue EXCEPT ![c] = Tail(@)]
    /\ IF Head(queue[c]) = None
       THEN /\ stream' = [stream EXCEPT ![c] = "ended"]
            /\ subscribers' = subscribers \ {c}
            /\ UNCHANGED received
       ELSE /\ received' = [received EXCEPT ![c] = Append(@, Head(queue[c]))]
            /\ UNCHANGED <<stream, subscribers>>
    /\ UNCHANGED <<sessionVars, serial_buffer, mutated, position>>

\* The client goes away; the generator's finally clause runs.
Disconnect(c) ==
    /\ stream[c] \in {"replaying", "live"}
    /\ stream' = [stream EXCEPT ![c] = "ended"]
    /\ subscribers' = subscribers \ {c}
    /\ UNCHANGED <<sessionVars, serial_buffer, queue, mutated, position, received>>

-----------------------------------------------------------------------------
SessionNext ==
    \/ Output \/ Ready
    \/ Release("power_off") \/ Release("replay") \/ Release("stop")
    \/ FinishPowerOff \/ FinishStop \/ Boot \/ LaunchFails \/ WorkerExits

StreamNext(c) == NextBuffered(c) \/ NextQueued(c)

Next == SessionNext \/ \E c \in Clients : Subscribe(c) \/ StreamNext(c) \/ Disconnect(c)

Spec == Init /\ [][Next]_vars

\* The event loop resumes a stream whose send is over, sends do get over,
\* and a power off that has released its worker goes on.
FairSpec == /\ Spec
            /\ WF_vars(FinishPowerOff)
            /\ \A c \in Clients : WF_vars(StreamNext(c))

-----------------------------------------------------------------------------
Follows(x, y) == \/ y = [x EXCEPT !.n = @ + 1]
                 \/ y.boot > x.boot /\ y.n = 1

(* What a client is sent has no hole and no repetition, over the seam      *)
(* between the replayed buffer and the live queue and over the start of a  *)
(* new worker, whatever the buffer and the queue had to drop               *)
(* (subscribe_serial with _publish).                                       *)
StreamIsContiguous ==
    \A c \in Clients : \A i \in 1 .. Len(received[c]) - 1 :
        Follows(received[c][i], received[c][i + 1])

(* A stream whose client keeps up ends when the worker is powered off: a   *)
(* registered queue gets the marker behind everything that was printed     *)
(* before (_power_off_worker, _publish).                                   *)
PowerOffEndsStreams ==
    \A c \in Clients :
        (state = "powered_off" /\ c \in subscribers) ~> stream[c] # "live"

(* "Power off terminates the worker and closes framebuffer, UART, input,   *)
(* and debug streams" (docs/architecture.md): no stream stays open while   *)
(* its session stays powered off.                                          *)
PowerOffClosesUart ==
    \A c \in Clients :
        (state = "powered_off" /\ stream[c] = "live")
            ~> (stream[c] # "live" \/ state # "powered_off")

(* "The server replays a bounded recent-output buffer when a debugger      *)
(* connects" (docs/protocol.md): the replay of the buffer does not fail    *)
(* because the worker prints meanwhile.                                    *)
BufferIsReplayed ==
    \A c \in Clients : stream[c] = "broken" => state \notin Live
=============================================================================
