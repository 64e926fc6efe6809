------------------------- MODULE SerialStreamProofs -------------------------
(***************************************************************************)
(* Proofs about SerialStream, for every number of clients, every size of   *)
(* the buffer and of the queues, and any number of chunks and workers.     *)
(***************************************************************************)
EXTENDS SerialStream, TLAPS

SessionTypes ==
    /\ state \in {"starting", "running", "powered_off", "ended"}
    /\ process \in BOOLEAN
    /\ pending \in {"none", "power_off", "replay", "stop"}
    /\ launch \in {"create", "power_on", "replay"}
    /\ boot \in 1 .. MaxBoots
    /\ printed \in 0 .. MaxChunks

\* The buffer holds the last chunks of the current worker.
BufferIsTail ==
    /\ serial_buffer \in Seq(Chunks) /\ Len(serial_buffer) <= BufferSize
    /\ Len(serial_buffer) <= printed
    /\ \A i \in 1 .. Len(serial_buffer) :
           serial_buffer[i] = [boot |-> boot, n |-> printed - Len(serial_buffer) + i]

ClientTypes ==
    /\ stream \in [Clients -> {"none", "replaying", "live", "ended", "broken"}]
    /\ position \in [Clients -> 0 .. BufferSize]
    /\ mutated \in [Clients -> BOOLEAN]
    /\ received \in [Clients -> Seq(Chunks)]
    /\ \A c \in Clients : stream[c] = "none" => received[c] = <<>>

\* A client that is being sent an unchanged buffer has been sent it up to
\* its position.
ReplayingIsAt ==
    \A c \in Clients : (stream[c] = "replaying" /\ ~mutated[c]) =>
        /\ position[c] \in 1 .. Len(serial_buffer)
        /\ received[c] # <<>>
        /\ received[c][Len(received[c])] = serial_buffer[position[c]]

\* Only the streams that follow their queue are registered.
QueueTypes ==
    /\ subscribers \subseteq Clients
    /\ queue \in [Clients -> Seq(Chunks \cup {None})]
    /\ \A c \in Clients : Len(queue[c]) <= QueueSize
    /\ \A c \in subscribers : stream[c] = "live"

\* Within a queue, every chunk follows the chunk before it.
Linked(q) ==
    \A i \in 1 .. Len(q) - 1 :
        (q[i] # None /\ q[i + 1] # None) => Follows(q[i], q[i + 1])

\* What waits in a queue follows what its client was sent.
Joined(r, q) ==
    (r # <<>> /\ q # <<>> /\ q[1] # None) => Follows(r[Len(r)], q[1])

\* The next chunk that the worker prints follows chunk x.
NextFollows(x) == \/ x.boot = boot /\ x.n = printed
                  \/ x.boot < boot /\ printed = 0

\* The last chunk that a client was sent, or that waits for it, is the last
\* that was printed.
UpToDate(r, q) ==
    /\ (q # <<>> /\ q[Len(q)] # None) => NextFollows(q[Len(q)])
    /\ (q = <<>> /\ r # <<>>) => NextFollows(r[Len(r)])

QueuesFollow ==
    /\ \A c \in Clients : Linked(queue[c])
    /\ \A c \in Clients : stream[c] = "live" => Joined(received[c], queue[c])
    /\ \A c \in subscribers : UpToDate(received[c], queue[c])

StreamInv ==
    /\ SessionTypes /\ ClientTypes /\ QueueTypes
    /\ BufferIsTail /\ ReplayingIsAt /\ QueuesFollow /\ StreamIsContiguous

-----------------------------------------------------------------------------
(* Sequences that grow at the end and shrink at the front *)

LEMMA LinkedAppend ==
    ASSUME NEW S, NEW q \in Seq(S), NEW x \in S, Linked(q),
           (q # <<>> /\ q[Len(q)] # None /\ x # None) => Follows(q[Len(q)], x)
    PROVE  Linked(Append(q, x))
<1> DEFINE a == Append(q, x)
<1>1. /\ Len(q) \in Nat /\ Len(a) = Len(q) + 1 /\ a[Len(q) + 1] = x
      /\ \A i \in 1 .. Len(q) : a[i] = q[i]
  OBVIOUS
<1> HIDE DEF a
<1> SUFFICES ASSUME NEW i \in 1 .. Len(q), a[i] # None, a[i + 1] # None
             PROVE  Follows(a[i], a[i + 1])
  BY <1>1 DEF Linked, a
<1>2. CASE i = Len(q)
  <2>1. q # <<>> /\ a[i] = q[Len(q)] /\ a[i + 1] = x
    BY <1>1, <1>2
  <2> QED
    BY <2>1
<1>3. CASE i < Len(q)
  <2>1. i \in 1 .. Len(q) - 1 /\ a[i] = q[i] /\ a[i + 1] = q[i + 1]
    BY <1>1, <1>3
  <2> QED
    BY <2>1 DEF Linked
<1> QED
  BY <1>1, <1>2, <1>3

LEMMA HeadAndTail ==
    ASSUME NEW S, NEW q \in Seq(S), q # <<>>
    PROVE  /\ Tail(q) \in Seq(S) /\ Len(Tail(q)) <= Len(q)
           /\ Head(q) \in S /\ Head(q) = q[1]
           /\ Tail(q) # <<>> => Tail(q)[Len(Tail(q))] = q[Len(q)]
           /\ Tail(q) = <<>> => q[Len(q)] = Head(q)
<1>1. /\ Tail(q) \in Seq(S) /\ Len(q) \in Nat \ {0} /\ Len(Tail(q)) = Len(q) - 1
      /\ \A i \in 1 .. Len(q) - 1 : Tail(q)[i] = q[i + 1]
  OBVIOUS
<1>2. Head(q) = q[1] /\ q[1] \in S
  OBVIOUS
<1>3. Tail(q) # <<>> => Tail(q)[Len(Tail(q))] = q[Len(q)]
  BY <1>1
<1>4. Tail(q) = <<>> => Len(q) = 1
  <2>1. Len(<<>>) = 0
    OBVIOUS
  <2>2. Tail(q) = <<>> => Len(q) - 1 = 0
    BY <1>1, <2>1
  <2> QED
    BY <1>1, <2>2
<1> QED
  BY <1>1, <1>2, <1>3, <1>4

LEMMA LinkedTail ==
    ASSUME NEW S, NEW q \in Seq(S), q # <<>>, Linked(q)
    PROVE  /\ Linked(Tail(q))
           /\ (Tail(q) # <<>> /\ q[1] # None /\ Tail(q)[1] # None)
                  => Follows(q[1], Tail(q)[1])
<1> DEFINE t == Tail(q)
<1>1. /\ t \in Seq(S) /\ Len(q) \in Nat \ {0} /\ Len(t) = Len(q) - 1
      /\ \A i \in 1 .. Len(t) : t[i] = q[i + 1]
  OBVIOUS
<1> HIDE DEF t
<1>2. ASSUME NEW i \in 1 .. Len(t) - 1, t[i] # None, t[i + 1] # None
      PROVE  Follows(t[i], t[i + 1])
  <2>1. /\ i + 1 \in 1 .. Len(q) - 1
        /\ t[i] = q[i + 1] /\ t[i + 1] = q[(i + 1) + 1]
    BY <1>1
  <2> QED
    BY <1>2, <2>1 DEF Linked
<1>3. ASSUME t # <<>>, q[1] # None, t[1] # None
      PROVE  Follows(q[1], t[1])
  <2>1. 1 \in 1 .. Len(q) - 1 /\ t[1] = q[1 + 1]
    BY <1>1, <1>3
  <2> QED
    BY <1>3, <2>1 DEF Linked
<1> QED
  BY <1>2, <1>3 DEF Linked, t

Contiguous(r) == \A i \in 1 .. Len(r) - 1 : Follows(r[i], r[i + 1])

LEMMA ContiguousAppend ==
    ASSUME NEW S, NEW r \in Seq(S), NEW x \in S, Contiguous(r),
           r # <<>> => Follows(r[Len(r)], x)
    PROVE  Contiguous(Append(r, x))
<1> DEFINE a == Append(r, x)
<1>1. /\ Len(r) \in Nat /\ Len(a) = Len(r) + 1 /\ a[Len(r) + 1] = x
      /\ \A i \in 1 .. Len(r) : a[i] = r[i]
  OBVIOUS
<1> HIDE DEF a
<1> SUFFICES ASSUME NEW i \in 1 .. Len(r) PROVE Follows(a[i], a[i + 1])
  BY <1>1 DEF Contiguous, a
<1>2. CASE i = Len(r)
  <2>1. r # <<>> /\ a[i] = r[Len(r)] /\ a[i + 1] = x
    BY <1>1, <1>2
  <2> QED
    BY <2>1
<1>3. CASE i < Len(r)
  <2>1. i \in 1 .. Len(r) - 1 /\ a[i] = r[i] /\ a[i + 1] = r[i + 1]
    BY <1>1, <1>3
  <2> QED
    BY <2>1 DEF Contiguous
<1> QED
  BY <1>1, <1>2, <1>3

\* A client that is sent one more chunk.
LEMMA SentFollows ==
    ASSUME StreamInv, NEW c \in Clients, NEW x \in Chunks,
           received' = [received EXCEPT ![c] = Append(@, x)],
           received[c] # <<>> => Follows(received[c][Len(received[c])], x)
    PROVE  StreamIsContiguous'
<1>1. received[c] \in Seq(Chunks) /\ Contiguous(received[c])
  BY DEF StreamInv, ClientTypes, StreamIsContiguous, Contiguous
<1>2. Contiguous(Append(received[c], x))
  BY <1>1, ContiguousAppend
<1>3. \A e \in Clients : received'[e] = IF e = c THEN Append(received[c], x) ELSE received[e]
  BY DEF StreamInv, ClientTypes
<1>4. \A e \in Clients : Contiguous(received'[e])
  BY <1>2, <1>3 DEF StreamInv, StreamIsContiguous, Contiguous
<1> QED
  BY <1>4 DEF StreamIsContiguous, Contiguous

-----------------------------------------------------------------------------
(* What is published, and what happens to the buffer *)

\* _publish puts the item behind every queue that stays registered.
LEMMA PublishEffect ==
    ASSUME QueueTypes, NEW item \in Chunks \cup {None}, Publish(item)
    PROVE  /\ queue' \in [Clients -> Seq(Chunks \cup {None})]
           /\ subscribers' \subseteq subscribers
           /\ \A c \in Clients : Len(queue'[c]) <= QueueSize
           /\ \A c \in subscribers' : queue'[c] = Append(queue[c], item)
           /\ \A c \in Clients \ subscribers' : queue'[c] = queue[c]
<1> DEFINE S == Chunks \cup {None}
<1>1. \A c \in Clients : queue[c] \in Seq(S) /\ Len(queue[c]) <= QueueSize
  BY DEF QueueTypes
<1> item \in S
  OBVIOUS
<1> HIDE DEF S
<1>2. subscribers' = subscribers \ Full /\ subscribers' \subseteq Clients
  BY DEF QueueTypes, Publish
<1>3. \A c \in Clients : queue'[c] = IF c \in subscribers'
                                     THEN Append(queue[c], item) ELSE queue[c]
  BY <1>2 DEF Publish
<1>4. ASSUME NEW c \in Clients
      PROVE  /\ Append(queue[c], item) \in Seq(S)
             /\ Len(queue[c]) \in Nat
             /\ Len(Append(queue[c], item)) = Len(queue[c]) + 1
  <2>1. queue[c] \in Seq(S)
    BY <1>1
  <2> QED
    BY <2>1
<1>5. \A c \in subscribers' : Len(queue[c]) < QueueSize
  BY <1>2, <1>4, SerialAssumption DEF Full
<1>6. queue' \in [Clients -> Seq(S)]
  BY <1>1, <1>4 DEF Publish
<1>7. ASSUME NEW c \in Clients
      PROVE  Len(queue'[c]) <= QueueSize
  <2>1. CASE c \in subscribers'
    <3>1. /\ Len(queue'[c]) = Len(queue[c]) + 1 /\ Len(queue[c]) < QueueSize
          /\ Len(queue[c]) \in Nat
      BY <1>3, <1>4, <1>5, <2>1
    <3> QED
      BY <3>1, SerialAssumption
  <2>2. CASE c \notin subscribers'
    BY <1>1, <1>3, <2>2
  <2> QED
    BY <2>1, <2>2
<1> QED
  BY <1>2, <1>3, <1>6, <1>7 DEF S

\* The end-of-stream marker may follow anything.
LEMMA MarkerFollows ==
    ASSUME StreamInv, Publish(None), UNCHANGED <<boot, printed, stream, received>>
    PROVE  QueueTypes' /\ QueuesFollow'
<1> USE DEF StreamInv
<1>1. /\ queue' \in [Clients -> Seq(Chunks \cup {None})]
      /\ subscribers' \subseteq subscribers
      /\ \A c \in Clients : Len(queue'[c]) <= QueueSize
      /\ \A c \in subscribers' : queue'[c] = Append(queue[c], None)
      /\ \A c \in Clients \ subscribers' : queue'[c] = queue[c]
  BY PublishEffect
<1>2. QueueTypes'
  BY <1>1 DEF QueueTypes
<1>3. ASSUME NEW c \in subscribers'
      PROVE  /\ Linked(queue'[c])
             /\ Joined(received[c], queue'[c])
             /\ UpToDate(received[c], queue[c])'
  <2>1. c \in Clients /\ queue[c] \in Seq(Chunks \cup {None}) /\ stream[c] = "live"
    BY <1>1 DEF QueueTypes
  <2>2. Linked(queue[c]) /\ Joined(received[c], queue[c])
    BY <2>1 DEF QueuesFollow
  <2>3. queue'[c] = Append(queue[c], None)
    BY <1>1
  <2>4. /\ Append(queue[c], None) # <<>>
        /\ Append(queue[c], None)[Len(Append(queue[c], None))] = None
        /\ queue[c] # <<>> => Append(queue[c], None)[1] = queue[c][1]
        /\ queue[c] = <<>> => Append(queue[c], None)[1] = None
    BY <2>1
  <2>5. Linked(Append(queue[c], None))
    BY <2>1, <2>2, LinkedAppend
  <2>6. Joined(received[c], Append(queue[c], None))
    BY <2>2, <2>4 DEF Joined
  <2> QED
    BY <2>3, <2>4, <2>5, <2>6 DEF UpToDate
<1>4. \A c \in Clients \ subscribers' : Linked(queue'[c])
  BY <1>1 DEF QueuesFollow
<1>5. \A c \in Clients \ subscribers' :
          stream[c] = "live" => Joined(received[c], queue'[c])
  BY <1>1 DEF QueuesFollow
<1> QED
  BY <1>2, <1>3, <1>4, <1>5 DEF QueuesFollow, UpToDate

\* The chunk that is printed follows what a registered client has.
LEMMA ChunkFollows ==
    ASSUME StreamInv, NEW chunk \in Chunks, chunk = [boot |-> boot, n |-> printed + 1],
           Publish(chunk), boot' = boot, printed' = printed + 1,
           UNCHANGED <<stream, received>>
    PROVE  QueueTypes' /\ QueuesFollow'
<1> USE DEF StreamInv
<1>1. /\ queue' \in [Clients -> Seq(Chunks \cup {None})]
      /\ subscribers' \subseteq subscribers
      /\ \A c \in Clients : Len(queue'[c]) <= QueueSize
      /\ \A c \in subscribers' : queue'[c] = Append(queue[c], chunk)
      /\ \A c \in Clients \ subscribers' : queue'[c] = queue[c]
  BY PublishEffect
<1>2. QueueTypes'
  BY <1>1 DEF QueueTypes
<1>3. ASSUME NEW x \in Chunks, NextFollows(x)
      PROVE  Follows(x, chunk)
  BY <1>3 DEF NextFollows, Follows, Chunks, SessionTypes
<1>4. NextFollows(chunk)'
  BY DEF NextFollows
<1>5. ASSUME NEW c \in subscribers'
      PROVE  /\ Linked(queue'[c])
             /\ Joined(received[c], queue'[c])
             /\ UpToDate(received[c], queue[c])'
  <2>1. /\ c \in Clients /\ queue[c] \in Seq(Chunks \cup {None}) /\ stream[c] = "live"
        /\ c \in subscribers /\ received[c] \in Seq(Chunks)
    BY <1>1 DEF QueueTypes, ClientTypes
  <2>2. Linked(queue[c]) /\ Joined(received[c], queue[c]) /\ UpToDate(received[c], queue[c])
    BY <2>1 DEF QueuesFollow
  <2>3. queue'[c] = Append(queue[c], chunk)
    BY <1>1
  <2>4. /\ Append(queue[c], chunk) # <<>>
        /\ Append(queue[c], chunk)[Len(Append(queue[c], chunk))] = chunk
        /\ queue[c] # <<>> => Append(queue[c], chunk)[1] = queue[c][1]
        /\ queue[c] = <<>> => Append(queue[c], chunk)[1] = chunk
    BY <2>1
  <2>5. (queue[c] # <<>> /\ queue[c][Len(queue[c])] # None)
            => Follows(queue[c][Len(queue[c])], chunk)
    <3>1. queue[c] # <<>> => queue[c][Len(queue[c])] \in Chunks \cup {None}
      BY <2>1
    <3> QED
      BY <1>3, <2>2, <3>1 DEF UpToDate
  <2>6. Linked(Append(queue[c], chunk))
    BY <2>1, <2>2, <2>5, LinkedAppend
  <2>7. (queue[c] = <<>> /\ received[c] # <<>>)
            => Follows(received[c][Len(received[c])], chunk)
    <3>1. received[c] # <<>> => received[c][Len(received[c])] \in Chunks
      BY <2>1
    <3> QED
      BY <1>3, <2>2, <3>1 DEF UpToDate
  <2>8. Joined(received[c], Append(queue[c], chunk))
    BY <2>2, <2>4, <2>7 DEF Joined
  <2> QED
    BY <1>4, <2>3, <2>4, <2>6, <2>8 DEF UpToDate
<1>6. \A c \in Clients \ subscribers' : Linked(queue'[c])
  BY <1>1 DEF QueuesFollow
<1>7. \A c \in Clients \ subscribers' :
          stream[c] = "live" => Joined(received[c], queue'[c])
  BY <1>1 DEF QueuesFollow
<1> QED
  BY <1>2, <1>5, <1>6, <1>7 DEF QueuesFollow, UpToDate

\* The buffer is cleared.
LEMMA ClearedBuffer ==
    ASSUME StreamInv, DequeChanges(<<>>), printed' \in Nat,
           UNCHANGED <<stream, position, received>>
    PROVE  BufferIsTail' /\ ReplayingIsAt' /\ ClientTypes'
<1> USE DEF StreamInv
<1>1. serial_buffer' = <<>> /\ mutated' \in [Clients -> BOOLEAN]
  BY DEF DequeChanges
<1>2. BufferIsTail'
  BY <1>1, SerialAssumption DEF BufferIsTail
<1>3. ASSUME NEW c \in Clients, stream[c] = "replaying"
      PROVE  mutated'[c]
  <2>1. mutated[c] \/ serial_buffer # <<>>
    BY <1>3 DEF ReplayingIsAt
  <2>2. mutated'[c] = (mutated[c] \/ <<>> # serial_buffer)
    BY DEF DequeChanges
  <2> QED
    BY <2>1, <2>2
<1> QED
  BY <1>1, <1>2, <1>3 DEF ReplayingIsAt, ClientTypes

\* The buffer gets the chunk that is printed, and loses its oldest when full:
\* it changes in any case.
LEMMA GrownBuffer ==
    ASSUME StreamInv, NEW chunk \in Chunks, chunk = [boot |-> boot, n |-> printed + 1],
           DequeChanges(BufferWith(chunk)), boot' = boot, printed' = printed + 1,
           UNCHANGED <<stream, position, received>>
    PROVE  BufferIsTail' /\ ReplayingIsAt' /\ ClientTypes'
<1> DEFINE b == serial_buffer
           new == BufferWith(chunk)
<1>1. /\ b \in Seq(Chunks) /\ Len(b) \in Nat /\ Len(b) <= BufferSize /\ Len(b) <= printed
      /\ \A i \in 1 .. Len(b) : b[i] = [boot |-> boot, n |-> printed - Len(b) + i]
      /\ printed \in Nat /\ boot \in Nat
  BY DEF StreamInv, BufferIsTail, SessionTypes
<1>2. /\ new \in Seq(Chunks) /\ Len(new) \in Nat \ {0}
      /\ Len(new) <= BufferSize /\ Len(new) <= printed + 1
      /\ \A i \in 1 .. Len(new) : new[i] = [boot |-> boot', n |-> printed' - Len(new) + i]
  <2>1. CASE Len(b) < BufferSize
    <3>1. new = Append(b, chunk)
      BY <2>1 DEF BufferWith
    <3>2. /\ Append(b, chunk) \in Seq(Chunks) /\ Len(Append(b, chunk)) = Len(b) + 1
          /\ \A i \in 1 .. Len(b) : Append(b, chunk)[i] = b[i]
          /\ Append(b, chunk)[Len(b) + 1] = chunk
      BY <1>1
    <3>3. ASSUME NEW i \in 1 .. Len(b) + 1
          PROVE  Append(b, chunk)[i] = [boot |-> boot', n |-> printed' - (Len(b) + 1) + i]
      <4>1. CASE i = Len(b) + 1
        <5>1. printed + 1 = printed' - (Len(b) + 1) + i
          BY <1>1, <4>1
        <5> QED
          BY <3>2, <4>1, <5>1
      <4>2. CASE i \in 1 .. Len(b)
        <5>1. printed - Len(b) + i = printed' - (Len(b) + 1) + i
          BY <1>1
        <5> QED
          BY <1>1, <3>2, <4>2, <5>1
      <4> QED
        BY <1>1, <4>1, <4>2
    <3> HIDE DEF new
    <3> QED
      BY <1>1, <2>1, <3>1, <3>2, <3>3, SerialAssumption
  <2>2. CASE ~(Len(b) < BufferSize)
    <3> DEFINE t == Tail(b)
    <3>1. new = Append(t, chunk)
      BY <2>2 DEF BufferWith
    <3>2. Len(b) = BufferSize /\ Len(b) > 0
      BY <1>1, <2>2, SerialAssumption
    <3>3. /\ t \in Seq(Chunks) /\ Len(t) = Len(b) - 1
          /\ \A i \in 1 .. Len(b) - 1 : t[i] = b[i + 1]
      BY <1>1, <3>2
    <3> HIDE DEF t
    <3>4. /\ Append(t, chunk) \in Seq(Chunks) /\ Len(Append(t, chunk)) = Len(b)
          /\ \A i \in 1 .. Len(b) - 1 : Append(t, chunk)[i] = t[i]
          /\ Append(t, chunk)[Len(b)] = chunk
      BY <1>1, <3>2, <3>3
    <3>5. ASSUME NEW i \in 1 .. Len(b)
          PROVE  Append(t, chunk)[i] = [boot |-> boot', n |-> printed' - Len(b) + i]
      <4>1. CASE i = Len(b)
        <5>1. printed + 1 = printed' - Len(b) + i
          BY <1>1, <4>1
        <5> QED
          BY <3>4, <4>1, <5>1
      <4>2. CASE i \in 1 .. Len(b) - 1
        <5>1. i + 1 \in 1 .. Len(b) /\ printed - Len(b) + (i + 1) = printed' - Len(b) + i
          BY <1>1, <4>2
        <5> QED
          BY <1>1, <3>3, <3>4, <4>2, <5>1
      <4>3. i = Len(b) \/ i \in 1 .. Len(b) - 1
        BY <1>1
      <4> QED
        BY <4>1, <4>2, <4>3
    <3> HIDE DEF new
    <3>6. Len(new) = Len(b) /\ new \in Seq(Chunks)
      BY <3>1, <3>4
    <3>7. \A i \in 1 .. Len(new) : new[i] = [boot |-> boot', n |-> printed' - Len(new) + i]
      BY <3>1, <3>5, <3>6
    <3> QED
      BY <1>1, <3>2, <3>6, <3>7, SerialAssumption
  <2> QED
    BY <2>1, <2>2
<1> HIDE DEF new
<1>3. new # b
  <2> SUFFICES ASSUME new = b PROVE FALSE
    OBVIOUS
  <2>1. Len(b) \in 1 .. Len(b) /\ new[Len(b)] = b[Len(b)] /\ Len(new) = Len(b)
    BY <1>1, <1>2
  <2>2. printed' - Len(b) + Len(b) # printed - Len(b) + Len(b)
    BY <1>1
  <2>3. [boot |-> boot', n |-> printed' - Len(b) + Len(b)]
            = [boot |-> boot, n |-> printed - Len(b) + Len(b)]
    BY <1>1, <1>2, <2>1
  <2>4. [boot |-> boot', n |-> printed' - Len(b) + Len(b)].n
            = [boot |-> boot, n |-> printed - Len(b) + Len(b)].n
    BY <2>3
  <2> QED
    BY <2>2, <2>4
<1>4. serial_buffer' = new /\ \A c \in Clients : mutated'[c] = TRUE
  BY <1>3 DEF DequeChanges, new
<1>5. BufferIsTail'
  <2>1. serial_buffer' = new
    BY <1>4
  <2>2. \A i \in 1 .. Len(serial_buffer') :
            serial_buffer'[i] = [boot |-> boot', n |-> printed' - Len(serial_buffer') + i]
    BY <1>2, <2>1
  <2>3. /\ serial_buffer' \in Seq(Chunks) /\ Len(serial_buffer') <= BufferSize
        /\ Len(serial_buffer') <= printed'
    BY <1>2, <2>1
  <2> QED
    BY <2>2, <2>3 DEF BufferIsTail
<1>6. mutated' \in [Clients -> BOOLEAN]
  BY DEF DequeChanges
<1> QED
  BY <1>4, <1>5, <1>6 DEF StreamInv, ReplayingIsAt, ClientTypes

-----------------------------------------------------------------------------
(* The steps of the session *)

LEMMA SessionStep ==
    ASSUME StreamInv, SessionNext
    PROVE  StreamInv'
<1> USE DEF StreamInv
<1>1. CASE Output
  <2> DEFINE chunk == [boot |-> boot, n |-> printed + 1]
  <2>1. chunk \in Chunks
    BY <1>1, SerialAssumption DEF Output, Chunks, SessionTypes
  <2>2. /\ DequeChanges(BufferWith(chunk)) /\ Publish(chunk)
        /\ boot' = boot /\ printed' = printed + 1
        /\ UNCHANGED <<state, process, pending, launch, streamVars>>
    BY <1>1 DEF Output
  <2>3. SessionTypes'
    BY <1>1, <2>2, SerialAssumption DEF Output, SessionTypes
  <2> HIDE DEF chunk
  <2>4. chunk = [boot |-> boot, n |-> printed + 1]
    BY DEF chunk
  <2>5. BufferIsTail' /\ ReplayingIsAt' /\ ClientTypes'
    BY <2>1, <2>2, <2>4, GrownBuffer DEF streamVars
  <2>6. QueueTypes' /\ QueuesFollow'
    BY <2>1, <2>2, <2>4, ChunkFollows DEF streamVars
  <2>7. StreamIsContiguous'
    BY <2>2 DEF StreamIsContiguous, streamVars
  <2> QED
    BY <2>3, <2>5, <2>6, <2>7
<1>2. CASE Ready \/ \E o \in {"power_off", "replay", "stop"} : Release(o)
  <2>1. SessionTypes' /\ boot' = boot /\ printed' = printed
    BY <1>2 DEF Ready, Release, SessionTypes
  <2>2. UNCHANGED <<serial_buffer, subscribers, queue, mutated, streamVars>>
    BY <1>2 DEF Ready, Release
  <2>3. ClientTypes' /\ QueueTypes' /\ BufferIsTail' /\ ReplayingIsAt'
    BY <2>1, <2>2 DEF ClientTypes, QueueTypes, BufferIsTail, ReplayingIsAt, streamVars
  <2>4. QueuesFollow' /\ StreamIsContiguous'
    BY <2>1, <2>2 DEF QueuesFollow, UpToDate, NextFollows, StreamIsContiguous, streamVars
  <2> QED
    BY <2>1, <2>3, <2>4
<1>3. CASE FinishPowerOff
  <2>1. SessionTypes' /\ Publish(None)
    BY <1>3 DEF FinishPowerOff, SessionTypes
  <2>2. UNCHANGED <<boot, printed, serial_buffer, mutated, streamVars>>
    BY <1>3 DEF FinishPowerOff
  <2>3. ClientTypes' /\ BufferIsTail' /\ ReplayingIsAt' /\ StreamIsContiguous'
    BY <2>2 DEF ClientTypes, BufferIsTail, ReplayingIsAt, StreamIsContiguous, streamVars
  <2>4. QueueTypes' /\ QueuesFollow'
    BY <2>1, <2>2, MarkerFollows DEF streamVars
  <2> QED
    BY <2>1, <2>3, <2>4
<1>4. CASE FinishStop \/ WorkerExits \/ LaunchFails
  <2>1. SessionTypes' /\ DequeChanges(<<>>) /\ UNCHANGED <<boot, printed, streamVars>>
    BY <1>4 DEF FinishStop, WorkerExits, LaunchFails, SessionTypes
  <2>2. ClientTypes' /\ BufferIsTail' /\ ReplayingIsAt'
    BY <2>1, ClearedBuffer DEF SessionTypes, streamVars
  <2>3. QueueTypes' /\ QueuesFollow'
    <3>1. CASE Publish(None)
      BY <2>1, <3>1, MarkerFollows DEF streamVars
    <3>2. CASE UNCHANGED <<subscribers, queue>>
      BY <2>1, <3>2 DEF QueueTypes, QueuesFollow, UpToDate, NextFollows, streamVars
    <3> QED
      BY <1>4, <3>1, <3>2 DEF FinishStop, WorkerExits, LaunchFails
  <2>4. StreamIsContiguous'
    BY <2>1 DEF StreamIsContiguous, streamVars
  <2> QED
    BY <2>1, <2>2, <2>3, <2>4
<1>5. CASE Boot
  <2>1. /\ SessionTypes' /\ DequeChanges(<<>>) /\ boot' = boot + 1 /\ printed' = 0
        /\ UNCHANGED <<subscribers, queue, streamVars>>
    BY <1>5, SerialAssumption DEF Boot, SessionTypes
  <2>2. ClientTypes' /\ BufferIsTail' /\ ReplayingIsAt'
    BY <2>1, ClearedBuffer DEF SessionTypes, streamVars
  <2>3. ASSUME NEW x \in Chunks, NextFollows(x)
        PROVE  NextFollows(x)'
    BY <2>1, <2>3 DEF NextFollows, Chunks, SessionTypes
  <2>4. ASSUME NEW c \in subscribers
        PROVE  UpToDate(received[c], queue[c])'
    <3>1. /\ queue[c] \in Seq(Chunks \cup {None}) /\ received[c] \in Seq(Chunks)
          /\ UpToDate(received[c], queue[c])
      BY DEF QueueTypes, ClientTypes, QueuesFollow
    <3>2. /\ queue[c] # <<>> => queue[c][Len(queue[c])] \in Chunks \cup {None}
          /\ received[c] # <<>> => received[c][Len(received[c])] \in Chunks
      BY <3>1
    <3>3. queue'[c] = queue[c] /\ received'[c] = received[c]
      BY <2>1 DEF streamVars
    <3> QED
      BY <2>3, <3>1, <3>2, <3>3 DEF UpToDate
  <2>5. QueueTypes' /\ QueuesFollow' /\ StreamIsContiguous'
    BY <2>1, <2>4 DEF QueueTypes, QueuesFollow, StreamIsContiguous, streamVars
  <2> QED
    BY <2>1, <2>2, <2>5
<1> QED
  BY <1>1, <1>2, <1>3, <1>4, <1>5 DEF SessionNext

-----------------------------------------------------------------------------
(* The steps of a client's stream *)

\* The outcomes of the iteration over the buffer: the stream is over, it
\* yields a chunk, or it goes on with its queue.
Shut(c, how) ==
    /\ stream' = [stream EXCEPT ![c] = how]
    /\ UNCHANGED <<position, received, subscribers, queue>>

Yield(c, at) ==
    /\ at < Len(serial_buffer)
    /\ stream' = [stream EXCEPT ![c] = "replaying"]
    /\ position' = [position EXCEPT ![c] = at + 1]
    /\ received' = [received EXCEPT ![c] = Append(@, serial_buffer[at + 1])]
    /\ UNCHANGED <<subscribers, queue>>

Register(c, at) ==
    /\ ~(at < Len(serial_buffer))
    /\ stream' = [stream EXCEPT ![c] = "live"]
    /\ subscribers' = subscribers \cup {c}
    /\ queue' = [queue EXCEPT ![c] = <<>>]
    /\ UNCHANGED <<position, received>>

LEMMA AdvanceOutcomes ==
    ASSUME NEW c \in Clients, NEW at, NEW broken, Advance(c, at, broken)
    PROVE  \/ Shut(c, "ended") \/ Shut(c, "broken")
           \/ ~broken /\ (Yield(c, at) \/ Register(c, at))
  BY DEF Advance, Shut, Yield, Register

\* `at' chunks of the buffer were sent to client c, which is none at first.
At(c, at) ==
    /\ at \in 0 .. Len(serial_buffer)
    /\ at = 0 => received[c] = <<>>
    /\ at > 0 => /\ received[c] # <<>>
                 /\ received[c][Len(received[c])] = serial_buffer[at]

LEMMA AdvanceStep ==
    ASSUME StreamInv, NEW c \in Clients, NEW at, NEW broken \in BOOLEAN,
           Advance(c, at, broken), ~broken => At(c, at),
           stream[c] \in {"none", "replaying"}, ~broken => ~mutated'[c],
           mutated' \in [Clients -> BOOLEAN], \A e \in Clients \ {c} : mutated'[e] = mutated[e],
           UNCHANGED <<sessionVars, serial_buffer>>
    PROVE  StreamInv'
<1> USE DEF StreamInv
<1>1. SessionTypes' /\ BufferIsTail'
  BY DEF SessionTypes, BufferIsTail, sessionVars
<1>2. c \notin subscribers
  BY DEF QueueTypes
<1>3. ASSUME NEW x PROVE NextFollows(x) => NextFollows(x)'
  BY DEF NextFollows, sessionVars
<1>4. CASE Shut(c, "ended") \/ Shut(c, "broken")
  <2>1. /\ \A e \in Clients \ {c} : stream'[e] = stream[e]
        /\ stream'[c] \in {"ended", "broken"}
        /\ stream' \in [Clients -> {"none", "replaying", "live", "ended", "broken"}]
        /\ UNCHANGED <<position, received, subscribers, queue>>
    BY <1>4 DEF Shut, ClientTypes
  <2>2. ClientTypes' /\ ReplayingIsAt'
    BY <2>1 DEF ClientTypes, ReplayingIsAt
  <2>3. QueueTypes' /\ StreamIsContiguous'
    BY <1>2, <2>1 DEF QueueTypes, StreamIsContiguous
  <2>4. QueuesFollow'
    BY <1>3, <2>1 DEF QueuesFollow, UpToDate
  <2> QED
    BY <1>1, <2>2, <2>3, <2>4
<1>5. CASE ~broken /\ Yield(c, at)
  <2> DEFINE x == serial_buffer[at + 1]
  <2>1. /\ at \in Nat /\ at + 1 \in 1 .. Len(serial_buffer) /\ x \in Chunks
        /\ at + 1 \in 0 .. BufferSize
    BY <1>5, SerialAssumption DEF Yield, At, BufferIsTail
  <2>2. received[c] # <<>> => Follows(received[c][Len(received[c])], x)
    <3> SUFFICES ASSUME received[c] # <<>> PROVE Follows(serial_buffer[at], x)
      BY <1>5 DEF At
    <3>1. at \in 1 .. Len(serial_buffer) /\ Len(serial_buffer) \in Nat /\ printed \in Nat
      BY <1>5 DEF At, BufferIsTail, SessionTypes
    <3>2. /\ serial_buffer[at] = [boot |-> boot, n |-> printed - Len(serial_buffer) + at]
          /\ x = [boot |-> boot, n |-> printed - Len(serial_buffer) + (at + 1)]
      BY <2>1, <3>1 DEF BufferIsTail
    <3>3. printed - Len(serial_buffer) + (at + 1) = (printed - Len(serial_buffer) + at) + 1
      BY <3>1
    <3> QED
      BY <3>2, <3>3 DEF Follows
  <2> HIDE DEF x
  <2>3. received' = [received EXCEPT ![c] = Append(@, x)]
    BY <1>5 DEF Yield, x
  <2>4. StreamIsContiguous'
    BY <2>1, <2>2, <2>3, SentFollows
  <2>5. /\ received[c] \in Seq(Chunks) /\ received'[c] = Append(received[c], x)
        /\ \A e \in Clients \ {c} : received'[e] = received[e]
        /\ received' \in [Clients -> Seq(Chunks)]
    BY <2>1, <2>3 DEF ClientTypes
  <2>6. /\ \A e \in Clients \ {c} : stream'[e] = stream[e] /\ position'[e] = position[e]
        /\ stream'[c] = "replaying" /\ position'[c] = at + 1
        /\ stream' \in [Clients -> {"none", "replaying", "live", "ended", "broken"}]
        /\ position' \in [Clients -> 0 .. BufferSize]
        /\ UNCHANGED <<subscribers, queue>>
    BY <1>5, <2>1 DEF Yield, ClientTypes
  <2>7. ClientTypes'
    BY <2>5, <2>6 DEF ClientTypes
  <2>8. ReplayingIsAt'
    <3>1. received'[c] # <<>> /\ received'[c][Len(received'[c])] = serial_buffer[at + 1]
      BY <2>5 DEF x
    <3> QED
      BY <2>1, <2>5, <2>6, <3>1 DEF ReplayingIsAt
  <2>9. QueueTypes'
    BY <1>2, <2>6 DEF QueueTypes
  <2>10. QueuesFollow'
    <3>1. \A e \in subscribers : e \in Clients \ {c}
      BY <1>2 DEF QueueTypes
    <3> QED
      BY <1>3, <2>5, <2>6, <3>1 DEF QueuesFollow, UpToDate
  <2> QED
    BY <1>1, <2>4, <2>7, <2>8, <2>9, <2>10
<1>6. CASE ~broken /\ Register(c, at)
  <2>1. /\ \A e \in Clients \ {c} : stream'[e] = stream[e] /\ queue'[e] = queue[e]
        /\ stream'[c] = "live" /\ queue'[c] = <<>>
        /\ stream' \in [Clients -> {"none", "replaying", "live", "ended", "broken"}]
        /\ queue' \in [Clients -> Seq(Chunks \cup {None})]
        /\ subscribers' = subscribers \cup {c}
        /\ UNCHANGED <<position, received>>
    BY <1>6 DEF Register, ClientTypes, QueueTypes
  <2>2. ClientTypes' /\ ReplayingIsAt' /\ StreamIsContiguous'
    <3>1. ClientTypes'
      BY <2>1 DEF ClientTypes
    <3>2. ReplayingIsAt'
      BY <2>1 DEF ReplayingIsAt
    <3>3. StreamIsContiguous'
      BY <2>1 DEF StreamIsContiguous
    <3> QED
      BY <3>1, <3>2, <3>3
  <2>3. QueueTypes'
    <3>1. Len(<<>>) = 0 /\ 0 <= QueueSize
      BY SerialAssumption
    <3> QED
      BY <2>1, <3>1 DEF QueueTypes
  <2>4. received[c] # <<>> => NextFollows(received[c][Len(received[c])])
    <3> SUFFICES ASSUME received[c] # <<>> PROVE NextFollows(serial_buffer[at])
      BY <1>6 DEF At
    <3>1. /\ at = Len(serial_buffer) /\ at \in 1 .. Len(serial_buffer)
          /\ Len(serial_buffer) \in Nat /\ printed \in Nat
      BY <1>6 DEF Register, At, BufferIsTail, SessionTypes
    <3>2. serial_buffer[at] = [boot |-> boot, n |-> printed - Len(serial_buffer) + at]
      BY <3>1 DEF BufferIsTail
    <3>3. printed - Len(serial_buffer) + at = printed
      BY <3>1
    <3> QED
      BY <3>2, <3>3 DEF NextFollows
  <2>5. /\ Linked(<<>>) /\ Joined(received[c], <<>>)
        /\ (received[c] # <<>>) => NextFollows(received[c][Len(received[c])])'
    BY <1>3, <2>1, <2>4 DEF Linked, Joined
  <2>6. \A e \in Clients : Linked(queue'[e])
    BY <2>1, <2>5 DEF QueuesFollow
  <2>7. \A e \in Clients : stream'[e] = "live" => Joined(received'[e], queue'[e])
    BY <2>1, <2>5 DEF QueuesFollow
  <2>8. ASSUME NEW e \in subscribers \cup {c}
        PROVE  UpToDate(received[e], queue[e])'
    <3>1. CASE e = c
      BY <2>1, <2>5, <3>1 DEF UpToDate
    <3>2. CASE e # c
      <4>1. e \in subscribers /\ e \in Clients \ {c} /\ UpToDate(received[e], queue[e])
        BY <3>2 DEF QueueTypes, QueuesFollow
      <4> QED
        BY <1>3, <2>1, <4>1 DEF UpToDate
    <3> QED
      BY <3>1, <3>2
  <2>9. QueuesFollow'
    BY <2>1, <2>6, <2>7, <2>8 DEF QueuesFollow
  <2> QED
    BY <1>1, <2>2, <2>3, <2>9
<1> QED
  BY <1>4, <1>5, <1>6, AdvanceOutcomes

LEMMA ClientStep ==
    ASSUME StreamInv, NEW c \in Clients, Subscribe(c) \/ StreamNext(c) \/ Disconnect(c)
    PROVE  StreamInv'
<1> USE DEF StreamInv
<1>1. CASE Subscribe(c)
  <2>1. /\ mutated' = [mutated EXCEPT ![c] = FALSE] /\ stream[c] = "none"
        /\ Advance(c, 0, FALSE) /\ UNCHANGED <<sessionVars, serial_buffer>>
    BY <1>1 DEF Subscribe
  <2>2. At(c, 0)
    BY <2>1 DEF At, BufferIsTail, ClientTypes
  <2>3. /\ mutated' \in [Clients -> BOOLEAN] /\ mutated'[c] = FALSE
        /\ \A e \in Clients \ {c} : mutated'[e] = mutated[e]
    BY <2>1 DEF ClientTypes
  <2> QED
    BY <2>1, <2>2, <2>3, AdvanceStep
<1>2. CASE NextBuffered(c)
  <2>1. /\ mutated' = mutated /\ stream[c] = "replaying"
        /\ Advance(c, position[c], mutated[c]) /\ UNCHANGED <<sessionVars, serial_buffer>>
    BY <1>2 DEF NextBuffered
  <2>2. ~mutated[c] => At(c, position[c])
    BY <2>1 DEF At, ReplayingIsAt, BufferIsTail
  <2>3. mutated' \in [Clients -> BOOLEAN] /\ mutated[c] \in BOOLEAN
    BY <2>1 DEF ClientTypes
  <2> QED
    BY <2>1, <2>2, <2>3, AdvanceStep
<1>3. CASE NextQueued(c)
  <2> DEFINE q == queue[c]
             x == Head(q)
             S == Chunks \cup {None}
  <2>1. /\ stream[c] = "live" /\ q # <<>> /\ queue' = [queue EXCEPT ![c] = Tail(q)]
        /\ UNCHANGED <<sessionVars, serial_buffer, mutated, position>>
    BY <1>3 DEF NextQueued
  <2>2. q \in Seq(S) /\ Linked(q) /\ Joined(received[c], q) /\ received[c] \in Seq(Chunks)
    BY <2>1 DEF QueueTypes, QueuesFollow, ClientTypes
  <2>3. /\ Tail(q) \in Seq(S) /\ Len(Tail(q)) <= Len(q) /\ x \in S /\ x = q[1]
        /\ Tail(q) # <<>> => Tail(q)[Len(Tail(q))] = q[Len(q)]
        /\ Tail(q) = <<>> => q[Len(q)] = x
    BY <2>1, <2>2, HeadAndTail
  <2>4. /\ Linked(Tail(q))
        /\ (Tail(q) # <<>> /\ x # None /\ Tail(q)[1] # None) => Follows(x, Tail(q)[1])
    BY <2>1, <2>2, <2>3, LinkedTail
  <2>5. SessionTypes' /\ BufferIsTail'
    BY <2>1 DEF SessionTypes, BufferIsTail, sessionVars
  <2>6. ASSUME NEW y PROVE NextFollows(y) => NextFollows(y)'
    BY <2>1 DEF NextFollows, sessionVars
  <2>7. /\ queue'[c] = Tail(q) /\ \A e \in Clients \ {c} : queue'[e] = queue[e]
        /\ queue' \in [Clients -> Seq(S)] /\ Len(Tail(q)) <= QueueSize
    <3>1. Len(q) \in Nat /\ Len(Tail(q)) \in Nat /\ Len(q) <= QueueSize
      BY <2>2, <2>3 DEF QueueTypes
    <3> QED
      BY <2>1, <2>3, <3>1, SerialAssumption DEF QueueTypes
  <2>8. CASE x = None
    <3>1. /\ stream' = [stream EXCEPT ![c] = "ended"] /\ subscribers' = subscribers \ {c}
          /\ received' = received
      BY <1>3, <2>8 DEF NextQueued
    <3>2. /\ stream'[c] = "ended" /\ \A e \in Clients \ {c} : stream'[e] = stream[e]
          /\ stream' \in [Clients -> {"none", "replaying", "live", "ended", "broken"}]
      BY <3>1 DEF ClientTypes
    <3>3. ClientTypes' /\ ReplayingIsAt' /\ StreamIsContiguous'
      BY <2>1, <3>1, <3>2 DEF ClientTypes, ReplayingIsAt, StreamIsContiguous
    <3>4. QueueTypes'
      BY <2>7, <3>1, <3>2 DEF QueueTypes
    <3>5. \A e \in subscribers' : e \in Clients \ {c} /\ e \in subscribers
      BY <3>1 DEF QueueTypes
    <3>6. QueuesFollow'
      BY <2>4, <2>6, <2>7, <3>1, <3>2, <3>5 DEF QueuesFollow, UpToDate
    <3> QED
      BY <2>5, <3>3, <3>4, <3>6
  <2>9. CASE x # None
    <3>1. /\ received' = [received EXCEPT ![c] = Append(@, x)]
          /\ UNCHANGED <<stream, subscribers>> /\ x \in Chunks
      BY <1>3, <2>3, <2>9 DEF NextQueued
    <3>2. received[c] # <<>> => Follows(received[c][Len(received[c])], x)
      BY <2>1, <2>2, <2>3, <2>9 DEF Joined
    <3> HIDE DEF x
    <3>3. StreamIsContiguous'
      BY <3>1, <3>2, SentFollows
    <3>4. /\ received'[c] = Append(received[c], x) /\ received'[c] # <<>>
          /\ received'[c][Len(received'[c])] = x
          /\ \A e \in Clients \ {c} : received'[e] = received[e]
          /\ received' \in [Clients -> Seq(Chunks)]
      <4>1. /\ Append(received[c], x) \in Seq(Chunks) /\ Append(received[c], x) # <<>>
            /\ Append(received[c], x)[Len(Append(received[c], x))] = x
        BY <2>2, <3>1
      <4>2. /\ received'[c] = Append(received[c], x)
            /\ \A e \in Clients \ {c} : received'[e] = received[e]
        BY <3>1 DEF ClientTypes
      <4> QED
        BY <3>1, <4>1, <4>2 DEF ClientTypes
    <3>5. ClientTypes' /\ ReplayingIsAt'
      BY <2>1, <3>1, <3>4 DEF ClientTypes, ReplayingIsAt
    <3>6. QueueTypes'
      BY <2>7, <3>1 DEF QueueTypes
    <3>7. \A e \in Clients : Linked(queue'[e])
      BY <2>4, <2>7 DEF QueuesFollow
    <3>8. \A e \in Clients : stream'[e] = "live" => Joined(received'[e], queue'[e])
      <4>1. Joined(received'[c], queue'[c])
        BY <2>4, <2>7, <2>9, <3>4 DEF Joined
      <4> QED
        BY <2>7, <3>1, <3>4, <4>1 DEF QueuesFollow
    <3>9. ASSUME NEW e \in subscribers
          PROVE  UpToDate(received[e], queue[e])'
      <4>1. UpToDate(received[e], queue[e]) /\ e \in Clients
        BY DEF QueuesFollow, QueueTypes
      <4>2. CASE e = c
        <5>1. q[Len(q)] # None => NextFollows(q[Len(q)])
          BY <2>1, <4>1, <4>2 DEF UpToDate
        <5>2. /\ queue'[c] # <<>> => queue'[c][Len(queue'[c])] = q[Len(q)]
              /\ queue'[c] = <<>> => received'[c][Len(received'[c])] = q[Len(q)]
          BY <2>3, <2>7, <3>4
        <5>3. queue'[c] = <<>> => q[Len(q)] # None
          BY <2>3, <2>7, <2>9
        <5> QED
          BY <2>6, <4>2, <5>1, <5>2, <5>3 DEF UpToDate
      <4>3. CASE e # c
        BY <2>6, <2>7, <3>4, <4>1, <4>3 DEF UpToDate
      <4> QED
        BY <4>2, <4>3
    <3>10. QueuesFollow'
      BY <3>1, <3>7, <3>8, <3>9 DEF QueuesFollow
    <3> QED
      BY <2>5, <3>3, <3>5, <3>6, <3>10
  <2> QED
    BY <2>8, <2>9
<1>4. CASE Disconnect(c)
  <2>1. /\ stream' = [stream EXCEPT ![c] = "ended"] /\ subscribers' = subscribers \ {c}
        /\ UNCHANGED <<sessionVars, serial_buffer, queue, mutated, position, received>>
    BY <1>4 DEF Disconnect
  <2>2. /\ stream'[c] = "ended" /\ \A e \in Clients \ {c} : stream'[e] = stream[e]
        /\ stream' \in [Clients -> {"none", "replaying", "live", "ended", "broken"}]
    BY <2>1 DEF ClientTypes
  <2>3. SessionTypes' /\ BufferIsTail' /\ StreamIsContiguous'
    BY <2>1 DEF SessionTypes, BufferIsTail, StreamIsContiguous, sessionVars
  <2>4. ClientTypes' /\ ReplayingIsAt' /\ QueueTypes'
    BY <2>1, <2>2 DEF ClientTypes, ReplayingIsAt, QueueTypes
  <2>5. QueuesFollow'
    BY <2>1, <2>2 DEF QueuesFollow, UpToDate, NextFollows, sessionVars
  <2> QED
    BY <2>3, <2>4, <2>5
<1> QED
  BY <1>1, <1>2, <1>3, <1>4 DEF StreamNext

-----------------------------------------------------------------------------
LEMMA StreamInit == Init => StreamInv
<1> SUFFICES ASSUME Init PROVE StreamInv
  OBVIOUS
<1>1. SessionTypes
  BY SerialAssumption DEF Init, SessionTypes
<1>2. ClientTypes /\ ReplayingIsAt /\ StreamIsContiguous
  BY SerialAssumption DEF Init, ClientTypes, ReplayingIsAt, StreamIsContiguous
<1>3. QueueTypes /\ BufferIsTail
  BY SerialAssumption DEF Init, QueueTypes, BufferIsTail
<1>4. QueuesFollow
  BY DEF Init, QueuesFollow, Linked, Joined
<1> QED
  BY <1>1, <1>2, <1>3, <1>4 DEF StreamInv

LEMMA StreamStep == StreamInv /\ [Next]_vars => StreamInv'
<1> SUFFICES ASSUME StreamInv, [Next]_vars PROVE StreamInv'
  OBVIOUS
<1>1. CASE UNCHANGED vars
  BY <1>1 DEF StreamInv, SessionTypes, ClientTypes, QueueTypes, BufferIsTail, ReplayingIsAt,
     QueuesFollow, UpToDate, NextFollows, StreamIsContiguous, vars, sessionVars, streamVars
<1> QED
  BY <1>1, SessionStep, ClientStep DEF Next

(***************************************************************************)
(* The invariant of the stream: the buffer is the tail of what the worker  *)
(* printed, and what waits in a queue continues what its client was sent   *)
(* (_publish, subscribe_serial).                                           *)
(***************************************************************************)
THEOREM StreamInvariant == Spec => []StreamInv
  BY StreamInit, StreamStep, PTL DEF Spec

(***************************************************************************)
(* The buffer and the queues keep within their sizes, and every variable   *)
(* its type.                                                               *)
(***************************************************************************)
THEOREM StreamTypes == Spec => []TypeOK
<1>1. StreamInv => TypeOK
  BY DEF StreamInv, TypeOK, SessionTypes, ClientTypes, QueueTypes, BufferIsTail
<1> QED
  BY <1>1, StreamInvariant, PTL

(***************************************************************************)
(* What subscribe_serial yields to a client has no hole and no repetition, *)
(* over the seam between buffer and queue and over a new worker, whatever  *)
(* is printed, powered off, replayed or dropped while a send is under way. *)
(***************************************************************************)
THEOREM SerialIsContiguous == Spec => []StreamIsContiguous
<1>1. StreamInv => StreamIsContiguous
  BY DEF StreamInv
<1> QED
  BY <1>1, StreamInvariant, PTL
=============================================================================
