-------------------------- MODULE BrokerLinkProofs --------------------------
(***************************************************************************)
(* Proofs about BrokerLink, for any number of writers, chunks and bytes    *)
(* and every size of the buffers and of the output budget.                 *)
(***************************************************************************)
EXTENDS BrokerLink, TLAPS

UpFrames   == ({"stdin"} \X Chunks) \cup (Controls \X {0})
DownFrames == (Streams \X (1..MaxPrint)) \cup {<<"exit", 0>>}

InputTypes ==
    /\ pc \in [Writers -> {"idle", "drain", "send"}]
    /\ written \in 0..MaxWrites
    /\ pending \in Seq(Chunks) /\ Len(pending) <= MaxBuffered /\ batch \in Seq(Chunks)
    /\ stdin_lock \in Writers \cup {None}

ProcessTypes ==
    /\ asked \in Controls \cup {None} /\ control \in Seq(Controls)
    /\ receiving \in BOOLEAN /\ returncode \in {None, "exit", "lost"}

UpTypes   == up \in Seq(UpFrames) /\ frame_lock \in Writers \cup {"control", None}
DownTypes == down \in Seq(DownFrames) /\ Len(down) <= Room + 1

TaskTypes ==
    /\ open \in BOOLEAN /\ alive \in BOOLEAN
    /\ relay \in {"read", "stdin", "stop", "kill", "ended"}
    /\ phase \in {"supervise", "pumps", "closed", "crashed"}
    /\ pump \in [Streams -> BOOLEAN]
    /\ remaining \in 0..Limit /\ exceeded \in BOOLEAN

WorkerTypes == stdin \in Seq(Chunks) /\ got \in Seq(Chunks)

OutputTypes ==
    /\ received \in [Streams -> 0..MaxPrint]
    /\ out \in [Streams -> 0..MaxPrint] /\ printed \in [Streams -> 0..MaxPrint]

\* The chunks in frames u, and whether the older are ahead.
FlightOf(u) == {u[i][2] : i \in {j \in 1..Len(u) : u[j][1] = "stdin"}}

FlightIncreases(u) ==
    \A i, j \in {k \in 1..Len(u) : u[k][1] = "stdin"} : i < j => u[i][2] < u[j][2]

Older(X, Y) == \A x \in X, y \in Y : x < y

Stages(G, S, F, B, P) ==
    /\ Older(G, S) /\ Older(G, F) /\ Older(G, B) /\ Older(G, P)
    /\ Older(S, F) /\ Older(S, B) /\ Older(S, P)
    /\ Older(F, B) /\ Older(F, P) /\ Older(B, P)

\* StdinInOrder, and no chunk is newer than the last one written.
Ordered ==
    /\ Increasing(got) /\ Increasing(stdin) /\ Increasing(batch) /\ Increasing(pending)
    /\ FlightIncreases(up)
    /\ Stages(ChunksOf(got), ChunksOf(stdin), FlightOf(up), ChunksOf(batch), ChunksOf(pending))
    /\ \A x \in ChunksOf(got) \cup ChunksOf(stdin) \cup FlightOf(up)
                 \cup ChunksOf(batch) \cup ChunksOf(pending) : x \in 1..written

\* The bytes of stream s in frame f.
Bytes(f, s) == IF f[1] = s THEN f[2] ELSE 0

\* f[i] is what will have been received of stream s, of which r bytes have
\* been, after the first i of the frames d.
Feeds(f, d, r, s) ==
    /\ f[0] = r
    /\ \A i \in 1..Len(d) : f[i] = f[i - 1] + Bytes(d[i], s)
    /\ \A i \in 0..Len(d) : f[i] <= f[Len(d)]

\* t bytes will have been received after all of them.
Total(d, r, s, t) ==
    \E f \in [0..Len(d) -> 0..MaxPrint] : Feeds(f, d, r, s) /\ f[Len(d)] = t

\* With sum[s] bytes of stream s received or on their way: all that was
\* printed is among them or not yet pumped, and they are within the budget.
Accounted(sum) ==
    /\ \A s \in Streams :
        /\ sum[s] + out[s] <= printed[s]
        /\ receiving /\ ~exceeded => sum[s] + out[s] = printed[s]
    /\ sum["stdout"] + sum["stderr"] + remaining <= Limit

OutputIsAccounted ==
    \E sum \in [Streams -> 0..MaxPrint] :
        /\ \A s \in Streams : Total(down, received[s], s, sum[s])
        /\ Accounted(sum)

\* The order in which a connection ends: the worker, its pumps, EXIT.
EndsInOrder ==
    /\ phase \in {"pumps", "closed"} => ~alive
    /\ phase = "closed" => ~open /\ \A s \in Streams : ~pump[s]
    /\ \A s \in Streams : (open /\ ~exceeded /\ ~pump[s]) => out[s] = 0 /\ ~alive

\* EXIT is the last frame, and all output was pumped before it.
ExitIsLast ==
    \A i \in 1..Len(down) : down[i][1] = "exit" =>
        /\ i = Len(down) /\ phase = "closed"
        /\ ~exceeded => \A s \in Streams : out[s] = 0

ExitMeansDelivered ==
    returncode = "exit" =>
        /\ phase = "closed" /\ ~receiving
        /\ ~exceeded => \A s \in Streams : received[s] = printed[s]

LinkInv ==
    /\ InputTypes /\ ProcessTypes /\ UpTypes /\ DownTypes /\ TaskTypes /\ WorkerTypes
    /\ OutputTypes /\ Ordered /\ OutputIsAccounted
    /\ EndsInOrder /\ ExitIsLast /\ ExitMeansDelivered

-----------------------------------------------------------------------------
(* Input *)

LEMMA AppendIsLast ==
    ASSUME NEW s \in Seq(Chunks), NEW x \in Chunks, Increasing(s), Older(ChunksOf(s), {x})
    PROVE  /\ Append(s, x) \in Seq(Chunks) /\ Increasing(Append(s, x))
           /\ ChunksOf(Append(s, x)) = ChunksOf(s) \cup {x}
<1> DEFINE a == Append(s, x)
<1>1. /\ a \in Seq(Chunks) /\ Len(s) \in Nat /\ Len(a) = Len(s) + 1 /\ a[Len(s) + 1] = x
      /\ \A i \in 1..Len(s) : a[i] = s[i]
  OBVIOUS
<1> HIDE DEF a
<1>2. \A i \in 1..Len(s) : s[i] < x
  BY DEF Older, ChunksOf
<1>3. ASSUME NEW i \in 1..Len(a), NEW j \in 1..Len(a), i < j
      PROVE  a[i] < a[j]
  <2>1. i \in 1..Len(s) /\ (j \in 1..Len(s) \/ j = Len(s) + 1)
    BY <1>1, <1>3
  <2> QED
    BY <1>1, <1>2, <1>3, <2>1 DEF Increasing
<1>4. 1..Len(a) = 1..Len(s) \cup {Len(s) + 1}
  BY <1>1
<1>5. ChunksOf(a) = ChunksOf(s) \cup {x}
  BY <1>1, <1>4 DEF ChunksOf
<1> QED
  BY <1>1, <1>3, <1>5 DEF Increasing, a

LEMMA HeadIsFirst ==
    ASSUME NEW s \in Seq(Chunks), s # <<>>, Increasing(s)
    PROVE  /\ Tail(s) \in Seq(Chunks) /\ Increasing(Tail(s))
           /\ ChunksOf(Tail(s)) \subseteq ChunksOf(s)
           /\ Head(s) \in Chunks /\ Head(s) \in ChunksOf(s)
           /\ Older({Head(s)}, ChunksOf(Tail(s)))
<1> DEFINE t == Tail(s)
<1>1. /\ t \in Seq(Chunks) /\ Len(s) \in Nat \ {0} /\ Len(t) = Len(s) - 1
      /\ \A i \in 1..Len(t) : t[i] = s[i + 1]
      /\ Head(s) = s[1] /\ s[1] \in Chunks
  OBVIOUS
<1> HIDE DEF t
<1>2. \A i \in 1..Len(t) : i + 1 \in 1..Len(s) /\ 1 \in 1..Len(s) /\ 1 < i + 1
  BY <1>1
<1>3. Increasing(t)
  BY <1>1, <1>2 DEF Increasing
<1>4. ChunksOf(t) \subseteq ChunksOf(s) /\ Head(s) \in ChunksOf(s)
  BY <1>1, <1>2 DEF ChunksOf
<1>5. Older({Head(s)}, ChunksOf(t))
  BY <1>1, <1>2 DEF Older, ChunksOf, Increasing
<1> QED
  BY <1>1, <1>3, <1>4, <1>5 DEF t

LEMMA NoChunks == Increasing(<<>>) /\ ChunksOf(<<>>) = {}
  BY DEF Increasing, ChunksOf

\* A frame is sent behind the others ...
LEMMA FlightAppend ==
    ASSUME NEW u \in Seq(UpFrames), NEW f \in UpFrames, FlightIncreases(u),
           f[1] = "stdin" => Older(FlightOf(u), {f[2]})
    PROVE  /\ FlightIncreases(Append(u, f))
           /\ FlightOf(Append(u, f))
                = FlightOf(u) \cup (IF f[1] = "stdin" THEN {f[2]} ELSE {})
<1> DEFINE a == Append(u, f)
           I(v) == {j \in 1..Len(v) : v[j][1] = "stdin"}
<1>1. /\ Len(u) \in Nat /\ Len(a) = Len(u) + 1 /\ a[Len(u) + 1] = f
      /\ \A i \in 1..Len(u) : a[i] = u[i]
  OBVIOUS
<1> HIDE DEF a
<1>2. 1..Len(a) = 1..Len(u) \cup {Len(u) + 1}
  BY <1>1
<1>3. I(a) = I(u) \cup (IF f[1] = "stdin" THEN {Len(u) + 1} ELSE {})
  BY <1>1, <1>2
<1>4. \A i \in I(u) : a[i] = u[i] /\ i \in 1..Len(u)
  BY <1>1
<1>5. FlightOf(a) = FlightOf(u) \cup (IF f[1] = "stdin" THEN {f[2]} ELSE {})
  <2> HIDE DEF I
  <2>1. FlightOf(a) = {a[i][2] : i \in I(a)} /\ FlightOf(u) = {u[i][2] : i \in I(u)}
    BY DEF FlightOf, I
  <2> QED
    BY <1>1, <1>3, <1>4, <2>1
<1>6. ASSUME NEW i \in I(a), NEW j \in I(a), i < j
      PROVE  a[i][2] < a[j][2]
  <2> i \in I(u) /\ (j \in I(u) \/ (j = Len(u) + 1 /\ f[1] = "stdin"))
    BY <1>1, <1>3, <1>6
  <2>1. CASE j \in I(u)
    BY <1>4, <1>6, <2>1 DEF FlightIncreases
  <2>2. CASE j = Len(u) + 1 /\ f[1] = "stdin"
    <3>1. u[i][2] \in FlightOf(u)
      BY DEF FlightOf
    <3> QED
      BY <1>1, <1>4, <2>2, <3>1 DEF Older
  <2> QED
    BY <2>1, <2>2
<1> QED
  BY <1>5, <1>6 DEF FlightIncreases, a

\* ... and read before them.
LEMMA FlightTail ==
    ASSUME NEW u \in Seq(UpFrames), u # <<>>, FlightIncreases(u)
    PROVE  /\ FlightIncreases(Tail(u)) /\ FlightOf(Tail(u)) \subseteq FlightOf(u)
           /\ Tail(u) \in Seq(UpFrames) /\ Len(Tail(u)) <= Len(u)
           /\ Head(u)[1] = "stdin" =>
                 /\ Head(u)[2] \in Chunks /\ Head(u)[2] \in FlightOf(u)
                 /\ Older({Head(u)[2]}, FlightOf(Tail(u)))
<1> DEFINE t == Tail(u)
           I(v) == {j \in 1..Len(v) : v[j][1] = "stdin"}
<1>1. /\ t \in Seq(UpFrames) /\ Len(u) \in Nat \ {0} /\ Len(t) = Len(u) - 1
      /\ \A i \in 1..Len(t) : t[i] = u[i + 1]
      /\ Head(u) = u[1] /\ u[1] \in UpFrames
  OBVIOUS
<1> HIDE DEF t
<1>2. \A i \in I(t) : i \in Nat /\ i + 1 \in I(u) /\ t[i] = u[i + 1] /\ 1 < i + 1
  BY <1>1
<1>3. FlightIncreases(t)
  <2>1. ASSUME NEW i \in I(t), NEW j \in I(t), i < j
        PROVE  t[i][2] < t[j][2]
    <3>1. i + 1 \in I(u) /\ j + 1 \in I(u) /\ i + 1 < j + 1
      BY <1>2, <2>1
    <3> QED
      BY <1>2, <3>1 DEF FlightIncreases
  <2> QED
    BY <2>1 DEF FlightIncreases
<1>4. FlightOf(t) \subseteq FlightOf(u)
  BY <1>2 DEF FlightOf
<1>5. ASSUME Head(u)[1] = "stdin"
      PROVE  /\ Head(u)[2] \in Chunks /\ Head(u)[2] \in FlightOf(u)
             /\ Older({Head(u)[2]}, FlightOf(t))
  <2>1. u[1][2] \in Chunks /\ 1 \in I(u)
    BY <1>1, <1>5 DEF UpFrames, Controls
  <2>2. u[1][2] \in FlightOf(u)
    BY <2>1 DEF FlightOf
  <2>3. \A i \in I(t) : u[1][2] < t[i][2]
    BY <1>2, <2>1 DEF FlightIncreases
  <2>4. Older({u[1][2]}, FlightOf(t))
    BY <2>3 DEF Older, FlightOf
  <2> QED
    BY <1>1, <2>1, <2>2, <2>4
<1> QED
  BY <1>1, <1>3, <1>4, <1>5 DEF t

\* The five places, for the steps that leave some of them alone.
LEMMA OrderedPlaces ==
    ASSUME LinkInv
    PROVE  /\ got \in Seq(Chunks) /\ stdin \in Seq(Chunks) /\ up \in Seq(UpFrames)
           /\ batch \in Seq(Chunks) /\ pending \in Seq(Chunks) /\ written \in Nat
           /\ Ordered
  BY DEF LinkInv, InputTypes, UpTypes, WorkerTypes

\* A write is the newest chunk.
LEMMA WriteOrdered ==
    ASSUME LinkInv, NEW w \in Writers, Write(w)
    PROVE  Ordered' /\ pending' \in Seq(Chunks)
<1>1. /\ written + 1 \in Chunks /\ written' = written + 1 /\ written \in Nat
      /\ pending' = Append(pending, written + 1) /\ UNCHANGED <<got, stdin, up, batch>>
  BY LinkAssumption DEF Write, LinkInv, InputTypes, Chunks, linkVars, workerVars
<1>2. Older(ChunksOf(pending), {written + 1})
  BY <1>1 DEF LinkInv, Ordered, Older
<1>3. /\ pending' \in Seq(Chunks) /\ Increasing(pending')
      /\ ChunksOf(pending') = ChunksOf(pending) \cup {written + 1}
  BY <1>1, <1>2, OrderedPlaces, AppendIsLast DEF Ordered
<1> QED
  BY <1>1, <1>3, OrderedPlaces DEF Ordered, Stages, Older

\* Chunks are taken, forgotten when a drain ends early or stdin is closed ...
LEMMA TakeOrdered ==
    ASSUME LinkInv, UNCHANGED <<got, stdin, up, written>>,
           \/ batch' = pending /\ pending' = <<>>
           \/ batch' \in {batch, <<>>} /\ pending' \in {pending, <<>>}
    PROVE  Ordered'
  BY OrderedPlaces, NoChunks DEF Ordered, Stages, Older

\* ... sent ...
LEMMA SendOrdered ==
    ASSUME LinkInv, batch # <<>>, batch' = Tail(batch),
           up' = Append(up, <<"stdin", Head(batch)>>),
           UNCHANGED <<got, stdin, pending, written>>
    PROVE  Ordered' /\ batch' \in Seq(Chunks) /\ up' \in Seq(UpFrames)
<1> DEFINE x == Head(batch)
           f == <<"stdin", x>>
<1>1. /\ batch' \in Seq(Chunks) /\ Increasing(batch') /\ x \in Chunks /\ x \in ChunksOf(batch)
      /\ ChunksOf(batch') \subseteq ChunksOf(batch) /\ Older({x}, ChunksOf(batch'))
  BY OrderedPlaces, HeadIsFirst DEF Ordered
<1>2. f \in UpFrames /\ f[1] = "stdin" /\ f[2] = x
  BY <1>1 DEF UpFrames
<1>3. Older(FlightOf(up), {x})
  BY <1>1, OrderedPlaces DEF Ordered, Stages, Older
<1>4. up' \in Seq(UpFrames)
  BY <1>2, OrderedPlaces
<1>5. FlightIncreases(up') /\ FlightOf(up') = FlightOf(up) \cup {x}
  BY <1>2, <1>3, OrderedPlaces, FlightAppend DEF Ordered
<1> HIDE DEF x, f
<1> QED
  BY <1>1, <1>4, <1>5, OrderedPlaces DEF Ordered, Stages, Older

\* ... between control frames ...
LEMMA ControlOrdered ==
    ASSUME LinkInv, NEW k \in Controls, up' = Append(up, <<k, 0>>),
           UNCHANGED <<got, stdin, batch, pending, written>>
    PROVE  Ordered' /\ up' \in Seq(UpFrames)
<1> DEFINE f == <<k, 0>>
<1>1. f \in UpFrames /\ f[1] # "stdin"
  BY DEF UpFrames, Controls
<1>2. up' \in Seq(UpFrames)
  BY <1>1, OrderedPlaces
<1>3. FlightIncreases(up') /\ FlightOf(up') = FlightOf(up)
  BY <1>1, OrderedPlaces, FlightAppend DEF Ordered
<1> QED
  BY <1>2, <1>3, OrderedPlaces DEF Ordered

\* ... relayed into the worker's stdin ...
LEMMA RelayOrdered ==
    ASSUME LinkInv, RelayRead
    PROVE  Ordered' /\ up' \in Seq(UpFrames) /\ stdin' \in Seq(Chunks)
<1>1. up # <<>> /\ up' = Tail(up) /\ UNCHANGED <<got, batch, pending, written>>
  BY DEF RelayRead, inputVars
<1>2. /\ FlightIncreases(up') /\ FlightOf(up') \subseteq FlightOf(up)
      /\ up' \in Seq(UpFrames)
      /\ Head(up)[1] = "stdin" => /\ Head(up)[2] \in Chunks /\ Head(up)[2] \in FlightOf(up)
                                  /\ Older({Head(up)[2]}, FlightOf(up'))
  BY <1>1, OrderedPlaces, FlightTail DEF Ordered
<1>3. CASE Head(up)[1] = "stdin" /\ stdin' = Append(stdin, Head(up)[2])
  <2> DEFINE x == Head(up)[2]
  <2>1. x \in Chunks /\ x \in FlightOf(up) /\ Older({x}, FlightOf(up'))
    BY <1>2, <1>3
  <2> HIDE DEF x
  <2>2. Older(ChunksOf(stdin), {x})
    BY <2>1, OrderedPlaces DEF Ordered, Stages, Older
  <2>3. /\ stdin' \in Seq(Chunks) /\ Increasing(stdin')
        /\ ChunksOf(stdin') = ChunksOf(stdin) \cup {x}
    BY <1>3, <2>1, <2>2, OrderedPlaces, AppendIsLast DEF Ordered, x
  <2> QED
    BY <1>1, <1>2, <2>1, <2>3, OrderedPlaces DEF Ordered, Stages, Older
<1>4. CASE UNCHANGED stdin
  BY <1>1, <1>2, <1>4, OrderedPlaces DEF Ordered, Stages, Older
<1> QED
  BY <1>3, <1>4 DEF RelayRead

\* ... and read.
LEMMA ReadOrdered ==
    ASSUME LinkInv, ReadStdin
    PROVE  Ordered' /\ WorkerTypes'
<1>1. /\ stdin # <<>> /\ stdin' = Tail(stdin) /\ got' = Append(got, Head(stdin))
      /\ UNCHANGED <<up, batch, pending, written>>
  BY DEF ReadStdin, inputVars, linkVars
<1> DEFINE x == Head(stdin)
<1>2. /\ stdin' \in Seq(Chunks) /\ Increasing(stdin') /\ x \in Chunks /\ x \in ChunksOf(stdin)
      /\ ChunksOf(stdin') \subseteq ChunksOf(stdin) /\ Older({x}, ChunksOf(stdin'))
  BY <1>1, OrderedPlaces, HeadIsFirst DEF Ordered
<1> HIDE DEF x
<1>3. Older(ChunksOf(got), {x})
  BY <1>2, OrderedPlaces DEF Ordered, Stages, Older
<1>4. /\ got' \in Seq(Chunks) /\ Increasing(got')
      /\ ChunksOf(got') = ChunksOf(got) \cup {x}
  BY <1>1, <1>2, <1>3, OrderedPlaces, AppendIsLast DEF Ordered, x
<1> QED
  BY <1>1, <1>2, <1>4, OrderedPlaces DEF Ordered, Stages, Older, WorkerTypes

LEMMA OrderedIsInOrder ==
    ASSUME LinkInv
    PROVE  StdinInOrder
<1>1. \A s \in {got, stdin, batch, pending} : Increasing(s)
  BY DEF LinkInv, Ordered
<1>2. \A i, j \in InFlight : i < j => up[i][2] < up[j][2]
  BY DEF LinkInv, Ordered, FlightIncreases, InFlight
<1>3. /\ Path[1] = ChunksOf(got) /\ Path[2] = ChunksOf(stdin) /\ Path[3] = FlightOf(up)
      /\ Path[4] = ChunksOf(batch) /\ Path[5] = ChunksOf(pending)
  BY DEF Path, FlightOf, InFlight
<1>4. ASSUME NEW m \in 1..5, NEW n \in 1..5, m < n
      PROVE  Older(Path[m], Path[n])
  <2>1. m \in {1, 2, 3, 4} /\ n \in {2, 3, 4, 5}
    BY <1>4
  <2> QED
    BY <1>3, <1>4, <2>1 DEF LinkInv, Ordered, Stages
<1> QED
  BY <1>1, <1>2, <1>4 DEF StdinInOrder, Older

-----------------------------------------------------------------------------
(* Output *)

LEMMA BytesType ==
    ASSUME NEW f \in DownFrames, NEW s \in Streams
    PROVE  Bytes(f, s) \in Nat
  BY LinkAssumption DEF DownFrames, Streams, Bytes

\* A frame is sent: there is that much more to receive.
LEMMA TotalAppend ==
    ASSUME NEW d \in Seq(DownFrames), NEW x \in DownFrames, NEW s \in Streams,
           NEW r, NEW t, Total(d, r, s, t), t + Bytes(x, s) <= MaxPrint
    PROVE  Total(Append(d, x), r, s, t + Bytes(x, s))
<1> DEFINE n == Len(d)
           e == Append(d, x)
           b == Bytes(x, s)
<1>1. PICK f \in [0..n -> 0..MaxPrint] : Feeds(f, d, r, s) /\ f[n] = t
  BY DEF Total
<1>2. /\ n \in Nat /\ Len(e) = n + 1 /\ e[n + 1] = x
      /\ \A i \in 1..n : e[i] = d[i]
  OBVIOUS
<1> HIDE DEF n, e
<1>3. b \in Nat
  BY BytesType
<1> HIDE DEF b
<1>4. /\ t \in 0..MaxPrint /\ t + b \in 0..MaxPrint
      /\ \A i \in 0..n : f[i] \in 0..MaxPrint /\ f[i] <= t
  BY <1>1, <1>2, <1>3, LinkAssumption DEF Feeds, n, b
<1> DEFINE g == [i \in 0..n + 1 |-> IF i = n + 1 THEN t + b ELSE f[i]]
<1>5. g[n + 1] = t + b /\ \A i \in 0..n : g[i] = f[i]
  BY <1>2
<1>6. \A i \in 0..n + 1 : i = n + 1 \/ i \in 0..n
  BY <1>2
<1>7. g \in [0..n + 1 -> 0..MaxPrint]
  BY <1>4, <1>6
<1> HIDE DEF g
<1>8. g[0] = r
  BY <1>1, <1>2, <1>5 DEF Feeds
<1>9. ASSUME NEW i \in 1..n + 1
      PROVE  g[i] = g[i - 1] + Bytes(e[i], s)
  <2>1. CASE i = n + 1
    BY <1>1, <1>2, <1>5, <2>1 DEF b
  <2>2. CASE i \in 1..n
    <3>1. i \in 0..n /\ i - 1 \in 0..n
      BY <1>2, <2>2
    <3> QED
      BY <1>1, <1>2, <1>5, <2>2, <3>1 DEF Feeds, n
  <2> QED
    BY <1>2, <2>1, <2>2
<1>10. ASSUME NEW i \in 0..n + 1
       PROVE  g[i] <= g[n + 1]
  BY <1>3, <1>4, <1>5, <1>6, LinkAssumption
<1>11. Feeds(g, e, r, s)
  BY <1>2, <1>8, <1>9, <1>10 DEF Feeds
<1> QED
  BY <1>2, <1>5, <1>7, <1>11 DEF Total, e, b

\* A frame is received.
LEMMA TotalTail ==
    ASSUME NEW d \in Seq(DownFrames), d # <<>>, NEW s \in Streams,
           NEW r, NEW t, Total(d, r, s, t)
    PROVE  /\ Total(Tail(d), r + Bytes(Head(d), s), s, t)
           /\ r + Bytes(Head(d), s) \in 0..MaxPrint
<1> DEFINE n == Len(d)
           e == Tail(d)
<1>1. PICK f \in [0..n -> 0..MaxPrint] : Feeds(f, d, r, s) /\ f[n] = t
  BY DEF Total
<1>2. /\ n \in Nat \ {0} /\ Len(e) = n - 1 /\ Head(d) = d[1]
      /\ \A i \in 1..n - 1 : e[i] = d[i + 1]
  OBVIOUS
<1> HIDE DEF n, e
<1> DEFINE g == [i \in 0..n - 1 |-> f[i + 1]]
<1>3. \A i \in 0..n - 1 : i + 1 \in 0..n /\ g[i] = f[i + 1]
  BY <1>2
<1>4. g \in [0..n - 1 -> 0..MaxPrint]
  BY <1>3
<1> HIDE DEF g
<1>5. 0 \in 0..n - 1 /\ 1 \in 1..n /\ 1 \in 0..n /\ n - 1 \in 0..n - 1 /\ (n - 1) + 1 = n
  BY <1>2
<1>6. f[1] = r + Bytes(Head(d), s) /\ f[1] \in 0..MaxPrint /\ g[0] = f[1]
  BY <1>1, <1>2, <1>3, <1>5 DEF Feeds, n
<1>7. ASSUME NEW i \in 1..n - 1
      PROVE  g[i] = g[i - 1] + Bytes(e[i], s)
  <2>1. /\ i \in 0..n - 1 /\ i - 1 \in 0..n - 1 /\ (i - 1) + 1 = i
        /\ i + 1 \in 1..n /\ (i + 1) - 1 = i
    BY <1>2
  <2>2. f[i + 1] = f[i] + Bytes(d[i + 1], s)
    BY <1>1, <2>1 DEF Feeds, n
  <2> QED
    BY <1>2, <1>3, <2>1, <2>2
<1>8. g[n - 1] = f[n] /\ \A i \in 0..n - 1 : g[i] <= g[n - 1]
  BY <1>1, <1>3, <1>5 DEF Feeds, n
<1>9. Feeds(g, e, r + Bytes(Head(d), s), s)
  BY <1>2, <1>6, <1>7, <1>8 DEF Feeds
<1> QED
  BY <1>1, <1>2, <1>4, <1>6, <1>8, <1>9 DEF Total, e

\* Nothing is on its way; and what was received is part of the total.
LEMMA TotalEmpty ==
    ASSUME NEW s \in Streams, NEW r \in 0..MaxPrint
    PROVE  Total(<<>>, r, s, r)
<1> DEFINE g == [i \in 0..0 |-> r]
<1>1. g \in [0..0 -> 0..MaxPrint] /\ g[0] = r /\ \A i \in 0..0 : g[i] <= g[0]
  BY LinkAssumption
<1> HIDE DEF g
<1>2. Feeds(g, <<>>, r, s)
  BY <1>1 DEF Feeds
<1> QED
  BY <1>1, <1>2 DEF Total

LEMMA TotalBound ==
    ASSUME NEW d \in Seq(DownFrames), NEW s \in Streams, NEW r, NEW t, Total(d, r, s, t)
    PROVE  r <= t /\ t \in 0..MaxPrint
  BY DEF Total, Feeds

\* Only EXIT is on its way.
LEMMA TotalExit ==
    ASSUME NEW d \in Seq(DownFrames), NEW s \in Streams, NEW r, NEW t, Total(d, r, s, t),
           Len(d) = 1, d[1][1] = "exit"
    PROVE  r = t
<1>1. Bytes(d[1], s) = 0
  BY DEF Bytes, Streams
<1>2. PICK f \in [0..1 -> 0..MaxPrint] : Feeds(f, d, r, s) /\ f[1] = t
  BY DEF Total
<1>3. f[1] = f[0] + 0 /\ f[0] = r /\ f[0] \in 0..MaxPrint
  BY <1>1, <1>2 DEF Feeds
<1> QED
  BY <1>2, <1>3, LinkAssumption

\* The totals of a state, and what they bound.
LEMMA Totals ==
    ASSUME LinkInv
    PROVE  \E sum \in [Streams -> 0..MaxPrint] :
              /\ \A s \in Streams : /\ Total(down, received[s], s, sum[s])
                                    /\ received[s] \in 0..MaxPrint /\ received[s] <= sum[s]
                                    /\ out[s] \in 0..MaxPrint /\ printed[s] \in 0..MaxPrint
              /\ Accounted(sum)
<1>1. PICK sum \in [Streams -> 0..MaxPrint] :
         /\ \A s \in Streams : Total(down, received[s], s, sum[s])
         /\ Accounted(sum)
  BY DEF LinkInv, OutputIsAccounted
<1>2. \A s \in Streams : received[s] <= sum[s]
  <2> TAKE s \in Streams
  <2>1. down \in Seq(DownFrames) /\ Total(down, received[s], s, sum[s])
    BY <1>1 DEF LinkInv, DownTypes
  <2> QED
    BY <2>1, TotalBound
<1>3. \A s \in Streams : /\ received[s] \in 0..MaxPrint /\ out[s] \in 0..MaxPrint
                         /\ printed[s] \in 0..MaxPrint
  BY DEF LinkInv, OutputTypes
<1> QED
  BY <1>1, <1>2, <1>3

LEMMA ReceiveAccounted ==
    ASSUME LinkInv, Receive
    PROVE  OutputTypes' /\ OutputIsAccounted' /\ DownTypes'
<1>1. PICK sum \in [Streams -> 0..MaxPrint] :
         /\ \A s \in Streams : Total(down, received[s], s, sum[s])
         /\ Accounted(sum)
  BY Totals
<1>2. /\ down \in Seq(DownFrames) /\ down # <<>> /\ Len(down) <= Room + 1
      /\ down' = Tail(down) /\ UNCHANGED <<out, printed, receiving, exceeded, remaining>>
  BY DEF LinkInv, DownTypes, Receive, outputVars, workerVars
<1>3. \A s \in Streams : received'[s] = received[s] + Bytes(Head(down), s)
  BY LinkAssumption DEF LinkInv, OutputTypes, Receive, Bytes
<1>4. ASSUME NEW s \in Streams
      PROVE  Total(down', received'[s], s, sum[s]) /\ received'[s] \in 0..MaxPrint
  <2>1. Total(down, received[s], s, sum[s])
    BY <1>1
  <2>2. /\ Total(Tail(down), received[s] + Bytes(Head(down), s), s, sum[s])
        /\ received[s] + Bytes(Head(down), s) \in 0..MaxPrint
    BY <1>2, <2>1, TotalTail
  <2> QED
    BY <1>2, <1>3, <2>2
<1>5. Accounted(sum)'
  BY <1>1, <1>2 DEF Accounted
<1>6. OutputTypes'
  <2>1. received' \in [Streams -> 0..MaxPrint]
    <3>1. received' = [s \in Streams |-> received'[s]]
      BY DEF Receive, LinkInv, OutputTypes
    <3> QED
      BY <1>4, <3>1
  <2> QED
    BY <1>2, <2>1 DEF LinkInv, OutputTypes
<1>7. DownTypes'
  BY <1>2, LinkAssumption DEF DownTypes
<1>8. OutputIsAccounted'
  BY <1>4, <1>5 DEF OutputIsAccounted
<1> QED
  BY <1>6, <1>7, <1>8

\* The frames behind the end of _receive are dropped: none of output when it
\* has read EXIT.
LEMMA ReceiveEndsAccounted ==
    ASSUME LinkInv, NEW c \in {"exit", "lost"}, ReceiveEnds(c)
    PROVE  OutputIsAccounted' /\ ExitMeansDelivered'
<1>1. PICK sum \in [Streams -> 0..MaxPrint] :
         /\ \A s \in Streams : /\ Total(down, received[s], s, sum[s])
                               /\ received[s] \in 0..MaxPrint /\ received[s] <= sum[s]
                               /\ out[s] \in 0..MaxPrint /\ printed[s] \in 0..MaxPrint
         /\ Accounted(sum)
  BY Totals
<1>2. /\ down \in Seq(DownFrames) /\ receiving /\ ~receiving' /\ down' = <<>>
      /\ UNCHANGED <<received, out, printed, exceeded, remaining, phase>>
      /\ remaining \in Nat
  BY DEF LinkInv, DownTypes, TaskTypes, ReceiveEnds, outputVars, workerVars, taskVars
<1>3. OutputIsAccounted'
  <2>1. \A s \in Streams : Total(<<>>, received[s], s, received[s])
    BY <1>1, TotalEmpty
  <2>2. /\ \A s \in Streams : received[s] + out[s] <= printed[s]
        /\ received["stdout"] + received["stderr"] + remaining <= Limit
    <3>1. /\ "stdout" \in Streams /\ "stderr" \in Streams
          /\ \A s \in Streams : sum[s] \in Nat /\ received[s] \in Nat
                                /\ out[s] \in Nat /\ printed[s] \in Nat
      BY <1>1, LinkAssumption DEF Streams
    <3>2. received["stdout"] <= sum["stdout"] /\ received["stderr"] <= sum["stderr"]
      BY <1>1, <3>1
    <3>3. ASSUME NEW s \in Streams PROVE received[s] + out[s] <= printed[s]
      <4>1. received[s] <= sum[s] /\ sum[s] + out[s] <= printed[s]
        BY <1>1 DEF Accounted
      <4> QED
        BY <3>1, <4>1
    <3>4. sum["stdout"] + sum["stderr"] + remaining <= Limit
      BY <1>1 DEF Accounted
    <3>5. received["stdout"] + received["stderr"] + remaining <= Limit
      BY <1>2, <3>1, <3>2, <3>4, LinkAssumption
    <3> QED
      BY <3>3, <3>5
  <2>3. /\ received \in [Streams -> 0..MaxPrint] /\ ~receiving'
        /\ \A s \in Streams : /\ Total(down', received'[s], s, received[s])
                              /\ received[s] + out'[s] <= printed'[s]
        /\ received["stdout"] + received["stderr"] + remaining' <= Limit
    BY <1>2, <2>1, <2>2 DEF LinkInv, OutputTypes
  <2>4. \E t \in [Streams -> 0..MaxPrint] :
           /\ \A s \in Streams : Total(down', received'[s], s, t[s])
           /\ \A s \in Streams : /\ t[s] + out'[s] <= printed'[s]
                                 /\ receiving' /\ ~exceeded' => t[s] + out'[s] = printed'[s]
           /\ t["stdout"] + t["stderr"] + remaining' <= Limit
    BY <2>3
  <2> QED
    BY <2>4 DEF OutputIsAccounted, Accounted
<1>4. ASSUME returncode' = "exit"
      PROVE  /\ phase' = "closed" /\ ~receiving'
             /\ ~exceeded' => \A s \in Streams : received'[s] = printed'[s]
  <2>1. c = "exit" /\ down # <<>> /\ Head(down)[1] = "exit"
    BY <1>2, <1>4, LinkAssumption DEF ReceiveEnds, Finish, LinkInv, ExitMeansDelivered
  <2>2. 1 \in 1..Len(down) /\ down[1][1] = "exit"
    BY <1>2, <2>1
  <2>3. /\ Len(down) = 1 /\ phase = "closed"
        /\ ~exceeded => \A s \in Streams : out[s] = 0
    BY <2>2 DEF LinkInv, ExitIsLast
  <2>4. \A s \in Streams : received[s] = sum[s]
    <3> TAKE s \in Streams
    <3>1. Total(down, received[s], s, sum[s])
      BY <1>1
    <3> QED
      BY <1>2, <2>2, <2>3, <3>1, TotalExit
  <2>5. ~exceeded => \A s \in Streams : received[s] = printed[s]
    BY <1>1, <1>2, <2>3, <2>4 DEF Accounted
  <2> QED
    BY <1>2, <2>3, <2>5
<1> QED
  BY <1>3, <1>4 DEF ExitMeansDelivered

\* A chunk is sent within the budget, or ends its pump.
LEMMA PumpAccounted ==
    ASSUME LinkInv, NEW s \in Streams, NEW n \in 1..MaxPrint, Pump(s, n)
    PROVE  OutputTypes' /\ OutputIsAccounted' /\ DownTypes'
<1>1. PICK sum \in [Streams -> 0..MaxPrint] :
         /\ \A z \in Streams : /\ Total(down, received[z], z, sum[z])
                               /\ received[z] \in 0..MaxPrint /\ received[z] <= sum[z]
                               /\ out[z] \in 0..MaxPrint /\ printed[z] \in 0..MaxPrint
         /\ Accounted(sum)
  BY Totals
<1>2. /\ down \in Seq(DownFrames) /\ Len(down) <= Room /\ Len(down) <= Room + 1
      /\ n <= out[s] /\ UNCHANGED <<printed, receiving, received>>
      /\ remaining \in Nat /\ exceeded \in BOOLEAN /\ receiving \in BOOLEAN
      /\ out' = [out EXCEPT ![s] = @ - n]
  BY LinkAssumption
     DEF LinkInv, DownTypes, TaskTypes, ProcessTypes, Pump, Free, processVars, Consume
<1>3. \A z \in Streams : /\ out'[z] = IF z = s THEN out[s] - n ELSE out[z]
                         /\ out'[z] \in 0..MaxPrint /\ sum[z] \in 0..MaxPrint
                         /\ out'[z] <= out[z]
  <2>1. MaxPrint \in Nat
    BY LinkAssumption
  <2> QED
    BY <1>1, <1>2, <2>1 DEF LinkInv, OutputTypes
<1>4. OutputTypes'
  <2>1. out' = [z \in Streams |-> out'[z]]
    BY <1>2 DEF LinkInv, OutputTypes
  <2>2. out' \in [Streams -> 0..MaxPrint]
    BY <1>3, <2>1
  <2> QED
    BY <1>2, <2>2 DEF LinkInv, OutputTypes
<1>5. CASE n > remaining
  <2>1. exceeded' /\ UNCHANGED <<remaining, down>>
    BY <1>5, LinkAssumption DEF Pump, Consume
  <2>2. \A z \in Streams : sum[z] + out'[z] <= printed[z]
    BY <1>1, <1>3, LinkAssumption DEF Accounted
  <2>3. Accounted(sum)'
    BY <1>1, <1>2, <2>1, <2>2 DEF Accounted
  <2> QED
    BY <1>1, <1>2, <1>4, <2>1, <2>3 DEF OutputIsAccounted, LinkInv, DownTypes
<1>6. CASE ~(n > remaining)
  <2> DEFINE x == <<s, n>>
             new == [z \in Streams |-> sum[z] + Bytes(x, z)]
  <2>1. /\ x \in DownFrames /\ down' = Append(down, x) /\ UNCHANGED exceeded
        /\ remaining' = remaining - n
        /\ \A z \in Streams : Bytes(x, z) = IF z = s THEN n ELSE 0
    BY <1>6 DEF Pump, Consume, DownFrames, Bytes
  <2> HIDE DEF x
  <2>2. /\ new \in [Streams -> 0..MaxPrint]
        /\ \A z \in Streams : new[z] = sum[z] + Bytes(x, z) /\ sum[z] + Bytes(x, z) <= MaxPrint
    <3>1. ASSUME NEW z \in Streams
          PROVE  sum[z] + Bytes(x, z) \in 0..MaxPrint
      <4>1. /\ sum[z] \in Nat /\ out[z] \in Nat /\ printed[z] \in Nat /\ printed[z] <= MaxPrint
            /\ sum[z] + out[z] <= printed[z]
        BY <1>1, LinkAssumption DEF Accounted
      <4>2. Bytes(x, z) \in Nat /\ Bytes(x, z) <= out[z]
        BY <1>2, <2>1, <4>1
      <4> QED
        BY <4>1, <4>2, LinkAssumption
    <3> QED
      BY <3>1, LinkAssumption
  <2> HIDE DEF new
  <2>3. ASSUME NEW z \in Streams
        PROVE  Total(down', received'[z], z, new[z])
    <3>1. Total(down, received[z], z, sum[z])
      BY <1>1
    <3>2. Total(Append(down, x), received[z], z, sum[z] + Bytes(x, z))
      BY <1>2, <2>1, <2>2, <3>1, TotalAppend
    <3> QED
      BY <1>2, <2>1, <2>2, <3>2
  <2>4. \A z \in Streams : new[z] + out'[z] = sum[z] + out[z]
    <3>1. ASSUME NEW z \in Streams
          PROVE  new[z] + out'[z] = sum[z] + out[z]
      <4>1. sum[z] \in Nat /\ out[z] \in Nat /\ n \in Nat
        BY <1>1, LinkAssumption
      <4>2. /\ new[z] = sum[z] + IF z = s THEN n ELSE 0
            /\ out'[z] = IF z = s THEN out[s] - n ELSE out[z]
        BY <1>3, <2>1, <2>2
      <4> QED
        BY <4>1, <4>2
    <3> QED
      BY <3>1
  <2>5. new["stdout"] + new["stderr"] + remaining' = sum["stdout"] + sum["stderr"] + remaining
    <3>1. /\ sum["stdout"] \in Nat /\ sum["stderr"] \in Nat
          /\ n \in Nat /\ remaining \in Nat
      BY <1>1, <1>2, LinkAssumption DEF Streams, LinkInv, TaskTypes
    <3>2. /\ new["stdout"] = sum["stdout"] + IF s = "stdout" THEN n ELSE 0
          /\ new["stderr"] = sum["stderr"] + IF s = "stderr" THEN n ELSE 0
      BY <2>1, <2>2 DEF Streams
    <3>3. s = "stdout" \/ s = "stderr"
      BY DEF Streams
    <3> QED
      BY <2>1, <3>1, <3>2, <3>3
  <2>6. /\ \A z \in Streams : /\ new[z] + out'[z] <= printed'[z]
                              /\ receiving' /\ ~exceeded' => new[z] + out'[z] = printed'[z]
        /\ new["stdout"] + new["stderr"] + remaining' <= Limit
    BY <1>1, <1>2, <2>1, <2>4, <2>5 DEF Accounted
  <2>7. \E t \in [Streams -> 0..MaxPrint] :
           /\ \A z \in Streams : Total(down', received'[z], z, t[z])
           /\ \A z \in Streams : /\ t[z] + out'[z] <= printed'[z]
                                 /\ receiving' /\ ~exceeded' => t[z] + out'[z] = printed'[z]
           /\ t["stdout"] + t["stderr"] + remaining' <= Limit
    BY <2>2, <2>3, <2>6
  <2>8. OutputIsAccounted'
    BY <2>7 DEF OutputIsAccounted, Accounted
  <2>9. DownTypes'
    BY <1>2, <2>1, LinkAssumption DEF DownTypes
  <2> QED
    BY <1>4, <2>8, <2>9
<1> QED
  BY <1>5, <1>6

LEMMA PrintAccounted ==
    ASSUME LinkInv, NEW s \in Streams, WorkerPrints(s)
    PROVE  OutputTypes' /\ OutputIsAccounted'
<1>1. PICK sum \in [Streams -> 0..MaxPrint] :
         /\ \A z \in Streams : /\ Total(down, received[z], z, sum[z])
                               /\ received[z] \in 0..MaxPrint /\ received[z] <= sum[z]
                               /\ out[z] \in 0..MaxPrint /\ printed[z] \in 0..MaxPrint
         /\ Accounted(sum)
  BY Totals
<1>2. /\ UNCHANGED <<down, receiving, received, exceeded, remaining>>
      /\ out' = [out EXCEPT ![s] = @ + 1] /\ printed' = [printed EXCEPT ![s] = @ + 1]
      /\ printed[s] < MaxPrint
  BY DEF WorkerPrints, processVars, linkVars, outputVars
<1>3. \A z \in Streams : /\ out'[z] = out[z] + (IF z = s THEN 1 ELSE 0)
                         /\ printed'[z] = printed[z] + (IF z = s THEN 1 ELSE 0)
                         /\ sum[z] \in 0..MaxPrint
  BY <1>1, <1>2 DEF LinkInv, OutputTypes
<1>4. \A z \in Streams : /\ out'[z] \in 0..MaxPrint /\ printed'[z] \in 0..MaxPrint
                         /\ sum[z] + out'[z] <= printed'[z]
                         /\ receiving /\ ~exceeded => sum[z] + out'[z] = printed'[z]
  BY <1>1, <1>2, <1>3, LinkAssumption DEF Accounted
<1>5. OutputTypes'
  <2>1. /\ out' = [z \in Streams |-> out'[z]] /\ printed' = [z \in Streams |-> printed'[z]]
    BY <1>2 DEF LinkInv, OutputTypes
  <2>2. out' \in [Streams -> 0..MaxPrint] /\ printed' \in [Streams -> 0..MaxPrint]
    BY <1>4, <2>1
  <2> QED
    BY <1>2, <2>2 DEF LinkInv, OutputTypes
<1>6. Accounted(sum)'
  BY <1>1, <1>2, <1>4 DEF Accounted
<1> QED
  BY <1>1, <1>2, <1>5, <1>6 DEF OutputIsAccounted

LEMMA ExitAccounted ==
    ASSUME LinkInv, SendExit
    PROVE  OutputIsAccounted' /\ DownTypes'
<1>1. PICK sum \in [Streams -> 0..MaxPrint] :
         /\ \A z \in Streams : Total(down, received[z], z, sum[z])
         /\ Accounted(sum)
  BY Totals
<1>2. /\ down \in Seq(DownFrames) /\ Len(down) <= Room + 1
      /\ UNCHANGED <<receiving, received, exceeded, remaining, out, printed>>
  BY DEF LinkInv, DownTypes, SendExit, processVars, outputVars, workerVars
<1>3. Accounted(sum)'
  BY <1>1, <1>2 DEF Accounted
<1> DEFINE x == <<"exit", 0>>
<1>4. /\ x \in DownFrames /\ \A z \in Streams : Bytes(x, z) = 0
      /\ \/ down' = down
         \/ down' = Append(down, x) /\ Len(down) <= Room
  BY DEF SendExit, Free, DownFrames, Bytes, Streams
<1> HIDE DEF x
<1>5. ASSUME NEW z \in Streams
      PROVE  Total(down', received'[z], z, sum[z])
  <2>1. Total(down, received[z], z, sum[z]) /\ sum[z] \in 0..MaxPrint
    BY <1>1
  <2>2. CASE down' = down
    BY <1>2, <2>1, <2>2
  <2>3. CASE down' = Append(down, x)
    <3>1. sum[z] + Bytes(x, z) = sum[z] /\ sum[z] + Bytes(x, z) <= MaxPrint
      BY <1>4, <2>1, LinkAssumption
    <3>2. Total(Append(down, x), received[z], z, sum[z] + Bytes(x, z))
      BY <1>2, <1>4, <2>1, <3>1, TotalAppend
    <3> QED
      BY <1>2, <2>3, <3>1, <3>2
  <2> QED
    BY <1>4, <2>2, <2>3
<1>6. DownTypes'
  BY <1>2, <1>4, LinkAssumption DEF DownTypes
<1> QED
  BY <1>3, <1>5, <1>6 DEF OutputIsAccounted

-----------------------------------------------------------------------------
(* The steps *)

\* A step of the service's input side leaves all the rest as it was.
LEMMA InputStep ==
    ASSUME LinkInv, UNCHANGED <<processVars, up, down, open, taskVars, outputVars, workerVars>>,
           frame_lock' \in Writers \cup {"control", None}
    PROVE  /\ ProcessTypes' /\ UpTypes' /\ DownTypes' /\ TaskTypes'
           /\ WorkerTypes' /\ OutputTypes' /\ OutputIsAccounted' /\ EndsInOrder'
           /\ ExitIsLast' /\ ExitMeansDelivered'
<1>1. ProcessTypes' /\ UpTypes' /\ DownTypes' /\ WorkerTypes' /\ OutputTypes'
  BY DEF LinkInv, ProcessTypes, UpTypes, DownTypes, WorkerTypes, OutputTypes,
     processVars, outputVars, workerVars
<1>2. TaskTypes' /\ EndsInOrder'
  BY DEF LinkInv, TaskTypes, EndsInOrder, taskVars, outputVars, workerVars
<1>3. ExitIsLast' /\ ExitMeansDelivered'
  BY DEF LinkInv, ExitIsLast, ExitMeansDelivered, processVars, taskVars,
     outputVars, workerVars
<1>4. OutputIsAccounted'
  BY DEF LinkInv, OutputIsAccounted, Accounted, processVars, outputVars,
     workerVars
<1> QED
  BY <1>1, <1>2, <1>3, <1>4

\* The steps of the writers ...
LEMMA WriterInv ==
    ASSUME LinkInv, NEW w \in Writers,
           Write(w) \/ Drain(w) \/ SendChunk(w) \/ Drained(w) \/ Cancel(w)
    PROVE  LinkInv'
<1>1. CASE Write(w)
  <2>1. /\ ProcessTypes' /\ UpTypes' /\ DownTypes' /\ TaskTypes'
        /\ WorkerTypes' /\ OutputTypes' /\ OutputIsAccounted' /\ EndsInOrder'
        /\ ExitIsLast' /\ ExitMeansDelivered'
    BY <1>1, InputStep DEF Write, LinkInv, UpTypes, linkVars
  <2>2. InputTypes'
    <3>1. pending' \in Seq(Chunks)
      BY <1>1, WriteOrdered
    <3>2. Len(pending') <= MaxBuffered
      BY <1>1, LinkAssumption DEF Write, LinkInv, InputTypes
    <3> QED
      BY <1>1, <3>1, <3>2, LinkAssumption DEF Write, LinkInv, InputTypes
  <2>3. Ordered'
    BY <1>1, WriteOrdered
  <2> QED
    BY <2>1, <2>2, <2>3 DEF LinkInv
<1>2. CASE Drain(w)
  <2>1. /\ ProcessTypes' /\ UpTypes' /\ DownTypes' /\ TaskTypes'
        /\ WorkerTypes' /\ OutputTypes' /\ OutputIsAccounted' /\ EndsInOrder'
        /\ ExitIsLast' /\ ExitMeansDelivered'
    BY <1>2, InputStep DEF Drain, LinkInv, UpTypes, linkVars
  <2>2. InputTypes'
    BY <1>2, LinkAssumption DEF Drain, LinkInv, InputTypes
  <2>3. Ordered'
    BY <1>2, TakeOrdered DEF Drain, linkVars, workerVars
  <2> QED
    BY <2>1, <2>2, <2>3 DEF LinkInv
<1>3. CASE SendChunk(w)
  <2>1. /\ ProcessTypes' /\ DownTypes' /\ TaskTypes' /\ WorkerTypes'
        /\ OutputTypes' /\ OutputIsAccounted' /\ EndsInOrder' /\ ExitIsLast'
        /\ ExitMeansDelivered'
    BY <1>3, LinkAssumption DEF SendChunk, Send, LinkInv, inputVars, processVars, linkVars,
       taskVars, outputVars, workerVars, ProcessTypes, DownTypes, TaskTypes,
       WorkerTypes, OutputTypes, OutputIsAccounted, Accounted, EndsInOrder,
       ExitIsLast, ExitMeansDelivered
  <2>2. /\ InputTypes' /\ UpTypes' /\ Ordered'
    <3>1. Ordered' /\ batch' \in Seq(Chunks) /\ up' \in Seq(UpFrames)
      BY <1>3, SendOrdered DEF SendChunk, Send, workerVars
    <3> QED
      BY <1>3, <3>1, LinkAssumption DEF SendChunk, Send, LinkInv, InputTypes, UpTypes
  <2> QED
    BY <2>1, <2>2 DEF LinkInv
<1>4. CASE Drained(w)
  <2>1. /\ ProcessTypes' /\ UpTypes' /\ DownTypes' /\ TaskTypes'
        /\ WorkerTypes' /\ OutputTypes' /\ OutputIsAccounted' /\ EndsInOrder'
        /\ ExitIsLast' /\ ExitMeansDelivered'
    BY <1>4, InputStep DEF Drained, Leave, LinkInv, UpTypes
  <2>2. InputTypes'
    BY <1>4 DEF Drained, Leave, LinkInv, InputTypes
  <2>3. Ordered'
    BY <1>4, TakeOrdered DEF Drained, Leave, workerVars
  <2> QED
    BY <2>1, <2>2, <2>3 DEF LinkInv
<1>5. CASE Cancel(w)
  <2>1. /\ ProcessTypes' /\ UpTypes' /\ DownTypes' /\ TaskTypes'
        /\ WorkerTypes' /\ OutputTypes' /\ OutputIsAccounted' /\ EndsInOrder'
        /\ ExitIsLast' /\ ExitMeansDelivered'
    BY <1>5, InputStep DEF Cancel, Leave, LinkInv, UpTypes
  <2>2. InputTypes'
    BY <1>5 DEF Cancel, Leave, LinkInv, InputTypes
  <2>3. Ordered'
    BY <1>5, TakeOrdered DEF Cancel, Leave, workerVars
  <2> QED
    BY <2>1, <2>2, <2>3 DEF LinkInv
<1> QED
  BY <1>1, <1>2, <1>3, <1>4, <1>5

\* ... of the process that the service sees ...
LEMMA ProcessInv ==
    ASSUME LinkInv, \/ \E k \in Controls : Ask(k)
           \/ SendControl \/ SendControlFails \/ Flushed \/ Receive
           \/ \E c \in {"exit", "lost"} : ReceiveEnds(c)
    PROVE  LinkInv'
<1>1. ASSUME NEW k \in Controls, Ask(k)
      PROVE  LinkInv'
  <2>1. /\ InputTypes' /\ UpTypes' /\ DownTypes' /\ TaskTypes' /\ WorkerTypes'
        /\ OutputTypes' /\ Ordered' /\ OutputIsAccounted' /\ EndsInOrder'
        /\ ExitIsLast' /\ ExitMeansDelivered'
    BY <1>1, LinkAssumption DEF Ask, LinkInv, inputVars, processVars, linkVars,
       taskVars, outputVars, workerVars, InputTypes, UpTypes, DownTypes, TaskTypes,
       WorkerTypes, OutputTypes, Ordered, OutputIsAccounted, Accounted, EndsInOrder,
       ExitIsLast, ExitMeansDelivered
  <2>2. ProcessTypes'
    BY <1>1 DEF Ask, LinkInv, ProcessTypes
  <2> QED
    BY <2>1, <2>2 DEF LinkInv
<1>2. CASE SendControl
  <2>1. /\ InputTypes' /\ DownTypes' /\ TaskTypes' /\ WorkerTypes'
        /\ OutputTypes' /\ OutputIsAccounted' /\ EndsInOrder' /\ ExitIsLast'
        /\ ExitMeansDelivered'
    BY <1>2, LinkAssumption DEF SendControl, Send, LinkInv, inputVars, processVars,
       linkVars, taskVars, outputVars, workerVars, InputTypes, DownTypes, TaskTypes,
       WorkerTypes, OutputTypes, OutputIsAccounted, Accounted, EndsInOrder,
       ExitIsLast, ExitMeansDelivered
  <2>2. ProcessTypes'
    BY <1>2 DEF SendControl, Send, LinkInv, ProcessTypes
  <2>3. /\ UpTypes' /\ Ordered'
    <3>1. Head(control) \in Controls
      BY <1>2 DEF SendControl, Send, LinkInv, ProcessTypes
    <3>2. Ordered' /\ up' \in Seq(UpFrames)
      BY <1>2, <3>1, ControlOrdered DEF SendControl, Send, inputVars, workerVars
    <3> QED
      BY <1>2, <3>2, LinkAssumption DEF SendControl, Send, LinkInv, UpTypes
  <2> QED
    BY <2>1, <2>2, <2>3 DEF LinkInv
<1>3. CASE SendControlFails
  <2>1. /\ InputTypes' /\ UpTypes' /\ DownTypes' /\ TaskTypes' /\ WorkerTypes'
        /\ OutputTypes' /\ Ordered' /\ OutputIsAccounted' /\ EndsInOrder'
        /\ ExitIsLast'
    BY <1>3, LinkAssumption DEF SendControlFails, Finish, LinkInv, inputVars,
       processVars, linkVars, taskVars, outputVars, workerVars, InputTypes, UpTypes,
       DownTypes, TaskTypes, WorkerTypes, OutputTypes, Ordered, OutputIsAccounted,
       Accounted, EndsInOrder, ExitIsLast
  <2>2. ProcessTypes'
    BY <1>3 DEF SendControlFails, Finish, LinkInv, ProcessTypes
  <2>3. ExitMeansDelivered'
    BY <1>3 DEF SendControlFails, Finish, LinkInv, taskVars, outputVars, workerVars,
       ExitMeansDelivered
  <2> QED
    BY <2>1, <2>2, <2>3 DEF LinkInv
<1>4. CASE Receive
  <2>1. /\ InputTypes' /\ ProcessTypes' /\ UpTypes' /\ TaskTypes'
        /\ WorkerTypes' /\ Ordered' /\ EndsInOrder'
    BY <1>4 DEF Receive, LinkInv, inputVars, taskVars, outputVars, workerVars,
       InputTypes, ProcessTypes, UpTypes, TaskTypes, WorkerTypes, Ordered, EndsInOrder
  <2>2. /\ DownTypes' /\ OutputTypes' /\ OutputIsAccounted'
    BY <1>4, ReceiveAccounted
  <2>3. ExitIsLast'
    <3>1. /\ Len(down) \in Nat \ {0} /\ Len(down') = Len(down) - 1
          /\ \A i \in 1..Len(down') : down'[i] = down[i + 1]
          /\ UNCHANGED <<phase, exceeded, out>>
      BY <1>4 DEF Receive, LinkInv, DownTypes, taskVars, outputVars, workerVars
    <3>2. \A i \in 1..Len(down') : i + 1 \in 1..Len(down) /\ (i + 1 = Len(down) => i = Len(down'))
      BY <3>1
    <3> QED
      BY <3>1, <3>2 DEF LinkInv, ExitIsLast
  <2>4. ExitMeansDelivered'
    BY <1>4 DEF Receive, LinkInv, ExitMeansDelivered
  <2> QED
    BY <2>1, <2>2, <2>3, <2>4 DEF LinkInv
<1>5. ASSUME NEW c \in {"exit", "lost"}, ReceiveEnds(c)
      PROVE  LinkInv'
  <2>1. /\ UpTypes' /\ WorkerTypes' /\ OutputTypes'
    BY <1>5 DEF ReceiveEnds, LinkInv, workerVars, UpTypes, WorkerTypes, OutputTypes
  <2>2. InputTypes'
    BY <1>5, LinkAssumption DEF ReceiveEnds, LinkInv, InputTypes
  <2>3. ProcessTypes'
    BY <1>5, LinkAssumption DEF ReceiveEnds, Finish, LinkInv, inputVars, processVars,
       linkVars, taskVars, outputVars, workerVars, ProcessTypes, Controls
  <2>4. DownTypes'
    BY <1>5, LinkAssumption DEF ReceiveEnds, DownTypes
  <2>5. TaskTypes'
    BY <1>5, LinkAssumption DEF ReceiveEnds, Finish, LinkInv, inputVars, processVars,
       linkVars, taskVars, outputVars, workerVars, TaskTypes
  <2>6. Ordered'
    BY <1>5, TakeOrdered DEF ReceiveEnds, workerVars
  <2>7. /\ OutputIsAccounted' /\ ExitMeansDelivered'
    BY <1>5, ReceiveEndsAccounted
  <2>8. EndsInOrder'
    BY <1>5 DEF ReceiveEnds, LinkInv, taskVars, outputVars, workerVars, EndsInOrder
  <2>9. ExitIsLast'
    BY <1>5 DEF ReceiveEnds, ExitIsLast
  <2> QED
    BY <2>1, <2>2, <2>3, <2>4, <2>5, <2>6, <2>7, <2>8, <2>9 DEF LinkInv
<1>6. CASE Flushed
  <2>1. /\ ProcessTypes' /\ UpTypes' /\ DownTypes' /\ TaskTypes'
        /\ WorkerTypes' /\ OutputTypes' /\ OutputIsAccounted' /\ EndsInOrder'
        /\ ExitIsLast' /\ ExitMeansDelivered'
    BY <1>6, InputStep DEF Flushed
  <2>2. InputTypes' /\ Ordered'
    BY <1>6 DEF Flushed, LinkInv, InputTypes, Ordered, inputVars, workerVars
  <2> QED
    BY <2>1, <2>2 DEF LinkInv
<1> QED
  BY <1>1, <1>2, <1>3, <1>4, <1>5, <1>6

\* ... of the relay ...
LEMMA RelayInv ==
    ASSUME LinkInv, RelayRead \/ RelayDrained \/ DockerControl \/ RelayEnds
    PROVE  LinkInv'
<1>1. CASE RelayRead
  <2>1. /\ InputTypes' /\ ProcessTypes' /\ DownTypes' /\ OutputTypes'
        /\ OutputIsAccounted' /\ EndsInOrder' /\ ExitIsLast'
        /\ ExitMeansDelivered'
    BY <1>1, LinkAssumption DEF RelayRead, LinkInv, inputVars, processVars, linkVars,
       taskVars, outputVars, workerVars, InputTypes, ProcessTypes, DownTypes,
       OutputTypes, OutputIsAccounted, Accounted, EndsInOrder, ExitIsLast,
       ExitMeansDelivered
  <2>2. /\ UpTypes' /\ WorkerTypes' /\ Ordered'
    BY <1>1, RelayOrdered DEF RelayRead, LinkInv, UpTypes, WorkerTypes
  <2>3. TaskTypes'
    BY <1>1 DEF RelayRead, LinkInv, outputVars, TaskTypes
  <2> QED
    BY <2>1, <2>2, <2>3 DEF LinkInv
<1>2. CASE RelayDrained
  <2>1. /\ InputTypes' /\ ProcessTypes' /\ UpTypes' /\ DownTypes'
        /\ WorkerTypes' /\ OutputTypes' /\ Ordered' /\ OutputIsAccounted'
        /\ EndsInOrder' /\ ExitIsLast' /\ ExitMeansDelivered'
    BY <1>2, LinkAssumption DEF RelayDrained, LinkInv, inputVars, processVars,
       linkVars, taskVars, outputVars, workerVars, InputTypes, ProcessTypes, UpTypes,
       DownTypes, WorkerTypes, OutputTypes, Ordered, OutputIsAccounted, Accounted,
       EndsInOrder, ExitIsLast, ExitMeansDelivered
  <2>2. TaskTypes'
    BY <1>2 DEF RelayDrained, LinkInv, linkVars, outputVars, workerVars, TaskTypes
  <2> QED
    BY <2>1, <2>2 DEF LinkInv
<1>3. CASE DockerControl
  <2>1. /\ InputTypes' /\ ProcessTypes' /\ UpTypes' /\ DownTypes'
        /\ WorkerTypes' /\ OutputTypes' /\ Ordered' /\ OutputIsAccounted'
        /\ ExitIsLast' /\ ExitMeansDelivered'
    BY <1>3, LinkAssumption DEF DockerControl, LinkInv, inputVars, processVars,
       linkVars, taskVars, outputVars, workerVars, InputTypes, ProcessTypes, UpTypes,
       DownTypes, WorkerTypes, OutputTypes, Ordered, OutputIsAccounted, Accounted,
       ExitIsLast, ExitMeansDelivered
  <2>2. TaskTypes'
    BY <1>3, LinkAssumption DEF DockerControl, LinkInv, inputVars, processVars,
       linkVars, taskVars, outputVars, workerVars, TaskTypes
  <2>3. EndsInOrder'
    <3>1. (alive' => alive) /\ UNCHANGED <<open, phase, pump, exceeded, out>>
      <4>1. CASE alive' = alive
        BY <1>3, <4>1 DEF DockerControl, linkVars, outputVars
      <4>2. CASE alive' = FALSE
        BY <1>3, <4>2 DEF DockerControl, linkVars, outputVars
      <4> QED
        BY <1>3, <4>1, <4>2 DEF DockerControl
    <3> QED
      BY <3>1 DEF LinkInv, EndsInOrder
  <2> QED
    BY <2>1, <2>2, <2>3 DEF LinkInv
<1>4. CASE RelayEnds
  <2>1. /\ InputTypes' /\ ProcessTypes' /\ UpTypes' /\ DownTypes'
        /\ WorkerTypes' /\ OutputTypes' /\ Ordered' /\ OutputIsAccounted'
        /\ EndsInOrder' /\ ExitIsLast' /\ ExitMeansDelivered'
    BY <1>4, LinkAssumption DEF RelayEnds, LinkInv, inputVars, processVars, linkVars,
       taskVars, outputVars, workerVars, InputTypes, ProcessTypes, UpTypes, DownTypes,
       WorkerTypes, OutputTypes, Ordered, OutputIsAccounted, Accounted, EndsInOrder,
       ExitIsLast, ExitMeansDelivered
  <2>2. TaskTypes'
    BY <1>4 DEF RelayEnds, LinkInv, linkVars, outputVars, workerVars, TaskTypes
  <2> QED
    BY <2>1, <2>2 DEF LinkInv
<1> QED
  BY <1>1, <1>2, <1>3, <1>4

\* ... of the pumps and their supervision ...
LEMMA SuperviseInv ==
    ASSUME LinkInv, NEW s \in Streams,
           PumpEnds(s) \/ (\E n \in 1..MaxPrint : Pump(s, n)) \/ Supervise \/ SendExit \/ Crash
    PROVE  LinkInv'
<1>1. CASE PumpEnds(s)
  <2>1. /\ InputTypes' /\ ProcessTypes' /\ UpTypes' /\ DownTypes'
        /\ WorkerTypes' /\ OutputTypes' /\ Ordered' /\ OutputIsAccounted'
        /\ ExitIsLast' /\ ExitMeansDelivered'
    BY <1>1, LinkAssumption DEF PumpEnds, LinkInv, inputVars, processVars, linkVars,
       taskVars, outputVars, workerVars, InputTypes, ProcessTypes, UpTypes, DownTypes,
       WorkerTypes, OutputTypes, Ordered, OutputIsAccounted, Accounted, ExitIsLast,
       ExitMeansDelivered
  <2>2. TaskTypes'
    BY <1>1 DEF PumpEnds, LinkInv, linkVars, taskVars, workerVars, TaskTypes
  <2>3. EndsInOrder'
    BY <1>1 DEF PumpEnds, LinkInv, linkVars, taskVars, workerVars, EndsInOrder
  <2> QED
    BY <2>1, <2>2, <2>3 DEF LinkInv
<1>2. ASSUME NEW n \in 1..MaxPrint, Pump(s, n)
      PROVE  LinkInv'
  <2>1. /\ InputTypes' /\ ProcessTypes' /\ UpTypes' /\ WorkerTypes'
        /\ Ordered'
    BY <1>2 DEF Pump, LinkInv, inputVars, processVars, InputTypes, ProcessTypes,
       UpTypes, WorkerTypes, Ordered
  <2>2. /\ DownTypes' /\ OutputTypes' /\ OutputIsAccounted'
    BY <1>2, PumpAccounted
  <2>3. TaskTypes'
    <3>1. CASE n > remaining
      BY <1>2, <3>1 DEF Pump, Consume, LinkInv, TaskTypes, taskVars
    <3>2. CASE ~(n > remaining)
      BY <1>2, <3>2, LinkAssumption DEF Pump, Consume, LinkInv, TaskTypes, taskVars
    <3> QED
      BY <3>1, <3>2
  <2>4. EndsInOrder'
    BY <1>2 DEF Pump, Consume, LinkInv, taskVars, EndsInOrder
  <2>5. ExitIsLast'
    <3>1. phase # "closed"
      BY <1>2 DEF Pump, LinkInv, EndsInOrder
    <3>2. \A i \in 1..Len(down) : down[i][1] # "exit"
      BY <3>1 DEF LinkInv, ExitIsLast
    <3>3. \A i \in 1..Len(down') : down'[i][1] # "exit"
      <4>1. down' = down \/ down' = Append(down, <<s, n>>)
        BY <1>2 DEF Pump
      <4>2. \A i \in 1..Len(down') : \/ i \in 1..Len(down) /\ down'[i] = down[i]
                                    \/ down'[i] = <<s, n>>
        BY <4>1 DEF LinkInv, DownTypes
      <4> QED
        BY <3>2, <4>2 DEF Streams
    <3> QED
      BY <3>3 DEF ExitIsLast
  <2>6. ExitMeansDelivered'
    BY <1>2 DEF Pump, Consume, LinkInv, processVars, taskVars, ExitMeansDelivered
  <2> QED
    BY <2>1, <2>2, <2>3, <2>4, <2>5, <2>6 DEF LinkInv
<1>3. CASE Supervise
  <2>1. /\ InputTypes' /\ ProcessTypes' /\ UpTypes' /\ DownTypes'
        /\ WorkerTypes' /\ OutputTypes' /\ Ordered' /\ OutputIsAccounted'
    BY <1>3, LinkAssumption DEF Supervise, LinkInv, inputVars, processVars, linkVars,
       taskVars, outputVars, workerVars, InputTypes, ProcessTypes, UpTypes, DownTypes,
       WorkerTypes, OutputTypes, Ordered, OutputIsAccounted, Accounted
  <2>2. TaskTypes'
    BY <1>3, LinkAssumption DEF Supervise, LinkInv, inputVars, processVars, linkVars,
       taskVars, outputVars, workerVars, TaskTypes
  <2>3. EndsInOrder'
    BY <1>3 DEF Supervise, LinkInv, linkVars, outputVars, EndsInOrder
  <2>4. ExitIsLast'
    BY <1>3 DEF Supervise, LinkInv, linkVars, ExitIsLast
  <2>5. ExitMeansDelivered'
    BY <1>3 DEF Supervise, LinkInv, processVars, ExitMeansDelivered
  <2> QED
    BY <2>1, <2>2, <2>3, <2>4, <2>5 DEF LinkInv
<1>4. CASE SendExit
  <2>1. /\ InputTypes' /\ ProcessTypes' /\ UpTypes' /\ WorkerTypes'
        /\ OutputTypes' /\ Ordered'
    BY <1>4 DEF SendExit, LinkInv, inputVars, processVars, workerVars, InputTypes,
       ProcessTypes, UpTypes, WorkerTypes, OutputTypes, Ordered
  <2>2. /\ DownTypes' /\ OutputIsAccounted'
    BY <1>4, ExitAccounted
  <2>3. TaskTypes'
    BY <1>4, LinkAssumption DEF SendExit, LinkInv, inputVars, processVars, linkVars,
       taskVars, outputVars, workerVars, TaskTypes
  <2>4. EndsInOrder'
    BY <1>4 DEF SendExit, LinkInv, outputVars, workerVars, EndsInOrder
  <2>5. ExitIsLast'
    <3>1. \A i \in 1..Len(down) : down[i][1] # "exit"
      BY <1>4 DEF SendExit, LinkInv, ExitIsLast
    <3>2. phase' = "closed" /\ UNCHANGED <<exceeded, out>>
      BY <1>4 DEF SendExit, outputVars, workerVars
    <3>3. CASE open
      <4>1. ~exceeded => \A r \in Streams : out[r] = 0
        BY <1>4, <3>3 DEF SendExit, LinkInv, EndsInOrder
      <4>2. \A i \in 1..Len(down') : i = Len(down') \/ (i \in 1..Len(down) /\ down'[i] = down[i])
        BY <1>4, <3>3 DEF SendExit, LinkInv, DownTypes
      <4> QED
        BY <3>1, <3>2, <4>1, <4>2 DEF ExitIsLast
    <3>4. CASE ~open
      BY <1>4, <3>1, <3>4 DEF SendExit, ExitIsLast
    <3> QED
      BY <3>3, <3>4
  <2>6. ExitMeansDelivered'
    BY <1>4 DEF SendExit, LinkInv, processVars, ExitMeansDelivered
  <2> QED
    BY <2>1, <2>2, <2>3, <2>4, <2>5, <2>6 DEF LinkInv
<1>5. CASE Crash
  <2>1. /\ InputTypes' /\ ProcessTypes' /\ UpTypes' /\ DownTypes'
        /\ WorkerTypes' /\ OutputTypes' /\ Ordered' /\ OutputIsAccounted'
    BY <1>5, LinkAssumption DEF Crash, LinkInv, inputVars, processVars, linkVars,
       taskVars, outputVars, workerVars, InputTypes, ProcessTypes, UpTypes, DownTypes,
       WorkerTypes, OutputTypes, Ordered, OutputIsAccounted, Accounted
  <2>2. TaskTypes'
    BY <1>5, LinkAssumption DEF Crash, LinkInv, inputVars, processVars, linkVars,
       taskVars, outputVars, workerVars, TaskTypes
  <2>3. EndsInOrder'
    BY <1>5 DEF Crash, EndsInOrder
  <2>4. ExitIsLast'
    BY <1>5 DEF Crash, LinkInv, ExitIsLast
  <2>5. ExitMeansDelivered'
    BY <1>5 DEF Crash, LinkInv, processVars, ExitMeansDelivered
  <2> QED
    BY <2>1, <2>2, <2>3, <2>4, <2>5 DEF LinkInv
<1> QED
  BY <1>1, <1>2, <1>3, <1>4, <1>5

\* ... and of the worker.
LEMMA WorkerInv ==
    ASSUME LinkInv, (\E s \in Streams : WorkerPrints(s)) \/ ReadStdin \/ Exit
    PROVE  LinkInv'
<1>1. ASSUME NEW s \in Streams, WorkerPrints(s)
      PROVE  LinkInv'
  <2>1. /\ InputTypes' /\ ProcessTypes' /\ UpTypes' /\ DownTypes'
        /\ TaskTypes' /\ WorkerTypes' /\ Ordered'
    BY <1>1 DEF WorkerPrints, LinkInv, inputVars, processVars, linkVars, taskVars,
       outputVars, InputTypes, ProcessTypes, UpTypes, DownTypes, TaskTypes,
       WorkerTypes, Ordered
  <2>2. /\ OutputTypes' /\ OutputIsAccounted'
    BY <1>1, PrintAccounted
  <2>3. EndsInOrder'
    BY <1>1 DEF WorkerPrints, LinkInv, linkVars, taskVars, outputVars, EndsInOrder
  <2>4. ExitIsLast'
    BY <1>1 DEF WorkerPrints, LinkInv, linkVars, ExitIsLast, EndsInOrder
  <2>5. ExitMeansDelivered'
    BY <1>1 DEF WorkerPrints, LinkInv, processVars, ExitMeansDelivered, EndsInOrder
  <2> QED
    BY <2>1, <2>2, <2>3, <2>4, <2>5 DEF LinkInv
<1>2. CASE ReadStdin
  <2>1. /\ InputTypes' /\ ProcessTypes' /\ DownTypes' /\ OutputTypes'
        /\ OutputIsAccounted' /\ EndsInOrder' /\ ExitIsLast'
        /\ ExitMeansDelivered'
    BY <1>2, LinkAssumption DEF ReadStdin, LinkInv, inputVars, processVars, linkVars,
       taskVars, outputVars, workerVars, InputTypes, ProcessTypes, DownTypes,
       OutputTypes, OutputIsAccounted, Accounted, EndsInOrder, ExitIsLast,
       ExitMeansDelivered
  <2>2. UpTypes'
    BY <1>2 DEF ReadStdin, LinkInv, linkVars, UpTypes
  <2>3. TaskTypes'
    BY <1>2 DEF ReadStdin, LinkInv, linkVars, taskVars, outputVars, TaskTypes
  <2>4. /\ WorkerTypes' /\ Ordered'
    BY <1>2, ReadOrdered
  <2> QED
    BY <2>1, <2>2, <2>3, <2>4 DEF LinkInv
<1>3. CASE Exit
  <2>1. /\ InputTypes' /\ ProcessTypes' /\ UpTypes' /\ DownTypes'
        /\ WorkerTypes' /\ OutputTypes' /\ Ordered' /\ OutputIsAccounted'
        /\ ExitIsLast' /\ ExitMeansDelivered'
    BY <1>3, LinkAssumption DEF Exit, LinkInv, inputVars, processVars, linkVars,
       taskVars, outputVars, workerVars, InputTypes, ProcessTypes, UpTypes, DownTypes,
       WorkerTypes, OutputTypes, Ordered, OutputIsAccounted, Accounted, ExitIsLast,
       ExitMeansDelivered
  <2>2. TaskTypes'
    BY <1>3, LinkAssumption DEF Exit, LinkInv, inputVars, processVars, linkVars,
       taskVars, outputVars, workerVars, TaskTypes
  <2>3. EndsInOrder'
    BY <1>3 DEF Exit, LinkInv, linkVars, taskVars, outputVars, EndsInOrder
  <2> QED
    BY <2>1, <2>2, <2>3 DEF LinkInv
<1> QED
  BY <1>1, <1>2, <1>3

LEMMA LinkInit == Init => LinkInv
<1> SUFFICES ASSUME Init PROVE LinkInv
  OBVIOUS
<1>1. InputTypes /\ ProcessTypes /\ UpTypes /\ DownTypes
  BY LinkAssumption DEF Init, InputTypes, ProcessTypes, UpTypes, DownTypes
<1>2. TaskTypes /\ WorkerTypes /\ OutputTypes
  <2>1. 0 \in 0..MaxPrint /\ Limit \in 0..Limit
    BY LinkAssumption
  <2>2. TaskTypes
    BY <2>1 DEF Init, TaskTypes
  <2>3. OutputTypes
    BY <2>1 DEF Init, OutputTypes
  <2>4. WorkerTypes
    BY DEF Init, WorkerTypes
  <2> QED
    BY <2>2, <2>3, <2>4
<1>3. Ordered
  <2>1. FlightIncreases(<<>>) /\ FlightOf(<<>>) = {}
    BY DEF FlightIncreases, FlightOf
  <2> QED
    BY <2>1, NoChunks DEF Init, Ordered, Stages, Older
<1>4. OutputIsAccounted
  <2>1. 0 \in 0..MaxPrint
    BY LinkAssumption
  <2>2. received \in [Streams -> 0..MaxPrint] /\ down = <<>>
    BY <1>2 DEF Init, OutputTypes
  <2>3. \A s \in Streams : Total(down, received[s], s, received[s])
    BY <2>2, TotalEmpty
  <2>4. Accounted(received)
    BY LinkAssumption DEF Init, Accounted, Streams
  <2> QED
    BY <2>2, <2>3, <2>4 DEF OutputIsAccounted
<1>5. EndsInOrder /\ ExitIsLast /\ ExitMeansDelivered
  BY LinkAssumption DEF Init, EndsInOrder, ExitIsLast, ExitMeansDelivered
<1> QED
  BY <1>1, <1>2, <1>3, <1>4, <1>5 DEF LinkInv

LEMMA LinkStep == LinkInv /\ [Next]_vars => LinkInv'
<1> SUFFICES ASSUME LinkInv, [Next]_vars PROVE LinkInv'
  OBVIOUS
<1>1. CASE UNCHANGED vars
  <2>1. UNCHANGED <<inputVars, processVars, linkVars, taskVars, outputVars, workerVars>>
    BY <1>1 DEF vars
  <2>2. InputTypes' /\ Ordered'
    BY <2>1 DEF LinkInv, InputTypes, Ordered, inputVars, linkVars, workerVars
  <2> QED
    BY <2>1, <2>2, InputStep DEF LinkInv, UpTypes, linkVars
<1> QED
  BY <1>1, WriterInv, ProcessInv, RelayInv, SuperviseInv, WorkerInv DEF Next, Streams

(***************************************************************************)
(* The invariant of the link: chunks keep their order from place to place, *)
(* every printed byte is pumped, under way or received, and a connection   *)
(* ends with the worker, then its pumps, then EXIT (drain, _pump_output,   *)
(* _run_worker, _receive).                                                 *)
(***************************************************************************)
THEOREM LinkInvariant == Spec => []LinkInv
  BY LinkInit, LinkStep, PTL DEF Spec

(***************************************************************************)
(* Every variable keeps its type: the pending input stays within           *)
(* MAX_BUFFERED_STDIN, at most one frame is behind a full transport on the *)
(* way to the service, whose senders are never cancelled (nothing of the   *)
(* kind holds towards the broker), and the output budget never becomes     *)
(* negative.                                                               *)
(***************************************************************************)
THEOREM LinkTypes == Spec => []TypeOK
<1>1. LinkInv => TypeOK
  BY DEF LinkInv, TypeOK, InputTypes, ProcessTypes, UpTypes, DownTypes, TaskTypes,
     WorkerTypes, OutputTypes, UpFrames, DownFrames
<1> QED
  BY <1>1, LinkInvariant, PTL

(***************************************************************************)
(* Serial input reaches the worker in the order in which it was written,   *)
(* and no chunk twice, however the drains of its writers interleave with   *)
(* one another, with cancellations that leave a frame behind a full        *)
(* transport, with the relay and with the end of the connection.           *)
(***************************************************************************)
THEOREM InputInOrder == Spec => []StdinInOrder
<1>1. LinkInv => StdinInOrder
  BY OrderedIsInOrder
<1> QED
  BY <1>1, LinkInvariant, PTL

(***************************************************************************)
(* An exit code that the broker reported means that all output was         *)
(* received, unless the output limit was exceeded, and never more than     *)
(* the limit is.                                                           *)
(***************************************************************************)
THEOREM OutputDelivered == Spec => []OutputIsDelivered
<1>1. LinkInv => OutputIsDelivered
  <2> SUFFICES ASSUME LinkInv PROVE OutputIsDelivered
    OBVIOUS
  <2>1. PICK sum \in [Streams -> 0..MaxPrint] :
           /\ \A s \in Streams : received[s] \in 0..MaxPrint /\ received[s] <= sum[s]
           /\ Accounted(sum)
    BY Totals
  <2>2. received["stdout"] + received["stderr"] <= Limit
    <3>1. /\ "stdout" \in Streams /\ "stderr" \in Streams /\ remaining \in Nat
          /\ sum["stdout"] \in Nat /\ sum["stderr"] \in Nat
      BY <2>1, LinkAssumption DEF Streams, LinkInv, TaskTypes
    <3>2. /\ received["stdout"] \in Nat /\ received["stderr"] \in Nat
          /\ received["stdout"] <= sum["stdout"] /\ received["stderr"] <= sum["stderr"]
      BY <2>1, <3>1
    <3>3. sum["stdout"] + sum["stderr"] + remaining <= Limit
      BY <2>1 DEF Accounted
    <3> QED
      BY <3>1, <3>2, <3>3, LinkAssumption
  <2>3. returncode = "exit" /\ ~exceeded => received = printed
    BY DEF LinkInv, ExitMeansDelivered, OutputTypes
  <2> QED
    BY <2>2, <2>3 DEF OutputIsDelivered
<1> QED
  BY <1>1, LinkInvariant, PTL
=============================================================================
