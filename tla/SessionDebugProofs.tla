------------------------- MODULE SessionDebugProofs -------------------------
(***************************************************************************)
(* Proofs about SessionDebug, for every number of requests, run tasks,     *)
(* clients and addresses, every quota, and any number of late replies:     *)
(*                                                                         *)
(*   DebuggerTypes        Spec => []TypeOK                                 *)
(*   AnswersAreMatched    Spec => []AnswersMatch                           *)
(*   BreakpointsAreKnown  Spec => []BreakpointsAgree                       *)
(*   QuotaExcess          Spec => []QuotaExcessIsBounded                   *)
(*                                                                         *)
(* DebugInv is the inductive invariant.  One coroutine at most awaits a    *)
(* reply on a connection, and Matched says what is then under way on it:   *)
(* the request, its answer, a stop that is still owed, or nothing.  It     *)
(* holds until a command is given up with its reply to come (late; doubt   *)
(* then holds all addresses), and the next connection restores it.         *)
(***************************************************************************)
EXTENDS SessionDebug, FiniteSetTheorems, TLAPS

\* TypeOK in parts.
SessionTypes ==
    /\ state \in Powered \cup {"starting", "powered_off", "failed"}
    /\ gdb_client \in Clients \cup {None} /\ debug_run_task \in RunTasks \cup {None}
    /\ debug_breakpoints \subseteq Addresses
    /\ power \in {"idle", "closed", "launch"}
    /\ vm \in {"none", "running", "halted"} /\ resumed \in BOOLEAN
    /\ hardware \subseteq Addresses /\ doubt \subseteq Addresses /\ late \in BOOLEAN

TaskTypes ==
    /\ pc \in [Tasks -> {"idle", "qmp", "answered", "connect", "negotiate", "start",
                         "lock", "reply", "await_run", "close", "finally"}]
    /\ op \in [Tasks -> Ops \cup {Continue, Nothing}]
    /\ held \in [Tasks -> Clients \cup RunTasks \cup {None, "running", "halted"}]
    /\ \A t \in Tasks : pc[t] \in {"negotiate", "lock", "reply"} => held[t] \in Clients
    /\ \A t \in Tasks : pc[t] = "await_run" => held[t] \in RunTasks

WireTypes ==
    /\ conn \in Clients \cup {None} /\ open \in BOOLEAN
    /\ todo \in Seq(DebugOps \cup {Continue})
    /\ replies \in Seq(DebugOps \cup {Continue, Refusal})

\* What the coroutines of each kind are at.
TasksOK ==
    /\ \A r \in RunTasks :
        /\ pc[r] \notin {"connect", "negotiate", "await_run"}
        /\ op[r] = IF pc[r] = "idle" THEN Nothing ELSE Continue
    /\ \A q \in Requests :
        /\ pc[q] \notin {"start", "close", "finally"}
        /\ op[q] \in Ops \cup {Nothing}
        /\ pc[q] \in {"connect", "negotiate", "lock", "reply"} => op[q] \in DebugOps
    /\ \A t \in Tasks : pc[t] = "answered" => held[t] \in {"running", "halted"}

\* _lock: a client has one command under way.
OneReader ==
    \A t, u \in Tasks : pc[t] = "reply" /\ pc[u] = "reply" /\ held[t] = held[u] => t = u

ClosedIsQuiet == ~open => todo = <<>> /\ ~resumed

\* A command on an open connection uses the session's client, so that whoever
\* cancels it closes its connection.
ClientIsCurrent ==
    \A t \in Tasks : pc[t] \in {"lock", "reply"} /\ held[t] = conn /\ open => gdb_client = conn

OffIsQuiet ==
    state = "powered_off" =>
        vm = "none" /\ ~open /\ hardware = {} /\ (replies # <<>> => LockFree(conn))

\* What is under way on the connection when o was the last request on it.
Unread(o)   == todo = <<o>> /\ replies = <<>> /\ ~resumed
Answered(o) == todo = <<>> /\ replies \in {<<o>>, <<Refusal>>} /\ ~resumed
Lost        == todo = <<>> /\ replies = <<>> /\ ~resumed
Owed(o)     == todo = <<>> /\ replies = <<>> /\ resumed /\ o = Continue

Matched ==
    /\ \A t \in Tasks : pc[t] = "reply" /\ held[t] = conn =>
           Unread(op[t]) \/ Answered(op[t]) \/ Lost \/ Owed(op[t])
    /\ open /\ LockFree(conn) => Lost

Synced ==
    /\ ~late => Matched
    /\ late => doubt = Addresses

\* BreakpointsAgree for address a, when request q (if it is not None) is left
\* out of account.
Settled(a, q)  == \A p \in Requests \ {q} : pc[p] = "reply" => op[p][2] # a
AgreeOn(a)     == a \in debug_breakpoints <=> a \in hardware

\* An answer that has not been read tells what the worker has.
AnswersTell ==
    vm # "none" => \A q \in Requests :
        LET a == op[q][2]
        IN  /\ pc[q] = "reply" /\ held[q] = conn
            /\ a \in Addresses \ doubt /\ Settled(a, q)
            => /\ todo # <<>> \/ replies = <<Refusal>> => AgreeOn(a)
               /\ replies = <<op[q]>> => (a \in hardware <=> op[q][1] = "add")

\* The breakpoints, and those that are being set.
Adding == {q \in Requests : pc[q] \in {"lock", "reply"} /\ op[q][1] = "add"}
Reserved == debug_breakpoints \cup {op[q][2] : q \in Adding}

QuotaKept ==
    /\ IsFiniteSet(Reserved)
    /\ Cardinality(Reserved) < MaxBreakpoints + Cardinality(Requests)

DebugInv ==
    /\ SessionTypes /\ TaskTypes /\ WireTypes /\ TasksOK
    /\ OneReader /\ ClosedIsQuiet /\ ClientIsCurrent
    /\ OffIsQuiet /\ Synced /\ BreakpointsAgree /\ AnswersTell /\ QuotaKept

-----------------------------------------------------------------------------
(* Operations and sequences of one element *)

LEMMA OpFacts ==
    /\ Continue \notin Ops /\ Nothing \notin Ops /\ Continue # Nothing /\ DebugOps \subseteq Ops
    /\ Refusal \notin DebugOps \cup {Continue}
    /\ Continue[1] = "continue" /\ Continue[2] \notin Addresses
    /\ \A o \in DebugOps : /\ o[1] \in {"read", "step", "add", "remove"}
                           /\ o[1] \in {"add", "remove"} <=> o[2] \in Addresses
    /\ \A o \in Ops : o \notin DebugOps => o[1] \in {"pause", "resume", "poll"}
  BY DebugAssumption DEF Continue, Nothing, Refusal, Ops, DebugOps

LEMMA KindFacts ==
    /\ \A o \in DebugOps : /\ Kind(o) = "ok" <=> o[1] \in {"add", "remove"}
                           /\ Kind(o) = "data" <=> o[1] = "read"
    /\ Kind(Continue) = "stop" /\ Kind(Refusal) = "error"
  BY DEF Kind, Continue, Refusal, DebugOps

LEMMA OneElement ==
    ASSUME NEW S, NEW x \in S
    PROVE  /\ Append(<<>>, x) = <<x>> /\ Head(<<x>>) = x /\ Tail(<<x>>) = <<>>
           /\ <<x>> # <<>> /\ Len(<<x>>) = 1 /\ <<x>> \in Seq(S) /\ <<>> \in Seq(S)
           /\ Len(<<>>) = 0
           /\ \A y \in S : <<x>> = <<y>> => x = y
<1>1. /\ Append(<<>>, x) = <<x>> /\ Head(<<x>>) = x /\ <<x>> # <<>> /\ Len(<<x>>) = 1
      /\ <<x>> \in Seq(S) /\ <<>> \in Seq(S) /\ Len(<<>>) = 0
      /\ \A y \in S : <<x>> = <<y>> => x = y
  OBVIOUS
<1>2. Tail(<<x>>) = <<>>
  OBVIOUS
<1> QED
  BY <1>1, <1>2

-----------------------------------------------------------------------------
(* Who awaits a reply *)

\* The step leaves the coroutines that await a reply as they are ...
ReadersStay ==
    \A t \in Tasks : /\ pc'[t] = "reply" <=> pc[t] = "reply"
                     /\ pc[t] = "reply" => held'[t] = held[t] /\ op'[t] = op[t]

\* ... all of the requests among them, or adds none.
RequestsStay ==
    \A q \in Requests : /\ pc'[q] = "reply" <=> pc[q] = "reply"
                        /\ pc[q] = "reply" => held'[q] = held[q] /\ op'[q] = op[q]

NoNewReader ==
    \A t \in Tasks : pc'[t] = "reply" => /\ pc[t] = "reply"
                                         /\ held'[t] = held[t] /\ op'[t] = op[t]

LEMMA ReadersSplit ==
    ASSUME ReadersStay
    PROVE  RequestsStay /\ NoNewReader
  BY DEF ReadersStay, RequestsStay, NoNewReader, Tasks

LEMMA OneReaderKept ==
    ASSUME DebugInv, NoNewReader
    PROVE  OneReader'
  BY DEF DebugInv, OneReader, NoNewReader

LEMMA MatchedKept ==
    ASSUME DebugInv, ReadersStay, UNCHANGED <<conn, open, todo, replies, resumed, doubt, late>>
    PROVE  Synced'
  BY DEF DebugInv, Synced, Matched, ReadersStay, LockFree, Unread, Answered, Lost, Owed

LEMMA AgreeKept ==
    ASSUME DebugInv, RequestsStay, UNCHANGED <<debug_breakpoints, hardware, doubt>>,
           vm' # "none" => vm # "none"
    PROVE  BreakpointsAgree'
  BY DEF DebugInv, BreakpointsAgree, RequestsStay

LEMMA TellKept ==
    ASSUME DebugInv, RequestsStay, UNCHANGED <<debug_breakpoints, hardware, doubt, conn>>,
           replies' \in {replies, <<>>}, todo' \in {todo, <<>>}, vm' # "none" => vm # "none"
    PROVE  AnswersTell'
<1>1. \A o : <<o>> # <<>>
  OBVIOUS
<1> QED
  BY <1>1 DEF DebugInv, AnswersTell, Settled, AgreeOn, RequestsStay

LEMMA ReservedShrinks ==
    ASSUME DebugInv, Reserved' \subseteq Reserved
    PROVE  QuotaKept'
<1>1. /\ IsFiniteSet(Reserved) /\ Cardinality(Reserved) < MaxBreakpoints + Cardinality(Requests)
      /\ Reserved' \in SUBSET Reserved
  BY DEF DebugInv, QuotaKept
<1>2. IsFiniteSet(Reserved') /\ Cardinality(Reserved') <= Cardinality(Reserved)
  BY <1>1, FS_Subset
<1>3. /\ Cardinality(Reserved') \in Nat /\ Cardinality(Reserved) \in Nat
      /\ Cardinality(Requests) \in Nat
  BY <1>1, <1>2, FS_CardinalityType, DebugAssumption
<1> QED
  BY <1>1, <1>2, <1>3, DebugAssumption DEF QuotaKept

-----------------------------------------------------------------------------
(* What is under way on the connection *)

LEMMA RepliesCut ==
    ASSUME DebugInv, replies' \in {replies, <<>>}
    PROVE  replies' \in Seq(DebugOps \cup {Continue, Refusal})
<1>1. <<>> \in Seq(DebugOps \cup {Continue, Refusal})
  OBVIOUS
<1>2. replies \in Seq(DebugOps \cup {Continue, Refusal})
  BY DEF DebugInv, WireTypes
<1> QED
  BY <1>1, <1>2

\* A connection ends: a reply that has arrived can still be read.
LEMMA ClosedMatched ==
    ASSUME DebugInv, NoNewReader, ~open', todo' = <<>>, ~resumed',
           replies' \in {replies, <<>>}, UNCHANGED <<conn, doubt, late>>
    PROVE  Synced'
  BY DEF DebugInv, Synced, Matched, NoNewReader, Unread, Answered, Lost, Owed

\* Coroutines leave, but none that awaits a reply on an open connection.
LEMMA LeftMatched ==
    ASSUME DebugInv, NoNewReader, UNCHANGED <<conn, open, todo, replies, resumed>>,
           UNCHANGED late, doubt = Addresses => doubt' = Addresses,
           open => \A t \in Tasks : pc[t] = "reply" /\ held[t] = conn => pc'[t] = "reply"
    PROVE  Synced'
  BY DEF DebugInv, Synced, Matched, NoNewReader, LockFree, Unread, Answered, Lost, Owed

\* Whoever closes the session's client ends every command on an open
\* connection, and may cancel one.
LEMMA CloseEffect ==
    ASSUME DebugInv, NoNewReader, Close(gdb_client), UNCHANGED <<doubt, late>>
    PROVE  /\ Synced' /\ ClosedIsQuiet' /\ WireTypes' /\ resumed' \in BOOLEAN
           /\ todo' \in {todo, <<>>} /\ (open' => open)
           /\ replies' \in {replies, <<>>} /\ UNCHANGED <<conn, vm, hardware>>
<1>1. /\ replies' \in {replies, <<>>} /\ UNCHANGED <<conn, vm, hardware>>
      /\ \/ ~open' /\ ~resumed' /\ todo' = <<>> /\ resumed' = FALSE /\ open' = FALSE
         \/ /\ UNCHANGED <<open, resumed, todo, replies>>
            /\ gdb_client = None \/ conn # gdb_client
  BY DEF Close, LeftToRead
<1>2. CASE ~open' /\ ~resumed' /\ todo' = <<>> /\ resumed' = FALSE /\ open' = FALSE
  <2>1. Synced'
    BY <1>1, <1>2, ClosedMatched
  <2>2. WireTypes'
    <3>1. todo' \in Seq(DebugOps \cup {Continue})
      BY <1>2
    <3>2. open' \in BOOLEAN
      BY <1>2
    <3>3. replies' \in Seq(DebugOps \cup {Continue, Refusal})
      BY <1>1, RepliesCut
    <3> QED
      BY <1>1, <3>1, <3>2, <3>3 DEF DebugInv, WireTypes
  <2>3. ClosedIsQuiet'
    BY <1>2 DEF ClosedIsQuiet
  <2> QED
    BY <1>1, <1>2, <2>1, <2>2, <2>3
<1>3. CASE /\ UNCHANGED <<open, resumed, todo, replies>>
           /\ gdb_client = None \/ conn # gdb_client
  <2>1. ASSUME open, NEW t \in Tasks PROVE ~(pc[t] = "reply" /\ held[t] = conn)
    BY <1>3, <2>1, DebugAssumption DEF DebugInv, ClientIsCurrent, TaskTypes
  <2>2. Synced'
    BY <1>1, <1>3, <2>1, LeftMatched
  <2> QED
    BY <1>1, <1>3, <2>2 DEF ClosedIsQuiet, DebugInv, WireTypes, SessionTypes
<1> QED
  BY <1>1, <1>2, <1>3

\* The machine stops: the run task that let it run is owed the stop.
LEMMA HaltEffect ==
    ASSUME DebugInv, ReadersStay, Halt, UNCHANGED <<todo, doubt, late, debug_breakpoints>>, vm # "none"
    PROVE  /\ Synced' /\ ClosedIsQuiet' /\ WireTypes' /\ AnswersTell'
           /\ vm' = "halted" /\ resumed' = FALSE /\ UNCHANGED <<conn, open, hardware>>
<1>1. /\ vm' = "halted" /\ resumed' = FALSE /\ UNCHANGED <<conn, open, hardware>>
      /\ replies' = IF resumed THEN Append(replies, Continue) ELSE replies
  BY DEF Halt
<1>2. ClosedIsQuiet' /\ WireTypes'
  <2>1. replies' \in Seq(DebugOps \cup {Continue, Refusal})
    BY <1>1 DEF DebugInv, WireTypes
  <2> QED
    BY <1>1, <2>1 DEF ClosedIsQuiet, DebugInv, WireTypes
<1>3. CASE ~resumed
  <2>1. replies' = replies
    BY <1>1, <1>3
  <2>2. Synced'
    BY <1>1, <1>3, <2>1
       DEF DebugInv, Synced, Matched, ReadersStay, LockFree, Unread, Answered, Lost, Owed
  <2>3. AnswersTell'
    BY <1>1, <2>1, ReadersSplit, TellKept
  <2> QED
    BY <1>1, <1>2, <2>2, <2>3
<1>4. CASE resumed
  <2>1. open
    BY <1>4 DEF DebugInv, ClosedIsQuiet
  <2>2. ASSUME Matched PROVE replies = <<>> /\ replies' = <<Continue>> /\ todo = <<>>
    <3>1. ~Lost
      BY <1>4 DEF Lost
    <3>2. PICK t \in Tasks : pc[t] = "reply" /\ held[t] = conn
      BY <2>1, <2>2, <3>1 DEF Matched, LockFree
    <3>3. replies = <<>> /\ todo = <<>>
      BY <1>4, <2>2, <3>2 DEF Matched, Unread, Answered, Lost, Owed
    <3> QED
      BY <1>1, <1>4, <3>3, OneElement
  <2>3. ASSUME Matched, NEW t \in Tasks, pc[t] = "reply", held[t] = conn
        PROVE  op[t] = Continue
    BY <1>4, <2>3 DEF Matched, Unread, Answered, Lost, Owed
  <2>4. Synced'
    <3> SUFFICES ASSUME Matched PROVE Matched'
      BY DEF DebugInv, Synced
    <3>1. ~LockFree(conn)
      BY <1>4, <2>1 DEF Matched, Lost
    <3>2. ~LockFree(conn)'
      BY <1>1, <3>1 DEF ReadersStay, LockFree
    <3> QED
      BY <1>1, <2>2, <2>3, <3>2 DEF Matched, ReadersStay, Answered
  <2>5. AnswersTell'
    <3> SUFFICES ASSUME NEW q \in Requests, pc[q] = "reply", held[q] = conn,
                        op[q][2] \in Addresses \ doubt
                 PROVE  FALSE
      BY <1>1 DEF AnswersTell, RequestsStay, ReadersStay, Tasks
    <3>1. Matched
      BY DEF DebugInv, Synced, SessionTypes
    <3>2. op[q] = Continue
      BY <2>3, <3>1 DEF Tasks
    <3> QED
      BY <3>2, OpFacts
  <2> QED
    BY <1>1, <1>2, <2>4, <2>5
<1> QED
  BY <1>3, <1>4

\* The worker ends: only a reply that has arrived is left.
LEMMA DeadEffect ==
    ASSUME DebugInv, ReadersStay, Dead, UNCHANGED <<doubt, late>>
    PROVE  /\ Synced' /\ ClosedIsQuiet' /\ WireTypes' /\ BreakpointsAgree' /\ AnswersTell'
           /\ vm' = "none" /\ resumed' = FALSE /\ hardware' = {} /\ ~open'
           /\ replies' \in {replies, <<>>} /\ UNCHANGED conn
<1>1. /\ vm' = "none" /\ ~resumed' /\ resumed' = FALSE /\ hardware' = {} /\ ~open'
      /\ open' = FALSE /\ todo' = <<>> /\ replies' \in {replies, <<>>} /\ UNCHANGED conn
  BY DEF Dead, LeftToRead
<1>2. Synced'
  BY <1>1, ReadersSplit, ClosedMatched
<1>3. ClosedIsQuiet' /\ BreakpointsAgree' /\ AnswersTell'
  BY <1>1 DEF ClosedIsQuiet, BreakpointsAgree, AnswersTell
<1>4. WireTypes'
  <2>1. todo' \in Seq(DebugOps \cup {Continue})
    BY <1>1
  <2>2. open' \in BOOLEAN
    BY <1>1
  <2>3. replies' \in Seq(DebugOps \cup {Continue, Refusal})
    BY <1>1, RepliesCut
  <2> QED
    BY <1>1, <2>1, <2>2, <2>3 DEF DebugInv, WireTypes
<1> QED
  BY <1>1, <1>2, <1>3, <1>4

LEMMA SendEffect ==
    ASSUME DebugInv, NEW t \in Tasks, Send(t)
    PROVE  Synced' /\ OneReader' /\ BreakpointsAgree' /\ AnswersTell'
<1>1. /\ pc[t] = "lock" /\ LockFree(conn) /\ open /\ held[t] = conn
      /\ todo' = Append(todo, op[t]) /\ op' = op
      /\ UNCHANGED <<conn, open, replies, vm, resumed, hardware, debug_breakpoints, doubt, late>>
      /\ pc'[t] = "reply" /\ held'[t] = held[t]
      /\ \A u \in Tasks \ {t} : pc'[u] = pc[u] /\ held'[u] = held[u]
  BY DEF Send, Suspend, sessionVars, workerVars, DebugInv, TaskTypes
<1>2. OneReader'
  BY <1>1 DEF DebugInv, OneReader, LockFree
<1>3. ASSUME Matched PROVE todo' = <<op[t]>> /\ replies = <<>> /\ ~resumed
  <2>1. todo = <<>> /\ replies = <<>> /\ ~resumed
    BY <1>1, <1>3 DEF Matched, Lost
  <2> QED
    BY <1>1, <2>1, OneElement
<1>4. Synced'
  <2> SUFFICES ASSUME Matched PROVE Matched'
    BY <1>1 DEF DebugInv, Synced
  <2>1. ~LockFree(conn)'
    BY <1>1 DEF LockFree
  <2>2. ASSUME NEW u \in Tasks, pc'[u] = "reply", held'[u] = conn' PROVE u = t
    BY <1>1, <2>2 DEF LockFree
  <2> QED
    BY <1>1, <1>3, <2>1, <2>2 DEF Matched, Unread
<1>5. BreakpointsAgree'
  BY <1>1 DEF DebugInv, BreakpointsAgree, Tasks
<1>6. AnswersTell'
  <2> SUFFICES ASSUME NEW q \in Requests, vm' # "none", pc'[q] = "reply", held'[q] = conn',
                      op'[q][2] \in Addresses \ doubt', Settled(op[q][2], q)'
               PROVE  /\ AgreeOn(op[q][2])'
                      /\ replies' # <<op'[q]>>
    BY DEF AnswersTell
  <2>1. q = t
    BY <1>1 DEF LockFree, Tasks
  <2>2. replies' # <<op'[q]>>
    <3>1. Matched
      BY <1>1 DEF DebugInv, Synced, SessionTypes
    <3> QED
      BY <1>1, <1>3, <3>1, OneElement
  <2>3. \A p \in Requests : pc[p] = "reply" => op[p][2] # op[q][2]
    BY <1>1, <2>1 DEF Settled, Tasks
  <2> QED
    BY <1>1, <2>2, <2>3 DEF DebugInv, BreakpointsAgree, AgreeOn
<1> QED
  BY <1>2, <1>4, <1>5, <1>6

\* A reply was read by task t, which has left.
LEMMA ReadEffect ==
    ASSUME DebugInv, NEW t \in Tasks, Arrives(t), replies' = Tail(replies), NoNewReader,
           UNCHANGED <<conn, open, todo, resumed, doubt, late>>, pc'[t] # "reply"
    PROVE  /\ Synced' /\ OneReader' /\ AnswersTell' /\ WireTypes'
           /\ Matched => replies \in {<<op[t]>>, <<Refusal>>}
<1>1. pc[t] = "reply" /\ held[t] = conn /\ replies # <<>>
  BY DEF Arrives
<1>2. \A u \in Tasks : ~(pc'[u] = "reply" /\ held'[u] = conn')
  BY <1>1 DEF NoNewReader, DebugInv, OneReader
<1>3. OneReader'
  BY OneReaderKept
<1>4. ASSUME Matched PROVE replies \in {<<op[t]>>, <<Refusal>>} /\ todo = <<>> /\ ~resumed
  BY <1>1, <1>4, OneElement DEF Matched, Unread, Answered, Lost, Owed
<1>5. Synced'
  <2> SUFFICES ASSUME Matched PROVE Matched'
    BY DEF DebugInv, Synced
  <2>1. replies' = <<>>
    BY <1>4, OneElement
  <2> QED
    BY <1>2, <1>4, <2>1 DEF Matched, Lost
<1>6. AnswersTell'
  BY <1>2 DEF AnswersTell, Tasks
<1>7. WireTypes'
  <2>1. replies' \in Seq(DebugOps \cup {Continue, Refusal})
    BY <1>1 DEF DebugInv, WireTypes
  <2> QED
    BY <2>1 DEF DebugInv, WireTypes
<1> QED
  BY <1>3, <1>4, <1>5, <1>6, <1>7

LEMMA ReplyEffect ==
    ASSUME DebugInv, NEW q \in Requests, Reply(q)
    PROVE  /\ Synced' /\ OneReader' /\ AnswersTell' /\ WireTypes' /\ BreakpointsAgree'
           /\ Reserved' \subseteq Reserved /\ debug_breakpoints' \subseteq Addresses
<1> DEFINE a == op[q][2]
<1>1. /\ Arrives(q) /\ replies' = Tail(replies) /\ q \in Tasks /\ pc[q] = "reply"
      /\ held[q] = conn /\ replies # <<>> /\ op[q] \in DebugOps
      /\ UNCHANGED <<conn, open, todo, vm, resumed, hardware, doubt, late>>
  BY DEF Reply, Arrives, workerVars, Tasks, DebugInv, TasksOK
<1>2. /\ pc'[q] # "reply" /\ (pc'[q] # "lock" \/ op[q][1] = "read")
      /\ \A u \in Tasks \ {q} : pc'[u] = pc[u] /\ held'[u] = held[u] /\ op'[u] = op[u]
      /\ op'[q] \in {op[q], Nothing}
  BY <1>1 DEF Reply, Return, Suspend, DebugInv, TaskTypes
<1>3. NoNewReader
  BY <1>2 DEF NoNewReader
<1>4. /\ Synced' /\ OneReader' /\ AnswersTell' /\ WireTypes'
      /\ Matched => replies \in {<<op[q]>>, <<Refusal>>}
  BY <1>1, <1>2, <1>3, ReadEffect
<1>5. \/ UNCHANGED debug_breakpoints
      \/ op[q][1] = "add" /\ debug_breakpoints' = debug_breakpoints \cup {a} /\ a \in Addresses
      \/ debug_breakpoints' = debug_breakpoints \ {a}
  BY <1>1, OpFacts, KindFacts DEF Reply
<1>6. debug_breakpoints' \subseteq Addresses
  BY <1>5 DEF DebugInv, SessionTypes
<1>7. Reserved' \subseteq Reserved
  <2>0. q \notin Adding'
    BY <1>1, <1>2 DEF Adding, Nothing
  <2>1. \A p \in Requests : p \in Adding' => p \in Adding /\ op'[p] = op[p]
    BY <1>2, <2>0 DEF Adding, Tasks
  <2>2. op[q][1] = "add" => q \in Adding
    BY <1>1 DEF Adding
  <2> QED
    BY <1>5, <2>1, <2>2 DEF Reserved, Adding
<1>8. BreakpointsAgree'
  <2> SUFFICES ASSUME vm' # "none", NEW b \in Addresses \ doubt',
                      \A p \in Requests : pc'[p] = "reply" => op'[p][2] # b
               PROVE  b \in debug_breakpoints' <=> b \in hardware'
    BY DEF BreakpointsAgree
  <2>1. CASE b # a
    <3>1. \A p \in Requests : pc[p] = "reply" => op[p][2] # b
      BY <1>2, <2>1 DEF Tasks
    <3>2. b \in debug_breakpoints <=> b \in hardware
      BY <1>1, <3>1 DEF DebugInv, BreakpointsAgree
    <3> QED
      BY <1>1, <1>5, <2>1, <3>2
  <2>2. CASE b = a
    <3>1. Settled(a, q)
      BY <1>2, <2>2 DEF Settled, Tasks
    <3>2. /\ replies = <<Refusal>> => (a \in debug_breakpoints <=> a \in hardware)
          /\ replies = <<op[q]>> => (a \in hardware <=> op[q][1] = "add")
      BY <1>1, <2>2, <3>1 DEF DebugInv, AnswersTell, AgreeOn
    <3>3. replies \in {<<op[q]>>, <<Refusal>>}
      <4>1. Matched
        BY <1>1 DEF DebugInv, Synced, SessionTypes
      <4> QED
        BY <1>4, <4>1
    <3>4. op[q][1] \in {"add", "remove"} /\ Kind(op[q]) = "ok"
      BY <1>1, <2>2, OpFacts, KindFacts
    <3>5. CASE replies = <<op[q]>>
      <4>1. debug_breakpoints' = IF op[q][1] = "add" THEN debug_breakpoints \cup {a}
                                                     ELSE debug_breakpoints \ {a}
        BY <3>4, <3>5, OneElement DEF Reply
      <4> QED
        BY <1>1, <2>2, <3>2, <3>5, <4>1
    <3>6. CASE replies = <<Refusal>>
      <4>1. debug_breakpoints' = debug_breakpoints
        BY <3>6, OneElement, KindFacts DEF Reply
      <4> QED
        BY <1>1, <2>2, <3>2, <3>6, <4>1
    <3> QED
      BY <3>3, <3>5, <3>6
  <2> QED
    BY <2>1, <2>2
<1> QED
  BY <1>4, <1>6, <1>7, <1>8

\* A request gives up.
LEMMA CommandFailsEffect ==
    ASSUME DebugInv, NEW q \in Requests, CommandFails(q)
    PROVE  /\ Synced' /\ OneReader' /\ AnswersTell' /\ BreakpointsAgree'
           /\ doubt' \subseteq Addresses /\ late' \in BOOLEAN
<1>1. /\ q \in Tasks /\ pc[q] \in {"lock", "reply"} /\ op[q] \in DebugOps
      /\ UNCHANGED <<conn, open, todo, replies, vm, resumed, hardware, debug_breakpoints>>
      /\ pc'[q] = "idle"
      /\ \A u \in Tasks \ {q} : pc'[u] = pc[u] /\ held'[u] = held[u] /\ op'[u] = op[u]
  BY DEF CommandFails, Disconnected, Return, sessionVars, wireVars, workerVars, Tasks,
     DebugInv, TasksOK, TaskTypes
<1>2. NoNewReader
  BY <1>1 DEF NoNewReader
<1>3. OneReader'
  BY <1>2, OneReaderKept
<1>4. CASE /\ pc[q] = "reply" /\ open /\ conn = held[q]
           /\ doubt' = Addresses /\ late' = (late \/ todo # <<>> \/ replies # <<>>)
  <2>1. AnswersTell' /\ BreakpointsAgree'
    BY <1>4 DEF AnswersTell, BreakpointsAgree
  <2>2. Synced'
    <3> SUFFICES ASSUME ~late' PROVE Matched'
      BY <1>4 DEF Synced
    <3>1. Matched
      BY <1>4 DEF DebugInv, Synced
    <3>2. todo = <<>> /\ replies = <<>>
      BY <1>4
    <3>3. ~resumed
      BY <1>1, <1>4, <3>1, <3>2, OpFacts DEF Matched, Unread, Answered, Lost, Owed
    <3>4. \A u \in Tasks : ~(pc'[u] = "reply" /\ held'[u] = conn')
      BY <1>1, <1>4 DEF DebugInv, OneReader
    <3> QED
      BY <1>1, <3>2, <3>3, <3>4 DEF Matched, Lost
  <2> QED
    BY <1>3, <1>4, <2>1, <2>2
<1>5. CASE Disconnected(q) /\ doubt' = doubt \cup ({op[q][2]} \cap Addresses) /\ late' = late
  <2>1. doubt \subseteq doubt' /\ doubt' \subseteq Addresses
    BY <1>5 DEF DebugInv, SessionTypes
  <2>2. Synced'
    <3>1. open => \A t \in Tasks : pc[t] = "reply" /\ held[t] = conn => pc'[t] = "reply"
      BY <1>1, <1>5 DEF Disconnected
    <3> QED
      BY <1>1, <1>2, <1>5, <2>1, <3>1, LeftMatched
  <2>3. ASSUME NEW b \in Addresses \ doubt', NEW p,
               \A x \in Requests \ {p} : pc'[x] = "reply" => op'[x][2] # b
        PROVE  b \in Addresses \ doubt /\ Settled(b, p)
    BY <1>1, <1>5, <2>1, <2>3 DEF Settled, Tasks
  <2>4. BreakpointsAgree'
    <3> SUFFICES ASSUME vm' # "none", NEW b \in Addresses \ doubt',
                        \A x \in Requests : pc'[x] = "reply" => op'[x][2] # b
                 PROVE  b \in debug_breakpoints' <=> b \in hardware'
      BY DEF BreakpointsAgree
    <3>1. b \in Addresses \ doubt /\ b # op[q][2]
      BY <1>5, <2>1
    <3>2. \A x \in Requests : pc[x] = "reply" => op[x][2] # b
      BY <1>1, <3>1 DEF Tasks
    <3> QED
      BY <1>1, <3>1, <3>2 DEF DebugInv, BreakpointsAgree
  <2>5. AnswersTell'
    <3> SUFFICES ASSUME NEW p \in Requests, vm' # "none", pc'[p] = "reply", held'[p] = conn',
                        op'[p][2] \in Addresses \ doubt', Settled(op[p][2], p)'
                 PROVE  /\ todo' # <<>> \/ replies' = <<Refusal>> => AgreeOn(op[p][2])'
                        /\ replies' = <<op'[p]>> => (op'[p][2] \in hardware' <=> op'[p][1] = "add")
      BY DEF AnswersTell
    <3>1. p # q /\ pc[p] = "reply" /\ held[p] = conn /\ op'[p] = op[p]
      BY <1>1 DEF Tasks
    <3>2. op[p][2] \in Addresses \ doubt /\ Settled(op[p][2], p)
      BY <2>3, <3>1 DEF Settled
    <3> QED
      BY <1>1, <3>1, <3>2 DEF DebugInv, AnswersTell, AgreeOn
  <2> QED
    BY <1>3, <1>5, <2>1, <2>2, <2>4, <2>5 DEF DebugInv, SessionTypes
<1> QED
  BY <1>4, <1>5 DEF CommandFails

\* A run task finds its connection gone.
LEMMA RunGoneEffect ==
    ASSUME DebugInv, NEW r \in RunTasks, Disconnected(r), replies' = replies,
           \A u \in Tasks \ {r} : pc'[u] = pc[u] /\ held'[u] = held[u] /\ op'[u] = op[u],
           pc'[r] # "reply", UNCHANGED <<conn, open, todo, vm, resumed, hardware, doubt, late,
                                         debug_breakpoints>>
    PROVE  Synced' /\ OneReader' /\ AnswersTell' /\ BreakpointsAgree' /\ WireTypes'
<1>1. r \in Tasks /\ NoNewReader /\ RequestsStay
  BY DebugAssumption DEF Tasks, NoNewReader, RequestsStay
<1>2. open => \A t \in Tasks : pc[t] = "reply" /\ held[t] = conn => pc'[t] = "reply"
  BY DEF Disconnected
<1>3. Synced'
  BY <1>1, <1>2, LeftMatched
<1>4. BreakpointsAgree' /\ OneReader' /\ AnswersTell'
  BY <1>1, AgreeKept, OneReaderKept, TellKept
<1> QED
  BY <1>3, <1>4 DEF DebugInv, WireTypes

LEMMA AttachEffect ==
    ASSUME DebugInv, NEW q \in Requests, NEW c \in Clients, Attach(q, c)
    PROVE  Synced' /\ AnswersTell' /\ WireTypes' /\ ClientIsCurrent' /\ ClosedIsQuiet' /\ ReadersStay
<1>1. /\ pc[q] = "connect" /\ ~open /\ conn' = c /\ open' = TRUE /\ todo' = <<>> /\ replies' = <<>>
      /\ UNCHANGED <<resumed, doubt>> /\ late' = FALSE /\ q \in Tasks /\ \A t \in Tasks : held[t] # c
      /\ pc'[q] = "negotiate"
      /\ \A u \in Tasks \ {q} : pc'[u] = pc[u] /\ held'[u] = held[u]
      /\ op' = op
  BY DEF Attach, Suspend, DebugInv, TaskTypes, Tasks
<1>2. ReadersStay
  BY <1>1 DEF ReadersStay
<1>3. \A t \in Tasks : ~(pc'[t] \in {"lock", "reply"} /\ held'[t] = conn')
  BY <1>1
<1>4. ~resumed'
  BY <1>1 DEF DebugInv, ClosedIsQuiet
<1>5. Synced' /\ ClientIsCurrent'
  BY <1>1, <1>3, <1>4 DEF Synced, Matched, Lost, ClientIsCurrent
<1>6. AnswersTell' /\ ClosedIsQuiet'
  BY <1>1, <1>3 DEF AnswersTell, ClosedIsQuiet, Tasks
<1>7. WireTypes'
  <2>1. todo' \in Seq(DebugOps \cup {Continue}) /\ replies' \in Seq(DebugOps \cup {Continue, Refusal})
    BY <1>1
  <2>2. open' \in BOOLEAN
    BY <1>1
  <2>3. conn' \in Clients \cup {None}
    BY <1>1
  <2> QED
    BY <2>1, <2>2, <2>3 DEF WireTypes
<1> QED
  BY <1>2, <1>5, <1>6, <1>7

\* The stub serves a request: it is the one its reader awaits.
LEMMA StubEffect ==
    ASSUME DebugInv, StubStep
    PROVE  /\ Synced' /\ AnswersTell' /\ BreakpointsAgree' /\ WireTypes' /\ ClosedIsQuiet'
           /\ SessionTypes'
           /\ UNCHANGED <<gdb_client, debug_breakpoints, pc, op, held, conn, open>>
<1> DEFINE o == Head(todo)
<1>1. /\ open /\ todo # <<>> /\ todo' = Tail(todo) /\ pc' = pc /\ op' = op /\ held' = held
      /\ UNCHANGED <<conn, open, state, gdb_client, debug_run_task, debug_breakpoints, power,
                     doubt, late>>
      /\ o \in DebugOps \cup {Continue} /\ todo' \in Seq(DebugOps \cup {Continue})
      /\ vm # "none"
  <2>1. /\ open /\ todo # <<>> /\ todo' = Tail(todo) /\ pc' = pc /\ op' = op /\ held' = held
        /\ UNCHANGED <<state, gdb_client, debug_run_task, debug_breakpoints, power, doubt, late>>
    BY DEF StubStep, sessionVars, taskVars
  <2>2. UNCHANGED <<conn, open>> /\ vm # "none"
    BY DEF StubStep, Halt
  <2>3. o \in DebugOps \cup {Continue} /\ todo' \in Seq(DebugOps \cup {Continue})
    BY <2>1 DEF DebugInv, WireTypes
  <2> QED
    BY <2>1, <2>2, <2>3
<1>2. vm' \in {"running", "halted", "none"}
  BY DEF StubStep, Halt, workerVars, DebugInv, SessionTypes
<1>3. \/ /\ resumed' = FALSE /\ UNCHANGED hardware
         /\ replies' = IF resumed THEN Append(replies, Continue) ELSE replies
      \/ o = Continue /\ resumed' = TRUE /\ UNCHANGED <<replies, hardware>>
      \/ /\ o # Continue /\ replies' = Append(replies, o) /\ UNCHANGED resumed
         /\ hardware' = IF o[1] = "add" THEN hardware \cup {o[2]}
                        ELSE IF o[1] = "remove" THEN hardware \ {o[2]} ELSE hardware
      \/ o[1] = "add" /\ replies' = Append(replies, Refusal) /\ UNCHANGED <<resumed, hardware>>
  BY DEF StubStep, Halt, workerVars
<1> HIDE DEF o
<1>4. replies' \in Seq(DebugOps \cup {Continue, Refusal}) /\ resumed' \in BOOLEAN
  <2>1. /\ replies \in Seq(DebugOps \cup {Continue, Refusal}) /\ resumed \in BOOLEAN
        /\ o \in DebugOps \cup {Continue, Refusal}
    BY <1>1 DEF DebugInv, WireTypes, SessionTypes
  <2>2. \E x \in DebugOps \cup {Continue, Refusal} : replies' \in {replies, Append(replies, x)}
    BY <1>3, <2>1
  <2>3. replies' \in Seq(DebugOps \cup {Continue, Refusal})
    BY <2>1, <2>2
  <2>4. resumed' \in BOOLEAN
    BY <1>3, <2>1
  <2> QED
    BY <2>3, <2>4
<1>5. WireTypes' /\ ClosedIsQuiet' /\ SessionTypes'
  <2>1. o[1] \in {"add", "remove"} => o[2] \in Addresses
    BY <1>1, OpFacts
  <2>2. hardware' \subseteq Addresses
    BY <1>3, <2>1 DEF DebugInv, SessionTypes
  <2>3. SessionTypes'
    BY <1>1, <1>2, <1>4, <2>2 DEF DebugInv, SessionTypes
  <2> QED
    BY <1>1, <1>4, <2>3 DEF DebugInv, WireTypes, ClosedIsQuiet
<1>6. ASSUME Matched
      PROVE  \E t \in Tasks :
                /\ pc[t] = "reply" /\ held[t] = conn /\ o = op[t] /\ replies = <<>> /\ ~resumed
                /\ todo' = <<>>
                /\ \A u \in Tasks : pc[u] = "reply" /\ held[u] = conn => u = t
  <2>1. PICK t \in Tasks : pc[t] = "reply" /\ held[t] = conn
    BY <1>1, <1>6 DEF Matched, LockFree, Lost
  <2>2. todo = <<op[t]>> /\ replies = <<>> /\ ~resumed
    BY <1>1, <1>6, <2>1 DEF Matched, Unread, Answered, Lost, Owed
  <2>3. o = op[t] /\ todo' = <<>>
    BY <1>1, <2>2, OneElement DEF o
  <2> QED
    BY <2>1, <2>2, <2>3 DEF DebugInv, OneReader
<1>7. ASSUME Matched PROVE Matched' /\ AnswersTell' /\ BreakpointsAgree'
  <2>1. PICK t \in Tasks :
           /\ pc[t] = "reply" /\ held[t] = conn /\ o = op[t] /\ replies = <<>> /\ ~resumed
           /\ todo' = <<>>
           /\ \A u \in Tasks : pc[u] = "reply" /\ held[u] = conn => u = t
    BY <1>6, <1>7
  <2>2. \/ replies' = <<>> /\ ~resumed' /\ UNCHANGED hardware
        \/ o = Continue /\ replies' = <<>> /\ resumed' = TRUE /\ UNCHANGED hardware
        \/ /\ o # Continue /\ replies' = <<o>> /\ ~resumed'
           /\ hardware' = IF o[1] = "add" THEN hardware \cup {o[2]}
                          ELSE IF o[1] = "remove" THEN hardware \ {o[2]} ELSE hardware
        \/ o[1] = "add" /\ replies' = <<Refusal>> /\ ~resumed' /\ UNCHANGED hardware
    BY <1>3, <2>1, OneElement
  <2>3. Matched'
    <3>1. ~LockFree(conn)'
      BY <1>1, <2>1 DEF LockFree
    <3>2. (Answered(op[t]) \/ Lost \/ Owed(op[t]))'
      BY <1>1, <2>1, <2>2 DEF Answered, Lost, Owed
    <3> QED
      BY <1>1, <2>1, <3>1, <3>2 DEF Matched
  <2>4. hardware' # hardware => t \in Requests
    BY <2>1, <2>2, OpFacts DEF DebugInv, TasksOK, Tasks
  <2>5. BreakpointsAgree'
    <3> SUFFICES ASSUME NEW b \in Addresses \ doubt,
                        \A p \in Requests : pc[p] = "reply" => op[p][2] # b
                 PROVE  b \in debug_breakpoints <=> b \in hardware'
      BY <1>1 DEF BreakpointsAgree
    <3>1. b \in debug_breakpoints <=> b \in hardware
      BY <1>1 DEF DebugInv, BreakpointsAgree
    <3>2. b \in hardware' <=> b \in hardware
      BY <2>1, <2>2, <2>4
    <3> QED
      BY <3>1, <3>2
  <2>6. AnswersTell'
    <3> SUFFICES ASSUME NEW q \in Requests, pc[q] = "reply", held[q] = conn,
                        op[q][2] \in Addresses \ doubt, Settled(op[q][2], q)
                 PROVE  /\ replies' = <<Refusal>> =>
                              (op[q][2] \in debug_breakpoints <=> op[q][2] \in hardware')
                        /\ replies' = <<op[q]>> => (op[q][2] \in hardware' <=> op[q][1] = "add")
      BY <1>1, <2>1 DEF AnswersTell, AgreeOn, Settled
    <3>1. q = t /\ op[q] = o /\ op[q] \in DebugOps
      BY <2>1 DEF Tasks, DebugInv, TasksOK
    <3>2. o[1] \in {"add", "remove"} /\ o # Refusal /\ o # Continue
      BY <3>1, OpFacts
    <3>3. op[q][2] \in debug_breakpoints <=> op[q][2] \in hardware
      BY <1>1 DEF DebugInv, AnswersTell, AgreeOn
    <3>4. <<o>> # <<Refusal>> /\ <<o>> # <<>> /\ <<Refusal>> # <<>>
      BY <3>2, OneElement
    <3> QED
      BY <2>2, <3>1, <3>2, <3>3, <3>4
  <2> QED
    BY <2>3, <2>5, <2>6
<1>8. ASSUME doubt # Addresses PROVE Matched
  BY <1>8 DEF DebugInv, Synced
<1>9. Synced'
  BY <1>1, <1>7 DEF DebugInv, Synced
<1>10. AnswersTell' /\ BreakpointsAgree'
  <2>1. CASE doubt = Addresses
    BY <1>1, <2>1 DEF AnswersTell, BreakpointsAgree
  <2> QED
    BY <1>7, <1>8, <2>1
<1> QED
  BY <1>1, <1>5, <1>9, <1>10

\* A new worker: nothing of the old one is under way.
LEMMA PowerOnEffect ==
    ASSUME DebugInv, PowerOn
    PROVE  Synced' /\ BreakpointsAgree' /\ AnswersTell'
<1>1. /\ debug_breakpoints' = {} /\ hardware' = {} /\ doubt' = {} /\ late' = FALSE
      /\ ~open /\ todo = <<>> /\ ~resumed
      /\ UNCHANGED <<conn, open, todo, replies, resumed, pc, op, held>>
      /\ replies # <<>> => LockFree(conn)
  BY DEF PowerOn, DebugInv, OffIsQuiet, ClosedIsQuiet, taskVars, wireVars
<1>2. \A t \in Tasks : pc[t] = "reply" /\ held[t] = conn => replies = <<>>
  BY <1>1 DEF LockFree
<1>3. Synced'
  BY <1>1, <1>2 DEF Synced, Matched, Lost
<1>4. BreakpointsAgree'
  BY <1>1 DEF BreakpointsAgree
<1>5. AnswersTell'
  BY <1>1, <1>2, OneElement DEF AnswersTell, AgreeOn, Tasks
<1> QED
  BY <1>3, <1>4, <1>5

\* A request that passes the quota finds room, or its breakpoint exists.
LEMMA UseQuota ==
    ASSUME DebugInv, NEW q \in Requests, NEW c, Use(q, c), pc[q] \notin {"lock", "reply"},
           UNCHANGED debug_breakpoints
    PROVE  QuotaKept'
<1>1. /\ q \in Tasks /\ \A u \in Requests \ {q} : pc'[u] = pc[u] /\ op'[u] = op[u]
      /\ pc'[q] = "lock" => op'[q] = op[q]
      /\ pc'[q] # "reply"
  BY DEF Use, Return, Suspend, DebugInv, TaskTypes, Tasks
<1>2. CASE pc'[q] # "lock" \/ op[q][1] # "add" \/ op[q][2] \in debug_breakpoints
  <2>1. Reserved' \subseteq Reserved
    BY <1>1, <1>2 DEF Reserved, Adding
  <2> QED
    BY <2>1, ReservedShrinks
<1>3. CASE pc'[q] = "lock" /\ op[q][1] = "add" /\ op[q][2] \notin debug_breakpoints
  <2> DEFINE A == Adding'
             S == {op'[x][2] : x \in A}
  <2>1. ~(Cardinality(debug_breakpoints) >= MaxBreakpoints)
    BY <1>1, <1>3 DEF Use, Return, DebugInv, TaskTypes
  <2>2. debug_breakpoints \in SUBSET Reserved /\ A \in SUBSET Requests
    BY DEF Reserved, Adding
  <2>3. IsFiniteSet(debug_breakpoints)
    BY <2>2, FS_Subset DEF DebugInv, QuotaKept
  <2>4. IsFiniteSet(A) /\ Cardinality(A) <= Cardinality(Requests)
    BY <2>2, FS_Subset, DebugAssumption
  <2>5. IsFiniteSet(S) /\ Cardinality(S) <= Cardinality(A)
    <3> DEFINE f == [x \in A |-> op'[x][2]]
    <3> HIDE DEF A
    <3>1. f \in Surjection(A, S)
      BY DEF Surjection
    <3> QED
      BY <2>4, <3>1, FS_Surjection
  <2>6. Reserved' = debug_breakpoints \cup S
    BY DEF Reserved
  <2> HIDE DEF A, S
  <2>7. /\ IsFiniteSet(debug_breakpoints \cup S)
        /\ Cardinality(debug_breakpoints \cup S)
             = Cardinality(debug_breakpoints) + Cardinality(S)
                 - Cardinality(debug_breakpoints \cap S)
    BY <2>3, <2>5, FS_Union
  <2>8. IsFiniteSet(debug_breakpoints \cap S)
    BY <2>3, FS_Intersection
  <2>9. /\ Cardinality(debug_breakpoints) \in Nat /\ Cardinality(S) \in Nat
        /\ Cardinality(A) \in Nat /\ Cardinality(debug_breakpoints \cap S) \in Nat
        /\ Cardinality(Requests) \in Nat
    BY <2>3, <2>4, <2>5, <2>8, FS_CardinalityType, DebugAssumption
  <2> QED
    BY <2>1, <2>4, <2>5, <2>6, <2>7, <2>9, DebugAssumption DEF QuotaKept
<1> QED
  BY <1>2, <1>3

\* A run task ends its wait for the stop ...
LEMMA RunEndEffect ==
    ASSUME DebugInv, NEW r \in RunTasks, RunStopped(r) \/ RunFails(r)
    PROVE  Synced' /\ OneReader' /\ AnswersTell' /\ BreakpointsAgree' /\ WireTypes'
<1>1. \/ Arrives(r) /\ replies' = Tail(replies)
      \/ Disconnected(r) /\ replies' = replies
  BY DEF RunStopped, RunFails
<1>2. /\ \A u \in Tasks \ {r} : pc'[u] = pc[u] /\ held'[u] = held[u] /\ op'[u] = op[u]
      /\ pc'[r] # "reply"
  BY DEF RunStopped, RunFails, RunRaised, Return, Suspend, DebugInv, TaskTypes, Tasks
<1>3. UNCHANGED <<conn, open, todo, vm, resumed, hardware, doubt, late, debug_breakpoints>>
  BY DEF RunStopped, RunFails, sessionVars, workerVars
<1> QED
  <2>1. CASE Arrives(r) /\ replies' = Tail(replies)
    <3>1. r \in Tasks /\ NoNewReader /\ RequestsStay
      BY <1>2, DebugAssumption DEF Tasks, NoNewReader, RequestsStay
    <3>2. Arrives(r) /\ UNCHANGED <<conn, open, todo, resumed, doubt, late>> /\ pc'[r] # "reply"
      BY <1>2, <1>3, <2>1
    <3>3. Synced' /\ OneReader' /\ AnswersTell' /\ WireTypes'
      BY <2>1, <3>1, <3>2, ReadEffect
    <3> QED
      BY <1>3, <3>1, <3>3, AgreeKept
  <2>2. CASE Disconnected(r) /\ replies' = replies
    BY <1>2, <1>3, <2>2, RunGoneEffect
  <2> QED
    BY <1>1, <2>1, <2>2

\* ... or is cancelled, with the session's client closed.
LEMMA AbandonEffect ==
    ASSUME DebugInv, NEW r \in RunTasks \cup {None}, NEW q \in Requests \cup {None},
           q \in Requests => pc[q] # "reply", Abandon(r, q), UNCHANGED <<debug_breakpoints, doubt, late>>
    PROVE  /\ Synced' /\ OneReader' /\ AnswersTell' /\ BreakpointsAgree' /\ WireTypes'
           /\ ClosedIsQuiet' /\ QuotaKept'
<1>1. NoNewReader
  BY DEF Abandon, NoNewReader
<1>2. RequestsStay
  BY DebugAssumption DEF Abandon, RequestsStay, Tasks
<1>3. Close(gdb_client)
  BY DEF Abandon
<1>4. /\ Synced' /\ ClosedIsQuiet' /\ WireTypes' /\ todo' \in {todo, <<>>}
      /\ replies' \in {replies, <<>>} /\ UNCHANGED <<conn, vm, hardware>>
  BY <1>1, <1>3, CloseEffect
<1>5. \A p \in Requests : p \in Adding' => p \in Adding /\ op'[p] = op[p]
  BY DEF Abandon, Adding, Tasks
<1>6. QuotaKept'
  <2>1. Reserved' \subseteq Reserved
    BY <1>5 DEF Reserved, Adding
  <2> QED
    BY <2>1, ReservedShrinks
<1> QED
  BY <1>1, <1>2, <1>4, <1>6, OneReaderKept, AgreeKept, TellKept

LEMMA PauseTimesOutEffect ==
    ASSUME DebugInv, NEW q \in Requests, PauseTimesOut(q)
    PROVE  /\ Synced' /\ OneReader' /\ AnswersTell' /\ BreakpointsAgree' /\ WireTypes'
           /\ ClosedIsQuiet' /\ QuotaKept'
<1>1. /\ held[q] \in RunTasks /\ pc[q] # "reply" /\ Abandon(held[q], q)
      /\ UNCHANGED <<debug_breakpoints, doubt, late>>
  BY DEF PauseTimesOut, DebugInv, TaskTypes, Tasks
<1> QED
  BY <1>1, AbandonEffect

LEMMA PowerOffEffect ==
    ASSUME DebugInv, PowerOff
    PROVE  /\ Synced' /\ OneReader' /\ AnswersTell' /\ BreakpointsAgree' /\ WireTypes'
           /\ ClosedIsQuiet' /\ QuotaKept'
<1>1. /\ debug_run_task \in RunTasks \cup {None} /\ Abandon(debug_run_task, None)
      /\ UNCHANGED <<debug_breakpoints, doubt, late>>
  BY DEF PowerOff, DebugInv, SessionTypes
<1> QED
  BY <1>1, AbandonEffect, DebugAssumption

LEMMA RunClosesEffect ==
    ASSUME DebugInv, NEW r \in RunTasks, RunCloses(r)
    PROVE  /\ Synced' /\ OneReader' /\ AnswersTell' /\ BreakpointsAgree' /\ WireTypes'
           /\ ClosedIsQuiet'
<1>1. ReadersStay
  BY DEF RunCloses, Suspend, ReadersStay, DebugInv, TaskTypes
<1>2. NoNewReader /\ RequestsStay /\ Close(gdb_client) /\ UNCHANGED <<debug_breakpoints, doubt, late>>
  BY <1>1, ReadersSplit DEF RunCloses
<1>3. /\ Synced' /\ ClosedIsQuiet' /\ WireTypes' /\ todo' \in {todo, <<>>}
      /\ replies' \in {replies, <<>>} /\ UNCHANGED <<conn, vm, hardware>>
  BY <1>2, CloseEffect
<1> QED
  BY <1>2, <1>3, OneReaderKept, AgreeKept, TellKept

LEMMA ConnectFailsEffect ==
    ASSUME DebugInv, NEW q \in Requests, ConnectFails(q)
    PROVE  Synced' /\ WireTypes' /\ ClosedIsQuiet'
<1>1. ReadersStay
  BY DEF ConnectFails, Return, ReadersStay, DebugInv, TaskTypes, Tasks
<1>2. /\ replies' \in {replies, <<>>} /\ UNCHANGED <<conn, doubt, late>>
      /\ \/ ~open' /\ open' = FALSE /\ todo' = <<>> /\ ~resumed'
         \/ UNCHANGED <<open, todo, resumed, replies>>
  BY DEF ConnectFails, Close, LeftToRead
<1>3. CASE ~open' /\ open' = FALSE /\ todo' = <<>> /\ ~resumed'
  <2>1. Synced' /\ ClosedIsQuiet'
    BY <1>1, <1>2, <1>3, ReadersSplit, ClosedMatched DEF ClosedIsQuiet
  <2>2. todo' \in Seq(DebugOps \cup {Continue})
    BY <1>3
  <2>3. open' \in BOOLEAN
    BY <1>3
  <2>4. replies' \in Seq(DebugOps \cup {Continue, Refusal})
    BY <1>2, RepliesCut
  <2> QED
    BY <1>2, <2>1, <2>2, <2>3, <2>4 DEF DebugInv, WireTypes
<1>4. CASE UNCHANGED <<open, todo, resumed, replies>>
  BY <1>1, <1>2, <1>4, MatchedKept DEF DebugInv, WireTypes, ClosedIsQuiet
<1> QED
  BY <1>2, <1>3, <1>4

LEMMA QmpEffect ==
    ASSUME DebugInv, NEW t \in Tasks, QmpExecute(t)
    PROVE  /\ Synced' /\ WireTypes' /\ ClosedIsQuiet' /\ AnswersTell' /\ BreakpointsAgree'
           /\ OneReader' /\ vm' \in {"running", "halted"} /\ resumed' \in BOOLEAN
           /\ UNCHANGED <<hardware, conn, open>>
<1>1. ReadersStay /\ vm # "none" /\ UNCHANGED <<doubt, late, debug_breakpoints>>
  BY DEF QmpExecute, Suspend, ReadersStay, DebugInv, TaskTypes, sessionVars
<1>2. \/ Halt /\ UNCHANGED todo
      \/ /\ vm' \in {vm, "running"} /\ UNCHANGED <<resumed, hardware, conn, open, todo, replies>>
  BY DEF QmpExecute, workerVars, wireVars
<1>3. CASE Halt /\ UNCHANGED todo
  <2>1. /\ Synced' /\ WireTypes' /\ ClosedIsQuiet' /\ AnswersTell' /\ vm' = "halted"
        /\ resumed' = FALSE /\ UNCHANGED <<conn, open, hardware>>
    BY <1>1, <1>3, HaltEffect
  <2>2. BreakpointsAgree' /\ OneReader'
    BY <1>1, <2>1, ReadersSplit, AgreeKept, OneReaderKept
  <2> QED
    BY <2>1, <2>2
<1>4. CASE vm' \in {vm, "running"} /\ UNCHANGED <<resumed, hardware, conn, open, todo, replies>>
  <2>1. Synced' /\ AnswersTell' /\ BreakpointsAgree' /\ OneReader'
    BY <1>1, <1>4, ReadersSplit, MatchedKept, TellKept, AgreeKept, OneReaderKept
  <2> QED
    BY <1>1, <1>4, <2>1 DEF DebugInv, WireTypes, ClosedIsQuiet, SessionTypes
<1> QED
  BY <1>2, <1>3, <1>4

LEMMA BootedEffect ==
    ASSUME DebugInv, Booted
    PROVE  /\ Synced' /\ WireTypes' /\ ClosedIsQuiet' /\ AnswersTell' /\ BreakpointsAgree'
           /\ ReadersStay /\ (open' => open)
<1>1. /\ ReadersStay /\ UNCHANGED <<doubt, late, debug_breakpoints>>
      /\ Dead \/ UNCHANGED <<vm, resumed, hardware, conn, open, todo, replies>>
  BY DEF Booted, ReadersStay, taskVars, workerVars, wireVars
<1>2. CASE Dead
  BY <1>1, <1>2, DeadEffect
<1>3. CASE UNCHANGED <<vm, resumed, hardware, conn, open, todo, replies>>
  <2>1. Synced' /\ AnswersTell' /\ BreakpointsAgree'
    BY <1>1, <1>3, ReadersSplit, MatchedKept, TellKept, AgreeKept
  <2> QED
    BY <1>1, <1>3, <2>1 DEF DebugInv, WireTypes, ClosedIsQuiet
<1> QED
  BY <1>1, <1>2, <1>3

LEMMA PoweredOffEffect ==
    ASSUME DebugInv, PoweredOff
    PROVE  /\ Synced' /\ WireTypes' /\ ClosedIsQuiet' /\ AnswersTell' /\ BreakpointsAgree'
           /\ OffIsQuiet' /\ ~open'
<1>1. ReadersStay /\ Dead /\ UNCHANGED <<doubt, late>> /\ UNCHANGED <<pc, held>> /\ RepliesRead
  BY DEF PoweredOff, ReadersStay, taskVars
<1>2. /\ Synced' /\ WireTypes' /\ ClosedIsQuiet' /\ AnswersTell' /\ BreakpointsAgree'
      /\ vm' = "none" /\ hardware' = {} /\ ~open'
      /\ replies' \in {replies, <<>>} /\ UNCHANGED conn
  BY <1>1, DeadEffect
<1> QED
  BY <1>1, <1>2 DEF OffIsQuiet, RepliesRead, LockFree

LEMMA HitEffect ==
    ASSUME DebugInv, Hit
    PROVE  Synced' /\ WireTypes' /\ ClosedIsQuiet' /\ AnswersTell'
<1>1. ReadersStay /\ Halt /\ UNCHANGED <<todo, doubt, late, debug_breakpoints>> /\ vm # "none"
  BY DEF Hit, ReadersStay, sessionVars, taskVars
<1> QED
  BY <1>1, HaltEffect

-----------------------------------------------------------------------------
(* The steps *)

\* The steps under a lock ...
LEMMA LockStepInv ==
    ASSUME DebugInv, NEW t \in Tasks, LockStep(t)
    PROVE  DebugInv'
<1>1. CASE QmpExecute(t)
  <2>1. SessionTypes'
    BY <1>1, DebugAssumption DEF QmpExecute, Halt, QmpFree, DebugInv, Suspend, Return,
       sessionVars, taskVars, wireVars, workerVars, SessionTypes, TaskTypes,
       WireTypes, Powered
  <2>2. TaskTypes'
    BY <1>1 DEF QmpExecute, Halt, QmpFree, DebugInv, Suspend, Return, workerVars,
       TaskTypes, SessionTypes
  <2>3. /\ WireTypes' /\ OneReader' /\ ClosedIsQuiet' /\ Synced'
        /\ BreakpointsAgree' /\ AnswersTell'
    BY <1>1, QmpEffect
  <2>4. TasksOK'
    <3>1. vm' \in {"running", "halted"}
      BY <1>1, QmpEffect
    <3> QED
      BY <1>1, <3>1 DEF QmpExecute, Suspend, DebugInv, TasksOK, TaskTypes
  <2>5. ClientIsCurrent'
    BY <1>1, DebugAssumption DEF QmpExecute, Halt, QmpFree, DebugInv, Suspend, Return,
       sessionVars, taskVars, wireVars, workerVars, ClientIsCurrent, TaskTypes
  <2>6. OffIsQuiet'
    BY <1>1 DEF QmpExecute, Halt, DebugInv, sessionVars, OffIsQuiet
  <2>7. QuotaKept'
    <3>1. Reserved' \subseteq Reserved
      BY <1>1, DebugAssumption DEF QmpExecute, Suspend, sessionVars, Reserved, Adding
    <3> QED
      BY <3>1, ReservedShrinks
  <2> QED
    BY <2>1, <2>2, <2>3, <2>4, <2>5, <2>6, <2>7 DEF DebugInv
<1>2. CASE QmpFails(t)
  <2>1. /\ SessionTypes' /\ WireTypes' /\ ClosedIsQuiet'
    BY <1>2, DebugAssumption DEF QmpFails, DebugInv, sessionVars, wireVars,
       workerVars, SessionTypes, WireTypes, ClosedIsQuiet
  <2>2. TaskTypes'
    BY <1>2 DEF QmpFails, DebugInv, Suspend, Return, TaskTypes
  <2>3. TasksOK'
    BY <1>2, DebugAssumption DEF QmpFails, DebugInv, Suspend, Return, TasksOK,
       TaskTypes, Tasks
  <2>4. OneReader'
    <3>1. NoNewReader
      BY <1>2 DEF QmpFails, DebugInv, Suspend, Return, TaskTypes, NoNewReader
    <3> QED
      BY <3>1, OneReaderKept
  <2>5. ClientIsCurrent'
    BY <1>2 DEF QmpFails, DebugInv, Suspend, Return, sessionVars, wireVars,
       ClientIsCurrent, TaskTypes
  <2>6. OffIsQuiet'
    BY <1>2 DEF QmpFails, DebugInv, Suspend, Return, sessionVars, wireVars,
       workerVars, OffIsQuiet, LockFree, TaskTypes
  <2>7. Synced'
    <3>1. ReadersStay /\ UNCHANGED <<conn, open, todo, replies, resumed, doubt, late>>
      BY <1>2, DebugAssumption DEF QmpFails, DebugInv, Suspend, Return, wireVars,
         workerVars, TaskTypes, ReadersStay
    <3> QED
      BY <3>1, MatchedKept
  <2>8. BreakpointsAgree'
    <3>1. /\ RequestsStay /\ (vm' # "none" => vm # "none")
          /\ UNCHANGED <<debug_breakpoints, hardware, doubt>>
      BY <1>2, DebugAssumption DEF QmpFails, DebugInv, Suspend, Return, sessionVars,
         workerVars, Tasks, TaskTypes, RequestsStay
    <3> QED
      BY <3>1, AgreeKept
  <2>9. AnswersTell'
    <3>1. /\ RequestsStay /\ (vm' # "none" => vm # "none") /\ todo' \in {todo, <<>>}
          /\ UNCHANGED <<debug_breakpoints, hardware, doubt, conn, replies>>
      BY <1>2, DebugAssumption DEF QmpFails, DebugInv, Suspend, Return, sessionVars,
         wireVars, workerVars, Tasks, TaskTypes, RequestsStay
    <3> QED
      BY <3>1, TellKept
  <2>10. QuotaKept'
    <3>1. Reserved' \subseteq Reserved
      BY <1>2, DebugAssumption DEF QmpFails, DebugInv, Suspend, Return, sessionVars,
         Tasks, TaskTypes, Reserved, Adding
    <3> QED
      BY <3>1, ReservedShrinks
  <2> QED
    BY <2>1, <2>2, <2>3, <2>4, <2>5, <2>6, <2>7, <2>8, <2>9, <2>10 DEF DebugInv
<1>3. CASE Send(t)
  <2>1. SessionTypes'
    BY <1>3 DEF Send, DebugInv, sessionVars, workerVars, SessionTypes
  <2>2. TaskTypes'
    BY <1>3 DEF Send, DebugInv, Suspend, TaskTypes
  <2>3. WireTypes'
    <3>1. op[t] \in DebugOps \cup {Continue}
      BY <1>3 DEF Send, DebugInv, TasksOK, Tasks
    <3>2. todo' \in Seq(DebugOps \cup {Continue})
      BY <1>3, <3>1 DEF Send, DebugInv, WireTypes
    <3> QED
      BY <1>3, <3>2 DEF Send, DebugInv, WireTypes
  <2>4. TasksOK'
    BY <1>3 DEF Send, DebugInv, Suspend, TasksOK
  <2>5. /\ OneReader' /\ Synced' /\ BreakpointsAgree' /\ AnswersTell'
    BY <1>3, SendEffect
  <2>6. ClosedIsQuiet'
    BY <1>3 DEF Send, ClosedIsQuiet
  <2>7. ClientIsCurrent'
    BY <1>3 DEF Send, DebugInv, sessionVars, ClientIsCurrent
  <2>8. OffIsQuiet'
    BY <1>3 DEF Send, DebugInv, sessionVars, OffIsQuiet
  <2>9. QuotaKept'
    <3>1. Reserved' \subseteq Reserved
      BY <1>3, DebugAssumption DEF Send, Suspend, sessionVars, Reserved, Adding
    <3> QED
      BY <3>1, ReservedShrinks
  <2> QED
    BY <2>1, <2>2, <2>3, <2>4, <2>5, <2>6, <2>7, <2>8, <2>9 DEF DebugInv
<1> QED
  BY <1>1, <1>2, <1>3 DEF LockStep

\* ... of a request until it has its client ...
LEMMA RequestInv ==
    ASSUME DebugInv, NEW q \in Requests,
           \/ \E o \in Offered : Begin(q, o)
           \/ ControlDone(q) \/ DebugChecked(q) \/ (\E c \in Clients : Attach(q, c))
           \/ Negotiated(q) \/ ConnectFails(q)
    PROVE  DebugInv'
<1> q \in Tasks
  BY DEF Tasks
<1>1. ASSUME NEW o \in Offered, Begin(q, o)
      PROVE  DebugInv'
  <2>1. /\ SessionTypes' /\ WireTypes' /\ ClosedIsQuiet'
    BY <1>1, OfferedAssumption DEF Begin, DebugInv, Suspend, sessionVars, wireVars,
       workerVars, SessionTypes, WireTypes, ClosedIsQuiet
  <2>2. TaskTypes'
    BY <1>1, OfferedAssumption DEF Begin, DebugInv, TaskTypes
  <2>3. TasksOK'
    BY <1>1, DebugAssumption, OfferedAssumption DEF Begin, DebugInv, TasksOK
  <2>4. OneReader'
    <3>1. NoNewReader
      BY <1>1 DEF Begin, NoNewReader
    <3> QED
      BY <3>1, OneReaderKept
  <2>5. ClientIsCurrent'
    BY <1>1 DEF Begin, DebugInv, sessionVars, wireVars, ClientIsCurrent
  <2>6. OffIsQuiet'
    BY <1>1 DEF Begin, DebugInv, sessionVars, wireVars, workerVars, OffIsQuiet,
       LockFree
  <2>7. Synced'
    <3>1. ReadersStay /\ UNCHANGED <<conn, open, todo, replies, resumed, doubt, late>>
      BY <1>1 DEF Begin, wireVars, workerVars, ReadersStay
    <3> QED
      BY <3>1, MatchedKept
  <2>8. BreakpointsAgree'
    <3>1. /\ RequestsStay /\ (vm' # "none" => vm # "none")
          /\ UNCHANGED <<debug_breakpoints, hardware, doubt>>
      BY <1>1 DEF Begin, sessionVars, workerVars, RequestsStay
    <3> QED
      BY <3>1, AgreeKept
  <2>9. AnswersTell'
    <3>1. /\ RequestsStay /\ (vm' # "none" => vm # "none") /\ todo' \in {todo, <<>>}
          /\ UNCHANGED <<debug_breakpoints, hardware, doubt, conn, replies>>
      BY <1>1, OfferedAssumption DEF Begin, sessionVars, wireVars, workerVars,
         RequestsStay
    <3> QED
      BY <3>1, TellKept
  <2>10. QuotaKept'
    <3>1. Reserved' \subseteq Reserved
      BY <1>1 DEF Begin, sessionVars, Reserved, Adding
    <3> QED
      BY <3>1, ReservedShrinks
  <2> QED
    BY <2>1, <2>2, <2>3, <2>4, <2>5, <2>6, <2>7, <2>8, <2>9, <2>10 DEF DebugInv
<1>2. CASE ControlDone(q)
  <2>1. /\ WireTypes' /\ ClosedIsQuiet'
    BY <1>2 DEF ControlDone, Learn, DebugInv, wireVars, workerVars, WireTypes,
       ClosedIsQuiet
  <2>2. SessionTypes'
    BY <1>2, DebugAssumption DEF ControlDone, Learn, DebugInv, workerVars,
       SessionTypes, Powered
  <2>3. TaskTypes'
    BY <1>2, DebugAssumption DEF ControlDone, DebugInv, Suspend, Return, TaskTypes,
       SessionTypes
  <2>4. TasksOK'
    BY <1>2, DebugAssumption DEF ControlDone, Learn, DebugInv, Suspend, Return,
       TasksOK, TaskTypes, Tasks
  <2>5. OneReader'
    <3>1. NoNewReader
      BY <1>2 DEF ControlDone, DebugInv, Suspend, Return, TaskTypes, NoNewReader
    <3> QED
      BY <3>1, OneReaderKept
  <2>6. ClientIsCurrent'
    BY <1>2, DebugAssumption DEF ControlDone, Learn, DebugInv, Suspend, Return,
       wireVars, ClientIsCurrent, TaskTypes
  <2>7. OffIsQuiet'
    BY <1>2 DEF ControlDone, Learn, OffIsQuiet
  <2>8. Synced'
    <3>1. ReadersStay /\ UNCHANGED <<conn, open, todo, replies, resumed, doubt, late>>
      BY <1>2 DEF ControlDone, Learn, DebugInv, Suspend, Return, wireVars, workerVars,
         TaskTypes, ReadersStay
    <3> QED
      BY <3>1, MatchedKept
  <2>9. BreakpointsAgree'
    <3>1. /\ RequestsStay /\ (vm' # "none" => vm # "none")
          /\ UNCHANGED <<debug_breakpoints, hardware, doubt>>
      BY <1>2 DEF ControlDone, Learn, DebugInv, Suspend, Return, workerVars, Tasks,
         TaskTypes, RequestsStay
    <3> QED
      BY <3>1, AgreeKept
  <2>10. AnswersTell'
    <3>1. /\ RequestsStay /\ (vm' # "none" => vm # "none") /\ todo' \in {todo, <<>>}
          /\ UNCHANGED <<debug_breakpoints, hardware, doubt, conn, replies>>
      BY <1>2 DEF ControlDone, Learn, DebugInv, Suspend, Return, wireVars, workerVars,
         Tasks, TaskTypes, RequestsStay
    <3> QED
      BY <3>1, TellKept
  <2>11. QuotaKept'
    <3>1. Reserved' \subseteq Reserved
      BY <1>2 DEF ControlDone, Learn, DebugInv, Suspend, Return, sessionVars, Tasks,
         TaskTypes, Reserved, Adding
    <3> QED
      BY <3>1, ReservedShrinks
  <2> QED
    BY <2>1, <2>2, <2>3, <2>4, <2>5, <2>6, <2>7, <2>8, <2>9, <2>10, <2>11 DEF DebugInv
<1>3. CASE DebugChecked(q)
  <2>1. /\ WireTypes' /\ ClosedIsQuiet'
    BY <1>3 DEF DebugChecked, Learn, DebugInv, wireVars, workerVars, WireTypes,
       ClosedIsQuiet
  <2>2. SessionTypes'
    BY <1>3 DEF DebugChecked, Learn, Use, DebugInv, workerVars, SessionTypes, Powered
  <2>3. TaskTypes'
    BY <1>3 DEF DebugChecked, Learn, Use, DebugInv, Suspend, Return, TaskTypes,
       SessionTypes
  <2>4. TasksOK'
    BY <1>3, DebugAssumption DEF DebugChecked, Learn, Use, DebugInv, Suspend, Return,
       TasksOK, TaskTypes, Tasks
  <2>5. OneReader'
    <3>1. NoNewReader
      BY <1>3, DebugAssumption DEF DebugChecked, Learn, Use, DebugInv, Suspend,
         Return, TaskTypes, NoNewReader
    <3> QED
      BY <3>1, OneReaderKept
  <2>6. ClientIsCurrent'
    BY <1>3 DEF DebugChecked, Learn, Use, DebugInv, Suspend, Return, wireVars,
       ClientIsCurrent, TaskTypes
  <2>7. OffIsQuiet'
    BY <1>3 DEF DebugChecked, Learn, OffIsQuiet
  <2>8. Synced'
    <3>1. ReadersStay /\ UNCHANGED <<conn, open, todo, replies, resumed, doubt, late>>
      BY <1>3, DebugAssumption DEF DebugChecked, Learn, Use, DebugInv, Suspend,
         Return, wireVars, workerVars, TaskTypes, ReadersStay
    <3> QED
      BY <3>1, MatchedKept
  <2>9. BreakpointsAgree'
    <3>1. /\ RequestsStay /\ (vm' # "none" => vm # "none")
          /\ UNCHANGED <<debug_breakpoints, hardware, doubt>>
      BY <1>3, DebugAssumption DEF DebugChecked, Learn, Use, DebugInv, Suspend,
         Return, workerVars, Tasks, TaskTypes, RequestsStay
    <3> QED
      BY <3>1, AgreeKept
  <2>10. AnswersTell'
    <3>1. /\ RequestsStay /\ (vm' # "none" => vm # "none") /\ todo' \in {todo, <<>>}
          /\ UNCHANGED <<debug_breakpoints, hardware, doubt, conn, replies>>
      BY <1>3, DebugAssumption DEF DebugChecked, Learn, Use, DebugInv, Suspend,
         Return, wireVars, workerVars, Tasks, TaskTypes, RequestsStay
    <3> QED
      BY <3>1, TellKept
  <2>11. QuotaKept'
    <3>1. CASE Use(q, gdb_client)
      BY <1>3, <3>1, UseQuota DEF DebugChecked, Learn
    <3>2. CASE ~Use(q, gdb_client)
      <4>1. Reserved' \subseteq Reserved
        BY <1>3, <3>2 DEF DebugChecked, Learn, DebugInv, Suspend, Return, sessionVars,
           Tasks, TaskTypes, Reserved, Adding
      <4> QED
        BY <4>1, ReservedShrinks
    <3> QED
      BY <3>1, <3>2
  <2> QED
    BY <2>1, <2>2, <2>3, <2>4, <2>5, <2>6, <2>7, <2>8, <2>9, <2>10, <2>11 DEF DebugInv
<1>4. ASSUME NEW c \in Clients, Attach(q, c)
      PROVE  DebugInv'
  <2>1. SessionTypes'
    BY <1>4 DEF Attach, DebugInv, sessionVars, SessionTypes
  <2>2. TaskTypes'
    BY <1>4 DEF Attach, DebugInv, Suspend, TaskTypes
  <2>3. /\ WireTypes' /\ ClosedIsQuiet' /\ ClientIsCurrent' /\ Synced'
        /\ AnswersTell'
    BY <1>4, AttachEffect
  <2>4. TasksOK'
    BY <1>4 DEF Attach, DebugInv, Suspend, TasksOK
  <2>5. OneReader'
    BY <1>4, AttachEffect, ReadersSplit, OneReaderKept
  <2>6. OffIsQuiet'
    BY <1>4 DEF Attach, DebugInv, sessionVars, OffIsQuiet
  <2>7. BreakpointsAgree'
    <3>1. /\ RequestsStay /\ (vm' # "none" => vm # "none")
          /\ UNCHANGED <<debug_breakpoints, hardware, doubt>>
      BY <1>4 DEF Attach, Suspend, sessionVars, RequestsStay
    <3> QED
      BY <3>1, AgreeKept
  <2>8. QuotaKept'
    <3>1. Reserved' \subseteq Reserved
      BY <1>4, DebugAssumption DEF Attach, Suspend, sessionVars, Reserved, Adding
    <3> QED
      BY <3>1, ReservedShrinks
  <2> QED
    BY <2>1, <2>2, <2>3, <2>4, <2>5, <2>6, <2>7, <2>8 DEF DebugInv
<1>5. CASE Negotiated(q)
  <2>1. /\ WireTypes' /\ ClosedIsQuiet'
    BY <1>5 DEF Negotiated, DebugInv, wireVars, WireTypes, ClosedIsQuiet
  <2>2. SessionTypes'
    BY <1>5, DebugAssumption DEF Negotiated, DebugInv, workerVars, SessionTypes,
       TaskTypes
  <2>3. TaskTypes'
    BY <1>5 DEF Negotiated, Use, DebugInv, Suspend, Return, TaskTypes
  <2>4. TasksOK'
    BY <1>5 DEF Negotiated, Use, DebugInv, Suspend, Return, TasksOK, TaskTypes, Tasks
  <2>5. OneReader'
    <3>1. NoNewReader
      BY <1>5 DEF Negotiated, Use, DebugInv, Suspend, Return, TaskTypes, NoNewReader
    <3> QED
      BY <3>1, OneReaderKept
  <2>6. ClientIsCurrent'
    BY <1>5 DEF Negotiated, wireVars, ClientIsCurrent
  <2>7. OffIsQuiet'
    BY <1>5 DEF Negotiated, DebugInv, OffIsQuiet
  <2>8. Synced'
    <3>1. ReadersStay /\ UNCHANGED <<conn, open, todo, replies, resumed, doubt, late>>
      BY <1>5 DEF Negotiated, Use, DebugInv, Suspend, Return, wireVars, workerVars,
         TaskTypes, ReadersStay
    <3> QED
      BY <3>1, MatchedKept
  <2>9. BreakpointsAgree'
    <3>1. /\ RequestsStay /\ (vm' # "none" => vm # "none")
          /\ UNCHANGED <<debug_breakpoints, hardware, doubt>>
      BY <1>5 DEF Negotiated, Use, DebugInv, Suspend, Return, workerVars, Tasks,
         TaskTypes, RequestsStay
    <3> QED
      BY <3>1, AgreeKept
  <2>10. AnswersTell'
    <3>1. /\ RequestsStay /\ (vm' # "none" => vm # "none") /\ todo' \in {todo, <<>>}
          /\ UNCHANGED <<debug_breakpoints, hardware, doubt, conn, replies>>
      BY <1>5 DEF Negotiated, Use, DebugInv, Suspend, Return, wireVars, workerVars,
         Tasks, TaskTypes, RequestsStay
    <3> QED
      BY <3>1, TellKept
  <2>11. QuotaKept'
    BY <1>5, UseQuota DEF Negotiated
  <2> QED
    BY <2>1, <2>2, <2>3, <2>4, <2>5, <2>6, <2>7, <2>8, <2>9, <2>10, <2>11 DEF DebugInv
<1>6. CASE ConnectFails(q)
  <2>1. SessionTypes'
    BY <1>6, DebugAssumption DEF ConnectFails, Close, DebugInv, Suspend, Return,
       sessionVars, taskVars, wireVars, workerVars, SessionTypes, TaskTypes,
       WireTypes, Powered
  <2>2. TaskTypes'
    BY <1>6 DEF ConnectFails, DebugInv, Return, TaskTypes
  <2>3. /\ WireTypes' /\ ClosedIsQuiet' /\ Synced'
    BY <1>6, ConnectFailsEffect
  <2>4. TasksOK'
    BY <1>6 DEF ConnectFails, Close, DebugInv, Return, TasksOK, TaskTypes
  <2>5. OneReader'
    <3>1. NoNewReader
      BY <1>6 DEF ConnectFails, Return, NoNewReader
    <3> QED
      BY <3>1, OneReaderKept
  <2>6. ClientIsCurrent'
    BY <1>6, DebugAssumption DEF ConnectFails, Close, DebugInv, Suspend, Return,
       sessionVars, taskVars, wireVars, workerVars, ClientIsCurrent, TaskTypes
  <2>7. OffIsQuiet'
    BY <1>6, DebugAssumption DEF ConnectFails, Close, LeftToRead, DebugInv, Return,
       sessionVars, OffIsQuiet, LockFree
  <2>8. BreakpointsAgree'
    <3>1. /\ RequestsStay /\ (vm' # "none" => vm # "none")
          /\ UNCHANGED <<debug_breakpoints, hardware, doubt>>
      BY <1>6 DEF ConnectFails, Close, Return, sessionVars, RequestsStay
    <3> QED
      BY <3>1, AgreeKept
  <2>9. AnswersTell'
    <3>1. /\ RequestsStay /\ (vm' # "none" => vm # "none") /\ todo' \in {todo, <<>>}
          /\ replies' \in {replies, <<>>}
          /\ UNCHANGED <<debug_breakpoints, hardware, doubt, conn>>
      BY <1>6 DEF ConnectFails, Close, LeftToRead, Return, sessionVars, RequestsStay
    <3> QED
      BY <3>1, TellKept
  <2>10. QuotaKept'
    <3>1. Reserved' \subseteq Reserved
      BY <1>6 DEF ConnectFails, Return, sessionVars, Reserved, Adding
    <3> QED
      BY <3>1, ReservedShrinks
  <2> QED
    BY <2>1, <2>2, <2>3, <2>4, <2>5, <2>6, <2>7, <2>8, <2>9, <2>10 DEF DebugInv
<1> QED
  BY <1>1, <1>2, <1>3, <1>4, <1>5, <1>6

\* ... and after that ...
LEMMA CommandInv ==
    ASSUME DebugInv, NEW q \in Requests,
           Reply(q) \/ CommandFails(q) \/ RunAwaited(q) \/ PauseTimesOut(q)
    PROVE  DebugInv'
<1> q \in Tasks
  BY DEF Tasks
<1>1. CASE Reply(q)
  <2>1. SessionTypes'
    <3>1. /\ UNCHANGED <<state, gdb_client, debug_run_task, power, vm, resumed, hardware, doubt, late>>
          /\ debug_breakpoints' \subseteq Addresses
      BY <1>1, ReplyEffect DEF Reply, workerVars
    <3> QED
      BY <3>1 DEF DebugInv, SessionTypes
  <2>2. TaskTypes'
    BY <1>1 DEF Reply, Arrives, DebugInv, Suspend, Return, TaskTypes, TasksOK
  <2>3. /\ WireTypes' /\ OneReader' /\ Synced' /\ BreakpointsAgree'
        /\ AnswersTell'
    BY <1>1, ReplyEffect
  <2>4. TasksOK'
    BY <1>1 DEF Reply, Arrives, DebugInv, Suspend, Return, TasksOK, TaskTypes, Tasks
  <2>5. ClosedIsQuiet'
    BY <1>1 DEF Reply, DebugInv, workerVars, ClosedIsQuiet
  <2>6. ClientIsCurrent'
    BY <1>1 DEF Reply, Arrives, DebugInv, ClientIsCurrent
  <2>7. OffIsQuiet'
    BY <1>1 DEF Reply, Arrives, DebugInv, OffIsQuiet, LockFree
  <2>8. QuotaKept'
    BY <1>1, ReplyEffect, ReservedShrinks
  <2> QED
    BY <2>1, <2>2, <2>3, <2>4, <2>5, <2>6, <2>7, <2>8 DEF DebugInv
<1>2. CASE CommandFails(q)
  <2>1. /\ WireTypes' /\ ClosedIsQuiet'
    BY <1>2 DEF CommandFails, DebugInv, wireVars, workerVars, WireTypes, ClosedIsQuiet
  <2>2. SessionTypes'
    <3>1. UNCHANGED <<sessionVars, power, workerVars>> /\ doubt' \subseteq Addresses /\ late' \in BOOLEAN
      BY <1>2, CommandFailsEffect DEF CommandFails
    <3> QED
      BY <3>1 DEF DebugInv, SessionTypes, sessionVars, workerVars
  <2>3. TaskTypes'
    BY <1>2 DEF CommandFails, DebugInv, Return, TaskTypes
  <2>4. TasksOK'
    BY <1>2 DEF CommandFails, Disconnected, DebugInv, Return, TasksOK, TaskTypes
  <2>5. /\ OneReader' /\ Synced' /\ BreakpointsAgree' /\ AnswersTell'
    BY <1>2, CommandFailsEffect
  <2>6. ClientIsCurrent'
    BY <1>2, DebugAssumption DEF CommandFails, Disconnected, DebugInv, Return,
       sessionVars, wireVars, ClientIsCurrent, TaskTypes
  <2>7. OffIsQuiet'
    BY <1>2, DebugAssumption DEF CommandFails, Disconnected, DebugInv, Suspend,
       Return, sessionVars, wireVars, workerVars, OffIsQuiet, LockFree, TaskTypes
  <2>8. QuotaKept'
    <3>1. Reserved' \subseteq Reserved
      BY <1>2 DEF CommandFails, Return, sessionVars, Reserved, Adding, Nothing
    <3> QED
      BY <3>1, ReservedShrinks
  <2> QED
    BY <2>1, <2>2, <2>3, <2>4, <2>5, <2>6, <2>7, <2>8 DEF DebugInv
<1>3. CASE RunAwaited(q)
  <2>1. /\ SessionTypes' /\ WireTypes' /\ ClosedIsQuiet'
    BY <1>3, DebugAssumption DEF RunAwaited, DebugInv, sessionVars, wireVars,
       workerVars, SessionTypes, WireTypes, ClosedIsQuiet
  <2>2. TaskTypes'
    BY <1>3 DEF RunAwaited, DebugInv, Return, TaskTypes
  <2>3. TasksOK'
    BY <1>3 DEF RunAwaited, DebugInv, Return, TasksOK
  <2>4. OneReader'
    <3>1. NoNewReader
      BY <1>3 DEF RunAwaited, Return, NoNewReader
    <3> QED
      BY <3>1, OneReaderKept
  <2>5. ClientIsCurrent'
    BY <1>3 DEF RunAwaited, DebugInv, Return, sessionVars, wireVars, ClientIsCurrent
  <2>6. OffIsQuiet'
    BY <1>3 DEF RunAwaited, DebugInv, Return, sessionVars, wireVars, workerVars,
       OffIsQuiet, LockFree
  <2>7. Synced'
    <3>1. ReadersStay /\ UNCHANGED <<conn, open, todo, replies, resumed, doubt, late>>
      BY <1>3, DebugAssumption DEF RunAwaited, Return, wireVars, workerVars,
         ReadersStay
    <3> QED
      BY <3>1, MatchedKept
  <2>8. BreakpointsAgree'
    <3>1. /\ RequestsStay /\ (vm' # "none" => vm # "none")
          /\ UNCHANGED <<debug_breakpoints, hardware, doubt>>
      BY <1>3 DEF RunAwaited, Return, sessionVars, workerVars, RequestsStay
    <3> QED
      BY <3>1, AgreeKept
  <2>9. AnswersTell'
    <3>1. /\ RequestsStay /\ (vm' # "none" => vm # "none") /\ todo' \in {todo, <<>>}
          /\ UNCHANGED <<debug_breakpoints, hardware, doubt, conn, replies>>
      BY <1>3, DebugAssumption DEF RunAwaited, Return, sessionVars, wireVars,
         workerVars, RequestsStay
    <3> QED
      BY <3>1, TellKept
  <2>10. QuotaKept'
    <3>1. Reserved' \subseteq Reserved
      BY <1>3 DEF RunAwaited, Return, sessionVars, Reserved, Adding
    <3> QED
      BY <3>1, ReservedShrinks
  <2> QED
    BY <2>1, <2>2, <2>3, <2>4, <2>5, <2>6, <2>7, <2>8, <2>9, <2>10 DEF DebugInv
<1>4. CASE PauseTimesOut(q)
  <2>1. SessionTypes'
    BY <1>4, DebugAssumption DEF PauseTimesOut, Abandon, Close, DebugInv, Suspend,
       Return, sessionVars, taskVars, wireVars, workerVars, SessionTypes, TaskTypes,
       WireTypes, Powered
  <2>2. TaskTypes'
    BY <1>4 DEF PauseTimesOut, Abandon, DebugInv, TaskTypes
  <2>3. /\ WireTypes' /\ OneReader' /\ ClosedIsQuiet' /\ Synced'
        /\ BreakpointsAgree' /\ AnswersTell' /\ QuotaKept'
    BY <1>4, PauseTimesOutEffect
  <2>4. TasksOK'
    BY <1>4, DebugAssumption DEF PauseTimesOut, Abandon, DebugInv, TasksOK, Tasks
  <2>5. ClientIsCurrent'
    BY <1>4, DebugAssumption DEF PauseTimesOut, Abandon, Close, DebugInv, Suspend,
       Return, sessionVars, taskVars, wireVars, workerVars, ClientIsCurrent, TaskTypes
  <2>6. OffIsQuiet'
    BY <1>4 DEF PauseTimesOut, Abandon, Close, LeftToRead, DebugInv, OffIsQuiet,
       LockFree
  <2> QED
    BY <2>1, <2>2, <2>3, <2>4, <2>5, <2>6 DEF DebugInv
<1> QED
  BY <1>1, <1>2, <1>3, <1>4

\* ... of a run task ...
LEMMA RunInv ==
    ASSUME DebugInv, NEW r \in RunTasks, RunStep(r) \/ Resume(r)
    PROVE  DebugInv'
<1> r \in Tasks
  BY DEF Tasks
<1>1. CASE Resume(r)
  <2>1. /\ WireTypes' /\ ClosedIsQuiet'
    BY <1>1 DEF Resume, DebugInv, wireVars, workerVars, WireTypes, ClosedIsQuiet
  <2>2. SessionTypes'
    BY <1>1 DEF Resume, DebugInv, workerVars, SessionTypes, Powered
  <2>3. TaskTypes'
    BY <1>1 DEF Resume, DebugInv, TaskTypes
  <2>4. TasksOK'
    BY <1>1, DebugAssumption DEF Resume, DebugInv, TasksOK, TaskTypes
  <2>5. OneReader'
    <3>1. NoNewReader
      BY <1>1 DEF Resume, NoNewReader
    <3> QED
      BY <3>1, OneReaderKept
  <2>6. ClientIsCurrent'
    BY <1>1 DEF Resume, DebugInv, wireVars, ClientIsCurrent
  <2>7. OffIsQuiet'
    BY <1>1 DEF Resume, OffIsQuiet
  <2>8. Synced'
    <3>1. ReadersStay /\ UNCHANGED <<conn, open, todo, replies, resumed, doubt, late>>
      BY <1>1 DEF Resume, wireVars, workerVars, ReadersStay
    <3> QED
      BY <3>1, MatchedKept
  <2>9. BreakpointsAgree'
    <3>1. /\ RequestsStay /\ (vm' # "none" => vm # "none")
          /\ UNCHANGED <<debug_breakpoints, hardware, doubt>>
      BY <1>1 DEF Resume, workerVars, RequestsStay
    <3> QED
      BY <3>1, AgreeKept
  <2>10. AnswersTell'
    <3>1. /\ RequestsStay /\ (vm' # "none" => vm # "none") /\ todo' \in {todo, <<>>}
          /\ UNCHANGED <<debug_breakpoints, hardware, doubt, conn, replies>>
      BY <1>1 DEF Resume, wireVars, workerVars, RequestsStay
    <3> QED
      BY <3>1, TellKept
  <2>11. QuotaKept'
    <3>1. Reserved' \subseteq Reserved
      BY <1>1 DEF Resume, Reserved, Adding
    <3> QED
      BY <3>1, ReservedShrinks
  <2> QED
    BY <2>1, <2>2, <2>3, <2>4, <2>5, <2>6, <2>7, <2>8, <2>9, <2>10, <2>11 DEF DebugInv
<1>2. CASE RunRefreshed(r)
  <2>1. /\ WireTypes' /\ ClosedIsQuiet'
    BY <1>2 DEF RunRefreshed, Learn, DebugInv, wireVars, workerVars, WireTypes,
       ClosedIsQuiet
  <2>2. SessionTypes'
    BY <1>2, DebugAssumption DEF RunRefreshed, Learn, DebugInv, workerVars,
       SessionTypes, Powered
  <2>3. TaskTypes'
    BY <1>2 DEF RunRefreshed, DebugInv, Suspend, TaskTypes
  <2>4. TasksOK'
    BY <1>2, DebugAssumption DEF RunRefreshed, Learn, DebugInv, Suspend, TasksOK,
       TaskTypes
  <2>5. OneReader'
    <3>1. NoNewReader
      BY <1>2 DEF RunRefreshed, Learn, Suspend, NoNewReader
    <3> QED
      BY <3>1, OneReaderKept
  <2>6. ClientIsCurrent'
    BY <1>2, DebugAssumption DEF RunRefreshed, Learn, DebugInv, Suspend, wireVars,
       ClientIsCurrent
  <2>7. OffIsQuiet'
    BY <1>2 DEF RunRefreshed, Learn, OffIsQuiet
  <2>8. Synced'
    <3>1. ReadersStay /\ UNCHANGED <<conn, open, todo, replies, resumed, doubt, late>>
      BY <1>2 DEF RunRefreshed, Learn, Suspend, wireVars, workerVars, ReadersStay
    <3> QED
      BY <3>1, MatchedKept
  <2>9. BreakpointsAgree'
    <3>1. /\ RequestsStay /\ (vm' # "none" => vm # "none")
          /\ UNCHANGED <<debug_breakpoints, hardware, doubt>>
      BY <1>2 DEF RunRefreshed, Learn, Suspend, workerVars, RequestsStay
    <3> QED
      BY <3>1, AgreeKept
  <2>10. AnswersTell'
    <3>1. /\ RequestsStay /\ (vm' # "none" => vm # "none") /\ todo' \in {todo, <<>>}
          /\ UNCHANGED <<debug_breakpoints, hardware, doubt, conn, replies>>
      BY <1>2 DEF RunRefreshed, Learn, Suspend, wireVars, workerVars, RequestsStay
    <3> QED
      BY <3>1, TellKept
  <2>11. QuotaKept'
    <3>1. Reserved' \subseteq Reserved
      BY <1>2 DEF RunRefreshed, Learn, Suspend, Reserved, Adding
    <3> QED
      BY <3>1, ReservedShrinks
  <2> QED
    BY <2>1, <2>2, <2>3, <2>4, <2>5, <2>6, <2>7, <2>8, <2>9, <2>10, <2>11 DEF DebugInv
<1>3. CASE RunStart(r)
  <2>1. /\ SessionTypes' /\ WireTypes' /\ ClosedIsQuiet'
    BY <1>3 DEF RunStart, RunRaised, DebugInv, Suspend, sessionVars, wireVars,
       workerVars, SessionTypes, WireTypes, ClosedIsQuiet
  <2>2. TaskTypes'
    BY <1>3, DebugAssumption DEF RunStart, RunRaised, DebugInv, Suspend, TaskTypes,
       SessionTypes
  <2>3. TasksOK'
    BY <1>3 DEF RunStart, RunRaised, DebugInv, Suspend, TasksOK, TaskTypes, Tasks
  <2>4. OneReader'
    <3>1. NoNewReader
      BY <1>3 DEF RunStart, RunRaised, DebugInv, Suspend, TaskTypes, NoNewReader
    <3> QED
      BY <3>1, OneReaderKept
  <2>5. ClientIsCurrent'
    BY <1>3, DebugAssumption DEF RunStart, RunRaised, DebugInv, Suspend, sessionVars,
       wireVars, ClientIsCurrent, TaskTypes
  <2>6. OffIsQuiet'
    BY <1>3, DebugAssumption DEF RunStart, RunRaised, DebugInv, Suspend, Return,
       sessionVars, wireVars, workerVars, OffIsQuiet, LockFree, TaskTypes
  <2>7. Synced'
    <3>1. ReadersStay /\ UNCHANGED <<conn, open, todo, replies, resumed, doubt, late>>
      BY <1>3 DEF RunStart, RunRaised, DebugInv, Suspend, wireVars, workerVars,
         TaskTypes, ReadersStay
    <3> QED
      BY <3>1, MatchedKept
  <2>8. BreakpointsAgree'
    <3>1. /\ RequestsStay /\ (vm' # "none" => vm # "none")
          /\ UNCHANGED <<debug_breakpoints, hardware, doubt>>
      BY <1>3 DEF RunStart, RunRaised, DebugInv, Suspend, sessionVars, workerVars,
         Tasks, TaskTypes, RequestsStay
    <3> QED
      BY <3>1, AgreeKept
  <2>9. AnswersTell'
    <3>1. /\ RequestsStay /\ (vm' # "none" => vm # "none") /\ todo' \in {todo, <<>>}
          /\ UNCHANGED <<debug_breakpoints, hardware, doubt, conn, replies>>
      BY <1>3 DEF RunStart, RunRaised, DebugInv, Suspend, sessionVars, wireVars,
         workerVars, Tasks, TaskTypes, RequestsStay
    <3> QED
      BY <3>1, TellKept
  <2>10. QuotaKept'
    <3>1. Reserved' \subseteq Reserved
      BY <1>3, DebugAssumption DEF RunStart, RunRaised, DebugInv, Suspend, Return,
         sessionVars, Tasks, TaskTypes, Reserved, Adding
    <3> QED
      BY <3>1, ReservedShrinks
  <2> QED
    BY <2>1, <2>2, <2>3, <2>4, <2>5, <2>6, <2>7, <2>8, <2>9, <2>10 DEF DebugInv
<1>4. CASE RunStopped(r)
  <2>1. SessionTypes'
    BY <1>4, DebugAssumption DEF RunStopped, Arrives, DebugInv, workerVars,
       SessionTypes, Powered
  <2>2. TaskTypes'
    BY <1>4 DEF RunStopped, DebugInv, Return, TaskTypes
  <2>3. /\ WireTypes' /\ OneReader' /\ Synced' /\ BreakpointsAgree'
        /\ AnswersTell'
    BY <1>4, RunEndEffect
  <2>4. TasksOK'
    BY <1>4 DEF RunStopped, Arrives, DebugInv, Return, TasksOK, TaskTypes
  <2>5. ClosedIsQuiet'
    BY <1>4 DEF RunStopped, DebugInv, workerVars, ClosedIsQuiet
  <2>6. ClientIsCurrent'
    BY <1>4 DEF RunStopped, Arrives, DebugInv, ClientIsCurrent
  <2>7. OffIsQuiet'
    BY <1>4 DEF RunStopped, Arrives, DebugInv, OffIsQuiet, LockFree
  <2>8. QuotaKept'
    <3>1. Reserved' \subseteq Reserved
      BY <1>4 DEF RunStopped, Return, Reserved, Adding, Nothing
    <3> QED
      BY <3>1, ReservedShrinks
  <2> QED
    BY <2>1, <2>2, <2>3, <2>4, <2>5, <2>6, <2>7, <2>8 DEF DebugInv
<1>5. CASE RunFails(r)
  <2>1. /\ SessionTypes' /\ ClosedIsQuiet'
    BY <1>5, DebugAssumption DEF RunFails, Disconnected, DebugInv, sessionVars,
       workerVars, SessionTypes, ClosedIsQuiet
  <2>2. TaskTypes'
    BY <1>5, DebugAssumption DEF RunFails, RunRaised, DebugInv, Suspend, TaskTypes
  <2>3. /\ WireTypes' /\ OneReader' /\ Synced' /\ BreakpointsAgree'
        /\ AnswersTell'
    BY <1>5, RunEndEffect
  <2>4. TasksOK'
    BY <1>5, DebugAssumption DEF RunFails, RunRaised, Arrives, Disconnected, DebugInv,
       Suspend, TasksOK
  <2>5. ClientIsCurrent'
    BY <1>5, DebugAssumption DEF RunFails, RunRaised, Arrives, Disconnected, DebugInv,
       Suspend, sessionVars, ClientIsCurrent, TaskTypes
  <2>6. OffIsQuiet'
    BY <1>5, DebugAssumption DEF RunFails, RunRaised, Arrives, Disconnected, DebugInv,
       Suspend, Return, sessionVars, taskVars, workerVars, OffIsQuiet, LockFree,
       TaskTypes
  <2>7. QuotaKept'
    <3>1. Reserved' \subseteq Reserved
      BY <1>5 DEF RunFails, RunRaised, DebugInv, Suspend, sessionVars, Reserved,
         Adding
    <3> QED
      BY <3>1, ReservedShrinks
  <2> QED
    BY <2>1, <2>2, <2>3, <2>4, <2>5, <2>6, <2>7 DEF DebugInv
<1>6. CASE RunCloses(r)
  <2>1. SessionTypes'
    BY <1>6, DebugAssumption DEF RunCloses, Close, DebugInv, Suspend, Return,
       sessionVars, taskVars, wireVars, workerVars, SessionTypes, TaskTypes,
       WireTypes, Powered
  <2>2. TaskTypes'
    BY <1>6 DEF RunCloses, DebugInv, Suspend, TaskTypes
  <2>3. /\ WireTypes' /\ OneReader' /\ ClosedIsQuiet' /\ Synced'
        /\ BreakpointsAgree' /\ AnswersTell'
    BY <1>6, RunClosesEffect
  <2>4. TasksOK'
    BY <1>6 DEF RunCloses, DebugInv, Suspend, TasksOK
  <2>5. ClientIsCurrent'
    BY <1>6, DebugAssumption DEF RunCloses, Close, DebugInv, Suspend, Return,
       sessionVars, taskVars, wireVars, workerVars, ClientIsCurrent, TaskTypes
  <2>6. OffIsQuiet'
    BY <1>6 DEF RunCloses, Close, LeftToRead, DebugInv, Suspend, OffIsQuiet, LockFree
  <2>7. QuotaKept'
    <3>1. Reserved' \subseteq Reserved
      BY <1>6 DEF RunCloses, Suspend, Reserved, Adding
    <3> QED
      BY <3>1, ReservedShrinks
  <2> QED
    BY <2>1, <2>2, <2>3, <2>4, <2>5, <2>6, <2>7 DEF DebugInv
<1>7. CASE RunEnds(r)
  <2>1. /\ WireTypes' /\ ClosedIsQuiet'
    BY <1>7 DEF RunEnds, DebugInv, wireVars, workerVars, WireTypes, ClosedIsQuiet
  <2>2. SessionTypes'
    BY <1>7 DEF RunEnds, DebugInv, workerVars, SessionTypes
  <2>3. TaskTypes'
    BY <1>7 DEF RunEnds, DebugInv, Return, TaskTypes
  <2>4. TasksOK'
    BY <1>7, DebugAssumption DEF RunEnds, DebugInv, Return, TasksOK, TaskTypes
  <2>5. OneReader'
    <3>1. NoNewReader
      BY <1>7 DEF RunEnds, Return, NoNewReader
    <3> QED
      BY <3>1, OneReaderKept
  <2>6. ClientIsCurrent'
    BY <1>7 DEF RunEnds, DebugInv, Return, wireVars, ClientIsCurrent
  <2>7. OffIsQuiet'
    BY <1>7 DEF RunEnds, DebugInv, Return, wireVars, workerVars, OffIsQuiet, LockFree
  <2>8. Synced'
    <3>1. ReadersStay /\ UNCHANGED <<conn, open, todo, replies, resumed, doubt, late>>
      BY <1>7, DebugAssumption DEF RunEnds, Return, wireVars, workerVars, ReadersStay
    <3> QED
      BY <3>1, MatchedKept
  <2>9. BreakpointsAgree'
    <3>1. /\ RequestsStay /\ (vm' # "none" => vm # "none")
          /\ UNCHANGED <<debug_breakpoints, hardware, doubt>>
      BY <1>7 DEF RunEnds, Return, workerVars, RequestsStay
    <3> QED
      BY <3>1, AgreeKept
  <2>10. AnswersTell'
    <3>1. /\ RequestsStay /\ (vm' # "none" => vm # "none") /\ todo' \in {todo, <<>>}
          /\ UNCHANGED <<debug_breakpoints, hardware, doubt, conn, replies>>
      BY <1>7, DebugAssumption DEF RunEnds, Return, wireVars, workerVars, RequestsStay
    <3> QED
      BY <3>1, TellKept
  <2>11. QuotaKept'
    <3>1. Reserved' \subseteq Reserved
      BY <1>7 DEF RunEnds, Return, Reserved, Adding
    <3> QED
      BY <3>1, ReservedShrinks
  <2> QED
    BY <2>1, <2>2, <2>3, <2>4, <2>5, <2>6, <2>7, <2>8, <2>9, <2>10, <2>11 DEF DebugInv
<1> QED
  BY <1>1, <1>2, <1>3, <1>4, <1>5, <1>6, <1>7 DEF RunStep

\* ... of the power cycle ...
LEMMA PowerInv ==
    ASSUME DebugInv, PowerOff \/ PoweredOff \/ PowerOn \/ Booted
    PROVE  DebugInv'
<1>1. CASE PowerOff
  <2>1. SessionTypes'
    BY <1>1, DebugAssumption DEF PowerOff, Abandon, Close, DebugInv, Suspend, Return,
       sessionVars, taskVars, wireVars, workerVars, SessionTypes, TaskTypes,
       WireTypes, Powered
  <2>2. TaskTypes'
    BY <1>1 DEF PowerOff, Abandon, DebugInv, TaskTypes
  <2>3. /\ WireTypes' /\ OneReader' /\ ClosedIsQuiet' /\ Synced'
        /\ BreakpointsAgree' /\ AnswersTell' /\ QuotaKept'
    BY <1>1, PowerOffEffect
  <2>4. TasksOK'
    BY <1>1, DebugAssumption DEF PowerOff, Abandon, DebugInv, TasksOK, Tasks
  <2>5. ClientIsCurrent'
    BY <1>1, DebugAssumption DEF PowerOff, Abandon, Close, DebugInv, Suspend, Return,
       sessionVars, taskVars, wireVars, workerVars, ClientIsCurrent, TaskTypes
  <2>6. OffIsQuiet'
    BY <1>1 DEF PowerOff, OffIsQuiet, Powered
  <2> QED
    BY <2>1, <2>2, <2>3, <2>4, <2>5, <2>6 DEF DebugInv
<1>2. CASE PoweredOff
  <2>1. /\ TaskTypes' /\ TasksOK' /\ OneReader' /\ QuotaKept'
    BY <1>2 DEF PoweredOff, Dead, RepliesRead, DebugInv, sessionVars, taskVars,
       TaskTypes, TasksOK, OneReader, QuotaKept, Reserved, Adding
  <2>2. SessionTypes'
    BY <1>2, DebugAssumption DEF PoweredOff, Dead, RepliesRead, DebugInv, Suspend,
       Return, sessionVars, taskVars, wireVars, workerVars, SessionTypes, TaskTypes,
       WireTypes, Powered
  <2>3. /\ WireTypes' /\ ClosedIsQuiet' /\ OffIsQuiet' /\ Synced'
        /\ BreakpointsAgree' /\ AnswersTell'
    BY <1>2, PoweredOffEffect
  <2>4. ClientIsCurrent'
    BY <1>2 DEF PoweredOff, Dead, ClientIsCurrent
  <2> QED
    BY <2>1, <2>2, <2>3, <2>4 DEF DebugInv
<1>3. CASE PowerOn
  <2>1. /\ TaskTypes' /\ WireTypes' /\ TasksOK' /\ OneReader'
        /\ ClosedIsQuiet' /\ ClientIsCurrent'
    BY <1>3 DEF PowerOn, DebugInv, sessionVars, taskVars, wireVars, workerVars,
       TaskTypes, WireTypes, TasksOK, OneReader, ClosedIsQuiet, ClientIsCurrent
  <2>2. SessionTypes'
    BY <1>3 DEF PowerOn, DebugInv, SessionTypes
  <2>3. OffIsQuiet'
    BY <1>3 DEF PowerOn, OffIsQuiet
  <2>4. /\ Synced' /\ BreakpointsAgree' /\ AnswersTell'
    BY <1>3, PowerOnEffect
  <2>5. QuotaKept'
    <3>1. Reserved' \subseteq Reserved
      BY <1>3 DEF PowerOn, taskVars, Reserved, Adding
    <3> QED
      BY <3>1, ReservedShrinks
  <2> QED
    BY <2>1, <2>2, <2>3, <2>4, <2>5 DEF DebugInv
<1>4. CASE Booted
  <2>1. /\ TaskTypes' /\ TasksOK' /\ OneReader' /\ QuotaKept'
    BY <1>4, DebugAssumption DEF Booted, Dead, DebugInv, sessionVars, taskVars,
       TaskTypes, TasksOK, OneReader, QuotaKept, Reserved, Adding
  <2>2. SessionTypes'
    BY <1>4, DebugAssumption DEF Booted, Dead, DebugInv, Suspend, Return, sessionVars,
       taskVars, wireVars, workerVars, SessionTypes, TaskTypes, WireTypes, Powered
  <2>3. /\ WireTypes' /\ ClosedIsQuiet' /\ Synced' /\ BreakpointsAgree'
        /\ AnswersTell'
    BY <1>4, BootedEffect
  <2>4. ClientIsCurrent'
    BY <1>4, DebugAssumption DEF Booted, Dead, DebugInv, Suspend, Return, sessionVars,
       taskVars, wireVars, workerVars, ClientIsCurrent, TaskTypes
  <2>5. OffIsQuiet'
    BY <1>4 DEF Booted, OffIsQuiet
  <2> QED
    BY <2>1, <2>2, <2>3, <2>4, <2>5 DEF DebugInv
<1> QED
  BY <1>1, <1>2, <1>3, <1>4

\* ... and of the worker.
LEMMA StubInv ==
    ASSUME DebugInv, StubStep \/ Hit
    PROVE  DebugInv'
<1>1. CASE StubStep
  <2>1. /\ TaskTypes' /\ TasksOK' /\ OneReader' /\ ClientIsCurrent'
        /\ QuotaKept'
    <3>1. UNCHANGED <<gdb_client, debug_breakpoints, pc, op, held, conn, open>>
      BY <1>1, StubEffect
    <3> QED
      BY <3>1 DEF DebugInv, TaskTypes, TasksOK, OneReader, ClientIsCurrent, QuotaKept,
         Reserved, Adding
  <2>2. /\ SessionTypes' /\ WireTypes' /\ ClosedIsQuiet' /\ Synced'
        /\ BreakpointsAgree' /\ AnswersTell'
    BY <1>1, StubEffect
  <2>3. OffIsQuiet'
    BY <1>1, DebugAssumption DEF StubStep, DebugInv, sessionVars, OffIsQuiet
  <2> QED
    BY <2>1, <2>2, <2>3 DEF DebugInv
<1>2. CASE Hit
  <2>1. /\ TaskTypes' /\ TasksOK' /\ OneReader' /\ ClientIsCurrent'
        /\ QuotaKept'
    BY <1>2 DEF Hit, Halt, DebugInv, Suspend, Return, sessionVars, taskVars, wireVars,
       workerVars, TaskTypes, TasksOK, OneReader, ClientIsCurrent, QuotaKept,
       Reserved, Adding
  <2>2. SessionTypes'
    BY <1>2, DebugAssumption DEF Hit, Halt, DebugInv, Suspend, Return, sessionVars,
       taskVars, wireVars, workerVars, SessionTypes, TaskTypes, WireTypes, Powered
  <2>3. /\ WireTypes' /\ ClosedIsQuiet' /\ Synced' /\ AnswersTell'
    BY <1>2, HitEffect
  <2>4. OffIsQuiet'
    BY <1>2, DebugAssumption DEF Hit, DebugInv, sessionVars, OffIsQuiet
  <2>5. BreakpointsAgree'
    <3>1. /\ RequestsStay /\ (vm' # "none" => vm # "none")
          /\ UNCHANGED <<debug_breakpoints, hardware, doubt>>
      BY <1>2 DEF Hit, Halt, sessionVars, taskVars, RequestsStay
    <3> QED
      BY <3>1, AgreeKept
  <2> QED
    BY <2>1, <2>2, <2>3, <2>4, <2>5 DEF DebugInv
<1> QED
  BY <1>1, <1>2

LEMMA DebugInit == Init => DebugInv
<1> SUFFICES ASSUME Init PROVE DebugInv
  OBVIOUS
<1>1. SessionTypes /\ TaskTypes /\ TasksOK
  BY DEF Init, SessionTypes, Powered, TaskTypes, TasksOK, Tasks
<1>2. WireTypes
  <2>1. todo \in Seq(DebugOps \cup {Continue}) /\ replies \in Seq(DebugOps \cup {Continue, Refusal})
    BY DEF Init
  <2>2. conn \in Clients \cup {None} /\ open \in BOOLEAN
    BY DEF Init
  <2> QED
    BY <2>1, <2>2 DEF WireTypes
<1>3. OneReader /\ ClosedIsQuiet /\ ClientIsCurrent /\ OffIsQuiet
  BY DEF Init, OneReader, ClosedIsQuiet, ClientIsCurrent, OffIsQuiet
<1>4. Synced
  BY DEF Init, Synced, Matched
<1>5. BreakpointsAgree /\ AnswersTell
  BY DEF Init, BreakpointsAgree, AnswersTell, Tasks
<1>6. QuotaKept
  <2>1. Reserved = {}
    BY DEF Init, Reserved, Adding, Tasks
  <2>2. Cardinality(Requests) \in Nat
    BY FS_CardinalityType, DebugAssumption
  <2> QED
    BY <2>1, <2>2, FS_EmptySet, DebugAssumption DEF QuotaKept
<1> QED
  BY <1>1, <1>2, <1>3, <1>4, <1>5, <1>6 DEF DebugInv

LEMMA DebugStep == DebugInv /\ [Next]_vars => DebugInv'
<1> SUFFICES ASSUME DebugInv, [Next]_vars PROVE DebugInv'
  OBVIOUS
<1>1. CASE UNCHANGED vars
  <2>1. UNCHANGED <<sessionVars, taskVars, wireVars, power, workerVars, doubt, late>>
    BY <1>1 DEF vars
  <2>2. SessionTypes' /\ TaskTypes' /\ WireTypes' /\ TasksOK'
    BY <2>1 DEF DebugInv, SessionTypes, TaskTypes, WireTypes, TasksOK, sessionVars, taskVars,
       wireVars, workerVars
  <2>3. OneReader' /\ ClosedIsQuiet' /\ ClientIsCurrent' /\ OffIsQuiet'
    BY <2>1 DEF DebugInv, OneReader, ClosedIsQuiet, ClientIsCurrent, OffIsQuiet, LockFree,
       sessionVars, taskVars, wireVars, workerVars
  <2>4. ReadersStay /\ RequestsStay
    BY <2>1 DEF ReadersStay, RequestsStay, taskVars
  <2>5. Synced' /\ BreakpointsAgree' /\ AnswersTell'
    BY <2>1, <2>4, MatchedKept, AgreeKept, TellKept DEF sessionVars, wireVars, workerVars
  <2>6. QuotaKept'
    BY <2>1 DEF DebugInv, QuotaKept, Reserved, Adding, sessionVars, taskVars
  <2> QED
    BY <2>2, <2>3, <2>5, <2>6 DEF DebugInv
<1> QED
  BY <1>1, LockStepInv, RequestInv, CommandInv, RunInv, PowerInv, StubInv
     DEF Next, RequestStep, RunStep, LockStep, PowerStep

(***************************************************************************)
(* The invariant of the debugger: what is under way on a connection        *)
(* belongs to the one command that awaits it, and what is being set is     *)
(* reserved against the quota (GdbRemoteClient.command,                    *)
(* debug_set_breakpoint).                                                  *)
(***************************************************************************)
THEOREM DebuggerInvariant == Spec => []DebugInv
  BY DebugInit, DebugStep, PTL DEF Spec

(***************************************************************************)
(* Every variable keeps its type: a coroutine that uses a connection has a *)
(* client, and a pause that awaits the guest's stop has a run task.        *)
(***************************************************************************)
THEOREM DebuggerTypes == Spec => []TypeOK
<1>1. DebugInv => TypeOK
  BY DEF DebugInv, TypeOK, SessionTypes, TaskTypes, WireTypes
<1> QED
  BY <1>1, DebuggerInvariant, PTL

(***************************************************************************)
(* A reply answers the request of the coroutine it reaches, over any       *)
(* number of coroutines, connections and power cycles, until a command is  *)
(* given up while its reply is to come (gdb.py: a timeout keeps the        *)
(* client), and again from the next connection on.                         *)
(***************************************************************************)
THEOREM AnswersAreMatched == Spec => []AnswersMatch
<1>1. DebugInv => AnswersMatch
  <2> SUFFICES ASSUME DebugInv, ~late, NEW t \in Tasks, Arrives(t)
               PROVE  Head(replies) \in {op[t], Refusal}
    BY DEF AnswersMatch
  <2>1. Matched
    BY DEF DebugInv, Synced
  <2>2. replies \in {<<op[t]>>, <<Refusal>>}
    BY <2>1 DEF Arrives, Matched, Unread, Answered, Lost, Owed
  <2> QED
    BY <2>2, OneElement
<1> QED
  BY <1>1, DebuggerInvariant, PTL

(***************************************************************************)
(* debug_breakpoints agrees with the worker on every address whose last    *)
(* request was answered, also when replies come late: only a time-out puts *)
(* an address in doubt, until the next power cycle.                        *)
(***************************************************************************)
THEOREM BreakpointsAreKnown == Spec => []BreakpointsAgree
<1>1. DebugInv => BreakpointsAgree
  BY DEF DebugInv
<1> QED
  BY <1>1, DebuggerInvariant, PTL

(***************************************************************************)
(* Overlapping requests exceed MAX_DEBUG_BREAKPOINTS by less than their    *)
(* number: a breakpoint that was checked against the quota and not yet set *)
(* is reserved by its request, and nothing else adds to what is reserved.  *)
(***************************************************************************)
THEOREM QuotaExcess == Spec => []QuotaExcessIsBounded
<1>1. DebugInv => QuotaExcessIsBounded
  <2> SUFFICES ASSUME DebugInv PROVE QuotaExcessIsBounded
    OBVIOUS
  <2>1. IsFiniteSet(Reserved) /\ debug_breakpoints \in SUBSET Reserved
    BY DEF DebugInv, QuotaKept, Reserved
  <2>2. /\ IsFiniteSet(debug_breakpoints)
        /\ Cardinality(debug_breakpoints) <= Cardinality(Reserved)
    BY <2>1, FS_Subset
  <2>3. /\ Cardinality(debug_breakpoints) \in Nat /\ Cardinality(Reserved) \in Nat
        /\ Cardinality(Requests) \in Nat
    BY <2>1, <2>2, FS_CardinalityType, DebugAssumption
  <2> QED
    BY <2>2, <2>3, DebugAssumption DEF DebugInv, QuotaKept, QuotaExcessIsBounded
<1> QED
  BY <1>1, DebuggerInvariant, PTL
=============================================================================
