------------------------ MODULE TraceSamplingProofs ------------------------
(***************************************************************************)
(* Proofs about TraceSampling, for every set of sources, all limits and    *)
(* any number of lines.                                                    *)
(***************************************************************************)
EXTENDS TraceSampling, FiniteSetTheorems, TLAPS

(***************************************************************************)
(* The two properties follow one line at a time: a line is new, it is      *)
(* admitted or not, and the flag trace_truncation_reported tells whether   *)
(* an admitted line was ever dropped.                                      *)
(***************************************************************************)
FlagIsTruncation ==
    trace_truncation_reported <=> Cardinality(Admitted) > MaxTraceEventsPerGeneration

TraceInv ==
    /\ TypeOK
    /\ IsFiniteSet(Lines)
    /\ EveryLineIsAccounted
    /\ SamplingIsDeterministic
    /\ FlagIsTruncation

\* What is admitted is finite and counted by a natural number.
LEMMA CountsAreNat ==
    ASSUME IsFiniteSet(Lines)
    PROVE  /\ IsFiniteSet(Admitted)
           /\ Cardinality(Lines) \in Nat
           /\ Cardinality(Admitted) \in Nat
<1>1. Admitted \in SUBSET Lines
  BY DEF Admitted
<1>2. IsFiniteSet(Admitted)
  BY <1>1, FS_Subset
<1> QED
  BY <1>2, FS_CardinalityType

\* No lines: the state in which a boot begins.
LEMMA NoLines ==
    ASSUME trace_event_counts = [s \in Sources |-> 0]
    PROVE  /\ Lines = {} /\ Admitted = {}
           /\ IsFiniteSet(Lines)
           /\ Cardinality(Lines) = 0 /\ Cardinality(Admitted) = 0
<1>1. Lines = {}
  BY DEF Lines
<1>2. Admitted = {}
  BY <1>1 DEF Admitted
<1> QED
  BY <1>1, <1>2, FS_EmptySet

LEMMA MarkersDiffer ==
    /\ \A s \in Sources : Sampled(s) \in Markers /\ Sampled(s) # Truncated
    /\ Truncated \in Markers
    /\ \A s, t \in Sources : Sampled(s) = Sampled(t) => s = t
  BY DEF Sampled, Truncated, Markers

LEMMA FreshInv ==
    ASSUME TraceInv, Fresh, events' \in Seq([sequence : Nat, generation : Nat, type : Types]),
           Len(events') <= MaxRecordingEvents,
           next_event_sequence' \in Nat, generation' \in Nat
    PROVE  TraceInv'
<1>1. trace_event_counts' = [s \in Sources |-> 0]
  BY DEF Fresh
<1>2. /\ Lines' = {} /\ Admitted' = {}
      /\ IsFiniteSet(Lines')
      /\ Cardinality(Lines') = 0 /\ Cardinality(Admitted') = 0
  <2>1. Lines' = {}
    BY <1>1 DEF Lines
  <2>2. Admitted' = {}
    BY <2>1 DEF Admitted
  <2> QED
    BY <2>1, <2>2, FS_EmptySet
<1>3. TypeOK'
  <2>1. 0 \in 0 .. MaxLines /\ 0 \in 0 .. MaxTraceEventsPerGeneration
    BY TraceAssumption
  <2> QED
    BY <2>1 DEF Fresh, TypeOK
<1>4. EveryLineIsAccounted'
  BY <1>1, <1>2, MarkersDiffer, TraceAssumption DEF Fresh, EveryLineIsAccounted
<1>5. SamplingIsDeterministic' /\ FlagIsTruncation'
  BY <1>2, TraceAssumption DEF Fresh, SamplingIsDeterministic, FlagIsTruncation
<1> QED
  BY <1>2, <1>3, <1>4, <1>5 DEF TraceInv

LEMMA TraceInit == Init => TraceInv
<1> SUFFICES ASSUME Init PROVE TraceInv
  OBVIOUS
<1>1. /\ IsFiniteSet(Lines)
      /\ Cardinality(Lines) = 0 /\ Cardinality(Admitted) = 0
  BY NoLines DEF Init
<1>2. TypeOK
  <2>1. /\ 0 \in 0 .. MaxLines /\ 0 \in 0 .. MaxTraceEventsPerGeneration
        /\ 0 <= MaxRecordingEvents
    BY TraceAssumption, RecordingAssumption
  <2>2. /\ events \in Seq([sequence : Nat, generation : Nat, type : Types])
        /\ Len(events) <= MaxRecordingEvents
    BY <2>1 DEF Init, RecordingInit
  <2>3. marks \in [Markers -> Nat] /\ next_event_sequence \in Nat /\ generation \in Nat
    BY DEF Init, RecordingInit
  <2> QED
    BY <2>1, <2>2, <2>3 DEF Init, TypeOK
<1>3. EveryLineIsAccounted
  BY <1>1, MarkersDiffer, TraceAssumption DEF Init, EveryLineIsAccounted
<1>4. SamplingIsDeterministic /\ FlagIsTruncation
  BY <1>1, TraceAssumption DEF Init, SamplingIsDeterministic, FlagIsTruncation
<1> QED
  BY <1>1, <1>2, <1>3, <1>4 DEF TraceInv

\* An event of a known type keeps the ring in its type and within its bound.
LEMMA RecordType ==
    ASSUME TypeOK, NEW type \in Types, RecordEvent(type)
    PROVE  /\ events' \in Seq([sequence : Nat, generation : Nat, type : Types])
           /\ Len(events') <= MaxRecordingEvents
           /\ next_event_sequence' \in Nat
<1> DEFINE E == [sequence : Nat, generation : Nat, type : Types]
<1>1. SessionEvent(type) \in E
  BY DEF SessionEvent, TypeOK
<1>2. events \in Seq(E) /\ Len(events) \in Nat /\ Len(events) <= MaxRecordingEvents
  BY DEF TypeOK
<1>3. PopLeftWhenFull \in Seq(E) /\ Len(PopLeftWhenFull) < MaxRecordingEvents
  <2> HIDE DEF E
  <2>1. Len(events) >= MaxRecordingEvents => events # <<>>
    BY <1>2, RecordingAssumption
  <2> QED
    BY <1>2, <2>1, RecordingAssumption DEF PopLeftWhenFull
<1>4. events' = Append(PopLeftWhenFull, SessionEvent(type))
  BY DEF RecordEvent
<1>5. events' \in Seq(E) /\ Len(events') <= MaxRecordingEvents
  <2> HIDE DEF E
  <2> QED
    BY <1>1, <1>3, <1>4, RecordingAssumption
<1>6. next_event_sequence' \in Nat
  BY DEF RecordEvent, TypeOK
<1> QED
  BY <1>5, <1>6

\* A line is a new element of Lines, and of Admitted if its source admits it.
LEMMA LineIsNew ==
    ASSUME TraceInv, NEW s \in Sources, ReadTraceLine(s)
    PROVE  /\ IsFiniteSet(Lines')
           /\ Cardinality(Lines') = Cardinality(Lines) + 1
           /\ Cardinality(Admitted') =
                 Cardinality(Admitted) + IF Count(s) <= Limits[s] THEN 1 ELSE 0
<1> DEFINE line == <<s, Count(s)>>
<1>1. /\ trace_event_counts \in [Sources -> Nat]
      /\ trace_event_counts' = [trace_event_counts EXCEPT ![s] = Count(s)]
      /\ Count(s) = trace_event_counts[s] + 1
  BY TraceAssumption DEF TraceInv, TypeOK, ReadTraceLine, Count
<1>2. ASSUME NEW u \in Sources, NEW n
      PROVE  /\ <<u, n>> \in Lines <=> n \in 1 .. trace_event_counts[u]
             /\ <<u, n>> \in Lines' <=> n \in 1 .. trace_event_counts'[u]
  BY DEF Lines
<1>3. line \notin Lines
  BY <1>1, <1>2
<1>4. Lines' = Lines \cup {line}
  <2>1. \A k \in Nat : 1 .. k + 1 = (1 .. k) \cup {k + 1}
    OBVIOUS
  <2>2. 1 .. trace_event_counts'[s] = (1 .. trace_event_counts[s]) \cup {Count(s)}
    BY <1>1, <2>1
  <2>3. \A u \in Sources : u # s => trace_event_counts'[u] = trace_event_counts[u]
    BY <1>1
  <2>4. ASSUME NEW x \in Lines \cup Lines'
        PROVE  \E u \in Sources : \E k : x = <<u, k>>
    BY DEF Lines
  <2>5. line \in Lines'
    BY <1>2, <2>2
  <2>6. Lines' \subseteq Lines \cup {line}
    BY <1>2, <2>2, <2>3, <2>4
  <2>7. Lines \subseteq Lines'
    BY <1>2, <2>2, <2>3, <2>4
  <2> QED
    BY <2>5, <2>6, <2>7
<1>5. /\ IsFiniteSet(Lines') /\ Cardinality(Lines') = Cardinality(Lines) + 1
  BY <1>3, <1>4, FS_AddElement DEF TraceInv
<1>6. CASE Count(s) <= Limits[s]
  <2>1. Admitted' = Admitted \cup {line} /\ line \notin Admitted
    BY <1>3, <1>4, <1>6 DEF Admitted
  <2>2. Cardinality(Admitted') = Cardinality(Admitted) + 1
    BY <2>1, CountsAreNat, FS_AddElement DEF TraceInv
  <2> QED
    BY <1>5, <1>6, <2>2
<1>7. CASE ~(Count(s) <= Limits[s])
  <2>1. Admitted' = Admitted
    BY <1>3, <1>4, <1>7 DEF Admitted
  <2> QED
    BY <1>5, <1>7, <2>1, CountsAreNat DEF TraceInv
<1> QED
  BY <1>6, <1>7

LEMMA LineInv ==
    ASSUME TraceInv, NEW s \in Sources, ReadTraceLine(s)
    PROVE  TraceInv'
<1> DEFINE a == Cardinality(Admitted)
           n == Cardinality(Lines)
<1>1. a \in Nat /\ n \in Nat
  BY CountsAreNat DEF TraceInv
<1>2. /\ IsFiniteSet(Lines')
      /\ Cardinality(Lines') = n + 1
      /\ Cardinality(Admitted') = a + IF Count(s) <= Limits[s] THEN 1 ELSE 0
  BY LineIsNew
<1> HIDE DEF a, n
<1>3. /\ trace_event_counts \in [Sources -> 0 .. MaxLines]
      /\ Count(s) = trace_event_counts[s] + 1 /\ Count(s) \in 0 .. MaxLines
      /\ trace_event_counts' = [trace_event_counts EXCEPT ![s] = Count(s)]
      /\ Limits[s] \in Nat /\ MaxTraceEventsPerGeneration \in Nat
      /\ generation' = generation
  BY TraceAssumption DEF TraceInv, TypeOK, ReadTraceLine, Count
<1>4. /\ trace_events_recorded \in Nat /\ trace_events_dropped \in Nat
      /\ marks \in [Markers -> Nat]
      /\ trace_events_recorded + trace_events_dropped = n
      /\ trace_events_recorded = IF a < MaxTraceEventsPerGeneration
                                 THEN a ELSE MaxTraceEventsPerGeneration
      /\ marks[Truncated] = IF a > MaxTraceEventsPerGeneration THEN 1 ELSE 0
      /\ \A u \in Sources :
            marks[Sampled(u)] = IF trace_event_counts[u] > Limits[u] THEN 1 ELSE 0
  BY <1>3 DEF TraceInv, TypeOK, EveryLineIsAccounted, SamplingIsDeterministic, a, n
<1>5. /\ trace_truncation_reported <=> a > MaxTraceEventsPerGeneration
      /\ trace_truncation_reported \in BOOLEAN
  BY DEF TraceInv, TypeOK, FlagIsTruncation, a
<1>6. TypeOK'
  <2>1. /\ events' \in Seq([sequence : Nat, generation : Nat, type : Types])
        /\ Len(events') <= MaxRecordingEvents
        /\ next_event_sequence' \in Nat
    <3>1. /\ Traced(s) \in Types /\ Sampled(s) \in Types /\ Truncated \in Types
      BY DEF Types, Markers
    <3> QED
      BY <3>1, RecordType DEF TraceInv, TypeOK, ReadTraceLine, OverLimit,
         OverGlobalLimit, WithinLimits, RecordMarker, RecordNothing
  <2>2. marks' \in [Markers -> Nat]
    BY <1>4, MarkersDiffer DEF ReadTraceLine, OverLimit, OverGlobalLimit, WithinLimits,
       RecordMarker, RecordNothing
  <2>3. /\ trace_event_counts' \in [Sources -> 0 .. MaxLines]
        /\ generation' \in Nat
    BY <1>3 DEF TraceInv, TypeOK
  <2>4. /\ trace_events_recorded' \in 0 .. MaxTraceEventsPerGeneration
        /\ trace_events_dropped' \in Nat
    BY <1>3, <1>4 DEF TraceInv, TypeOK, ReadTraceLine, OverLimit, OverGlobalLimit,
       WithinLimits
  <2>5. trace_truncation_reported' \in BOOLEAN
    BY <1>5 DEF ReadTraceLine, OverLimit, OverGlobalLimit, WithinLimits
  <2> QED
    BY <2>1, <2>2, <2>3, <2>4, <2>5 DEF TypeOK
<1>7. CASE OverLimit(s)
  <2>1. /\ ~(Count(s) <= Limits[s])
        /\ Cardinality(Admitted') = a
    BY <1>1, <1>2, <1>3, <1>7 DEF OverLimit
  <2>2. SamplingIsDeterministic' /\ FlagIsTruncation'
    <3>1. SamplingIsDeterministic'
      BY <1>4, <1>7, <2>1 DEF OverLimit, SamplingIsDeterministic
    <3>2. FlagIsTruncation'
      BY <1>5, <1>7, <2>1, Zenon DEF OverLimit, FlagIsTruncation
    <3> QED
      BY <3>1, <3>2
  <2>3. trace_events_recorded' + trace_events_dropped' = n + 1
    <3>1. /\ trace_events_dropped' = trace_events_dropped + 1
          /\ trace_events_recorded' = trace_events_recorded
      BY <1>7 DEF OverLimit
    <3>2. /\ trace_events_recorded \in Nat /\ trace_events_dropped \in Nat
          /\ trace_events_recorded + trace_events_dropped = n
      BY <1>4
    <3> QED
      BY <3>1, <3>2
  <2>4. marks'[Truncated] = marks[Truncated]
    BY <1>4, <1>7, MarkersDiffer DEF OverLimit, RecordMarker, RecordNothing
  <2>5. ASSUME NEW u \in Sources
        PROVE  marks'[Sampled(u)] = IF trace_event_counts'[u] > Limits[u] THEN 1 ELSE 0
    <3>1. CASE u # s
      BY <1>3, <1>4, <1>7, <3>1, MarkersDiffer DEF OverLimit, RecordMarker, RecordNothing
    <3>2. CASE u = s
      BY <1>3, <1>4, <1>7, <2>1, <3>2, MarkersDiffer
      DEF OverLimit, RecordMarker, RecordNothing
    <3> QED
      BY <3>1, <3>2
  <2> QED
    BY <1>2, <1>4, <1>6, <2>1, <2>2, <2>3, <2>4, <2>5 DEF TraceInv, EveryLineIsAccounted
<1>8. CASE ~OverLimit(s)
  <2>1. /\ Count(s) <= Limits[s]
        /\ OverGlobalLimit(s) \/ WithinLimits(s)
        /\ Cardinality(Admitted') = a + 1
    BY <1>1, <1>2, <1>3, <1>8 DEF ReadTraceLine, OverGlobalLimit, WithinLimits
  <2>2. SamplingIsDeterministic' /\ FlagIsTruncation'
    <3>1. CASE OverGlobalLimit(s)
      BY <1>1, <1>3, <1>4, <2>1, <3>1
      DEF OverGlobalLimit, SamplingIsDeterministic, FlagIsTruncation
    <3>2. CASE WithinLimits(s)
      <4>1. a + 1 <= MaxTraceEventsPerGeneration /\ trace_events_recorded' = a + 1
        BY <1>1, <1>3, <1>4, <3>2 DEF WithinLimits
      <4>2. /\ ~(a > MaxTraceEventsPerGeneration)
            /\ ~(a + 1 > MaxTraceEventsPerGeneration)
        BY <1>1, <1>3, <4>1
      <4>3. ~trace_truncation_reported'
        BY <1>5, <3>2, <4>2, Zenon DEF WithinLimits
      <4> QED
        BY <1>1, <1>3, <2>1, <4>1, <4>2, <4>3
        DEF SamplingIsDeterministic, FlagIsTruncation
    <3> QED
      BY <2>1, <3>1, <3>2
  <2>3. trace_events_recorded' + trace_events_dropped' = n + 1
    BY <1>1, <1>4, <2>1 DEF OverGlobalLimit, WithinLimits
  <2>4. marks'[Truncated] = IF a + 1 > MaxTraceEventsPerGeneration THEN 1 ELSE 0
    <3>1. CASE WithinLimits(s)
      BY <1>1, <1>3, <1>4, <3>1 DEF WithinLimits
    <3>2. CASE OverGlobalLimit(s)
      <4>1. a >= MaxTraceEventsPerGeneration
        BY <1>1, <1>3, <1>4, <3>2 DEF OverGlobalLimit
      <4>2. CASE trace_truncation_reported
        <5>1. a > MaxTraceEventsPerGeneration
          BY <1>5, <4>2
        <5>2. marks' = marks
          BY <3>2, <4>2 DEF OverGlobalLimit, RecordNothing
        <5> QED
          BY <1>1, <1>3, <1>4, <5>1, <5>2
      <4>3. CASE ~trace_truncation_reported
        <5>1. ~(a > MaxTraceEventsPerGeneration)
          BY <1>5, <4>3
        <5>2. marks' = [marks EXCEPT ![Truncated] = @ + 1]
          BY <3>2, <4>3 DEF OverGlobalLimit, RecordMarker
        <5> QED
          BY <1>1, <1>3, <1>4, <4>1, <5>1, <5>2, MarkersDiffer
      <4> QED
        BY <4>2, <4>3
    <3> QED
      BY <2>1, <3>1, <3>2
  <2>5. ASSUME NEW u \in Sources
        PROVE  marks'[Sampled(u)] = IF trace_event_counts'[u] > Limits[u] THEN 1 ELSE 0
    <3>1. marks'[Sampled(u)] = marks[Sampled(u)]
      BY <1>4, <2>1, MarkersDiffer
      DEF OverGlobalLimit, WithinLimits, RecordMarker, RecordNothing
    <3>2. trace_event_counts'[u] > Limits[u] <=> trace_event_counts[u] > Limits[u]
      <4>1. Limits[u] \in Nat /\ trace_event_counts[u] \in Nat
        BY <1>3, TraceAssumption
      <4>2. CASE u = s
        BY <1>3, <2>1, <4>1, <4>2
      <4>3. CASE u # s
        BY <1>3, <4>3
      <4> QED
        BY <4>2, <4>3
    <3> QED
      BY <1>4, <3>1, <3>2
  <2> QED
    BY <1>2, <1>6, <2>1, <2>2, <2>3, <2>4, <2>5 DEF TraceInv, EveryLineIsAccounted
<1> QED
  BY <1>7, <1>8

LEMMA TraceStep == TraceInv /\ [Next]_vars => TraceInv'
<1> SUFFICES ASSUME TraceInv, [Next]_vars PROVE TraceInv'
  OBVIOUS
<1>1. ASSUME NEW s \in Sources, ReadTraceLine(s) PROVE TraceInv'
  BY <1>1, LineInv
<1>2. ASSUME UNCHANGED traceVars, TypeOK' PROVE TraceInv'
  BY <1>2 DEF TraceInv, EveryLineIsAccounted, SamplingIsDeterministic, FlagIsTruncation,
     Lines, Admitted, traceVars
<1>3. CASE RecordOther
  <2>1. Other \in Types
    BY DEF Types
  <2>2. TypeOK'
    BY <1>3, <2>1, RecordType DEF RecordOther, TraceInv, TypeOK, traceVars
  <2> QED
    BY <1>2, <1>3, <2>2 DEF RecordOther
<1>4. CASE PowerOn
  BY <1>4, FreshInv DEF PowerOn, recordingVars, TraceInv, TypeOK
<1>5. CASE Replay
  BY <1>5, FreshInv DEF Replay, TraceInv, TypeOK
<1>6. CASE UNCHANGED vars
  <2>1. TypeOK'
    BY <1>6 DEF vars, recordingVars, traceVars, TraceInv, TypeOK
  <2> QED
    BY <1>2, <1>6, <2>1 DEF vars
<1> QED
  BY <1>1, <1>3, <1>4, <1>5, <1>6 DEF Next

(* For every set of sources and all limits: the counters and the ring stay *)
(* in their types, what a boot records within the global limit and the     *)
(* ring within its bound (_read_worker_trace, _record_event).              *)
THEOREM TraceTypes == Spec => []TypeOK
<1>1. TraceInv => TypeOK
  BY DEF TraceInv
<1> QED
  BY <1>1, TraceInit, TraceStep, PTL DEF Spec

(* For every set of sources and all limits: no recognized line goes        *)
(* unaccounted, and every limit that was passed left exactly one marker    *)
(* (_read_worker_trace).                                                   *)
THEOREM LinesAreAccounted == Spec => []EveryLineIsAccounted
<1>1. TraceInv => EveryLineIsAccounted
  BY DEF TraceInv
<1> QED
  BY <1>1, TraceInit, TraceStep, PTL DEF Spec

(* For every set of sources and all limits: how many lines are recorded    *)
(* is a function of how many came from each source and not of their order  *)
(* (_read_worker_trace).                                                   *)
THEOREM SamplingByCounts == Spec => []SamplingIsDeterministic
<1>1. TraceInv => SamplingIsDeterministic
  BY DEF TraceInv
<1> QED
  BY <1>1, TraceInit, TraceStep, PTL DEF Spec
=============================================================================
