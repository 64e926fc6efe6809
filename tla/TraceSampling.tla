--------------------------- MODULE TraceSampling ---------------------------
(***************************************************************************)
(* _read_worker_trace (sessions.py, tracing.py): the worker's stderr is a  *)
(* stream of peripheral trace lines that competes with everything else for *)
(* the event ring of Recording.  A source is sampled up to its own limit,  *)
(* a boot of the worker up to a global one, and each limit leaves one      *)
(* marker when it is first passed.  The handling of a line does not        *)
(* suspend.  A new worker is only started once the reader of the old one   *)
(* has ended, so power_on and replay reset the counters between lines.     *)
(***************************************************************************)
EXTENDS Recording

CONSTANTS
    Limits,                     \* TRACE_EVENT_LIMITS: source |-> limit
    MaxTraceEventsPerGeneration,
    MaxLines,                   \* bound: lines of one source in one boot
    MaxGeneration               \* bound: generations of the session

Sources == DOMAIN Limits

ASSUME TraceAssumption ==
    /\ \A s \in Sources : Limits[s] \in Nat
    /\ MaxTraceEventsPerGeneration \in Nat
    /\ MaxLines \in Nat

VARIABLES
    trace_event_counts,         \* absent from the dictionary: 0
    trace_events_recorded, trace_events_dropped,
    trace_truncation_reported,
    marks                       \* history: markers recorded in this boot

traceVars == <<trace_event_counts, trace_events_recorded, trace_events_dropped,
               trace_truncation_reported, marks>>
vars == <<recordingVars, traceVars>>

\* Event types, as pairs of a kind and the source they name.
Truncated  == <<"truncated", "any">>
Sampled(s) == <<"sampled", s>>
Traced(s)  == <<"traced", s>>
Other      == <<"other", "any">>
Markers == {Truncated} \cup {Sampled(s) : s \in Sources}
Types == {Traced(s) : s \in Sources} \cup Markers \cup {Other}

TypeOK ==
    /\ events \in Seq([sequence : Nat, generation : Nat, type : Types])
    /\ Len(events) <= MaxRecordingEvents
    /\ next_event_sequence \in Nat
    /\ generation \in Nat
    /\ trace_event_counts \in [Sources -> 0 .. MaxLines]
    /\ trace_events_recorded \in 0 .. MaxTraceEventsPerGeneration
    /\ trace_events_dropped \in Nat
    /\ trace_truncation_reported \in BOOLEAN
    /\ marks \in [Markers -> Nat]

Fresh ==
    /\ trace_event_counts' = [s \in Sources |-> 0]
    /\ trace_events_recorded' = 0
    /\ trace_events_dropped' = 0
    /\ trace_truncation_reported' = FALSE
    /\ marks' = [m \in Markers |-> 0]

Init ==
    /\ RecordingInit
    /\ trace_event_counts = [s \in Sources |-> 0]
    /\ trace_events_recorded = 0
    /\ trace_events_dropped = 0
    /\ trace_truncation_reported = FALSE
    /\ marks = [m \in Markers |-> 0]

RecordMarker(m) == RecordEvent(m) /\ marks' = [marks EXCEPT ![m] = @ + 1]
RecordNothing   == UNCHANGED <<events, events_dropped, next_event_sequence, marks>>

Count(s) == trace_event_counts[s] + 1

\* The source is past its own limit: a marker the first time, then nothing.
OverLimit(s) ==
    /\ Count(s) > Limits[s]
    /\ IF Count(s) = Limits[s] + 1 THEN RecordMarker(Sampled(s)) ELSE RecordNothing
    /\ trace_events_dropped' = trace_events_dropped + 1
    /\ UNCHANGED <<trace_events_recorded, trace_truncation_reported>>

\* Mutant: forgets to count the line that the global limit drops.
OverGlobalLimitUncounted(s) ==
    /\ Count(s) <= Limits[s]
    /\ trace_events_recorded >= MaxTraceEventsPerGeneration
    /\ IF trace_truncation_reported THEN RecordNothing ELSE RecordMarker(Truncated)
    /\ trace_truncation_reported' = TRUE
    /\ UNCHANGED <<trace_events_recorded, trace_events_dropped>>

\* The source may still record, the boot may not.
OverGlobalLimit(s) ==
    /\ Count(s) <= Limits[s]
    /\ trace_events_recorded >= MaxTraceEventsPerGeneration
    /\ IF trace_truncation_reported THEN RecordNothing ELSE RecordMarker(Truncated)
    /\ trace_truncation_reported' = TRUE
    /\ trace_events_dropped' = trace_events_dropped + 1
    /\ UNCHANGED trace_events_recorded

\* Mutant: does not spare the global bound from sources past their limit.
WithinLimitsOfBoot(s) ==
    /\ trace_events_recorded < MaxTraceEventsPerGeneration
    /\ RecordEvent(Traced(s))
    /\ trace_events_recorded' = trace_events_recorded + 1
    /\ UNCHANGED <<trace_events_dropped, trace_truncation_reported, marks>>

WithinLimits(s) ==
    /\ Count(s) <= Limits[s]
    /\ trace_events_recorded < MaxTraceEventsPerGeneration
    /\ RecordEvent(Traced(s))
    /\ trace_events_recorded' = trace_events_recorded + 1
    /\ UNCHANGED <<trace_events_dropped, trace_truncation_reported, marks>>

\* One recognized line of source s; other lines change nothing.
ReadTraceLine(s) ==
    /\ trace_event_counts[s] < MaxLines
    /\ trace_event_counts' = [trace_event_counts EXCEPT ![s] = Count(s)]
    /\ OverLimit(s) \/ OverGlobalLimit(s) \/ WithinLimits(s)
    /\ UNCHANGED generation

\* Any other operation of the session.
RecordOther == RecordEvent(Other) /\ UNCHANGED <<generation, traceVars>>

\* _power_on_worker resets the counters, _run_replay also the generation.
PowerOn == Fresh /\ UNCHANGED recordingVars

Replay ==
    /\ generation < MaxGeneration
    /\ generation' = generation + 1
    /\ Fresh
    /\ UNCHANGED <<events, next_event_sequence, events_dropped>>

Next == \/ \E s \in Sources : ReadTraceLine(s)
        \/ RecordOther
        \/ PowerOn
        \/ Replay

Spec == Init /\ [][Next]_vars

-----------------------------------------------------------------------------
\* The recognized lines of this boot, each as its source and its number among
\* the lines of that source; and those that the source's own limit admits.
Lines == UNION {{s} \X (1 .. trace_event_counts[s]) : s \in Sources}
Admitted == {line \in Lines : line[2] <= Limits[line[1]]}

(* Every recognized line of the boot is accounted for: it was recorded or  *)
(* it is in the dropped count (_read_worker_trace, public_dict); and each  *)
(* limit that was passed left exactly one marker, a limit that was not     *)
(* passed none (the two markers of _read_worker_trace).                    *)
EveryLineIsAccounted ==
    /\ trace_events_recorded + trace_events_dropped = Cardinality(Lines)
    /\ \A s \in Sources :
           marks[Sampled(s)] = IF trace_event_counts[s] > Limits[s] THEN 1 ELSE 0
    /\ marks[Truncated] =
           IF Cardinality(Admitted) > MaxTraceEventsPerGeneration THEN 1 ELSE 0

(* What is recorded depends on the limits alone and not on the order of    *)
(* the lines: each source up to its limit, all together up to the global   *)
(* one.  In particular a noisy source cannot use up the share of another   *)
(* when the limits of the sources add up to no more than the global limit  *)
(* (the reason for TRACE_EVENT_LIMITS).                                    *)
SamplingIsDeterministic ==
    trace_events_recorded =
        IF Cardinality(Admitted) < MaxTraceEventsPerGeneration
        THEN Cardinality(Admitted) ELSE MaxTraceEventsPerGeneration
=============================================================================
