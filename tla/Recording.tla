----------------------------- MODULE Recording -----------------------------
(***************************************************************************)
(* The bounded event timeline of a session (sessions.py, recording.py):    *)
(* the ring that every operation writes through _record_event, and the     *)
(* page that list_events cuts out of it after a client's cursor.  Both run *)
(* without suspending, so each is one atomic operator here.  TraceSampling *)
(* and Timeline extend this module with a writer and a reader.             *)
(***************************************************************************)
EXTENDS Naturals, Sequences, FiniteSets

CONSTANTS
    MaxRecordingEvents,     \* Settings.max_recording_events
    MaxEventPageSize,       \* Settings.max_event_page_size
    MaxSequence             \* bound: the last event the model records

ASSUME RecordingAssumption ==
    /\ MaxRecordingEvents \in Nat \ {0}
    /\ MaxEventPageSize \in Nat \ {0}
    /\ MaxSequence \in Nat

VARIABLES
    events,                 \* SessionRecord.events
    next_event_sequence,
    events_dropped,
    generation

recordingVars == <<events, next_event_sequence, events_dropped, generation>>

\* SessionEvent: what tells events apart is the sequence number; the type
\* stands for category, type, source and data.
SessionEvent(type) ==
    [sequence |-> next_event_sequence, generation |-> generation, type |-> type]

RecordingInit ==
    /\ events = <<>>
    /\ next_event_sequence = 1
    /\ events_dropped = 0
    /\ generation = 1

\* Mutant: the deque grows past the bound.
KeepAll == events

PopLeftWhenFull ==
    IF Len(events) >= MaxRecordingEvents THEN Tail(events) ELSE events

\* Mutant: drops the oldest event without counting it.
RecordUncounted(type) ==
    /\ next_event_sequence <= MaxSequence
    /\ events' = Append(PopLeftWhenFull, SessionEvent(type))
    /\ next_event_sequence' = next_event_sequence + 1
    /\ UNCHANGED events_dropped

\* _record_event, with the bound on the number of events in its guard.
RecordEvent(type) ==
    /\ next_event_sequence <= MaxSequence
    /\ events' = Append(PopLeftWhenFull, SessionEvent(type))
    /\ events_dropped' = events_dropped
                           + IF Len(events) >= MaxRecordingEvents THEN 1 ELSE 0
    /\ next_event_sequence' = next_event_sequence + 1

\* The positions of the retained events newer than the cursor ...
NewerThan(after) == {i \in DOMAIN events : events[i].sequence > after}

\* ... and the n-th of a set of positions, in their order.
Nth(S, n) == CHOOSE i \in S : Cardinality({j \in S : j < i}) = n - 1

BoundedLimit(limit) ==
    LET atLeastOne == IF limit < 1 THEN 1 ELSE limit
    IN  IF atLeastOne > MaxEventPageSize THEN MaxEventPageSize ELSE atLeastOne

PageLength(after, limit) ==
    LET newer == Cardinality(NewerThan(after))
    IN  IF newer < BoundedLimit(limit) THEN newer ELSE BoundedLimit(limit)

PageEvents(after, limit) ==
    [n \in 1 .. PageLength(after, limit) |-> events[Nth(NewerThan(after), n)]]

\* Mutant: off by one, so a single lost event is not reported.
CursorTruncatedLate(after) == events # <<>> /\ after + 1 < events[1].sequence - 1

CursorTruncated(after) == events # <<>> /\ after < events[1].sequence - 1

\* list_events
ListEvents(after, limit) ==
    LET page == PageEvents(after, limit)
    IN  [events           |-> page,
         cursor_truncated |-> CursorTruncated(after),
         next_after       |-> IF page = <<>> THEN after
                                             ELSE page[Len(page)].sequence]

-----------------------------------------------------------------------------
(* The ring holds the most recent events without a hole: numbers continue  *)
(* from one event to the next, the newest is the last one recorded, and    *)
(* the dropped count accounts for every event that is no longer held       *)
(* (_record_event; list_events and diagnostics report that count).         *)
RingIsContiguous ==
    /\ events_dropped + Len(events) + 1 = next_event_sequence
    /\ \A i \in DOMAIN events : events[i].sequence = events_dropped + i
    /\ Len(events) <= MaxRecordingEvents
=============================================================================
