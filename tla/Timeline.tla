------------------------------ MODULE Timeline ------------------------------
(***************************************************************************)
(* The browser's timeline (web/src/components/inspector/                   *)
(* TimelineInspector.tsx) following the event ring of Recording: a refresh *)
(* every second asks for pages after its cursor, up to MaxPages of them,   *)
(* while the session goes on recording and dropping events between two     *)
(* pages.  A request and its answer are separate steps, and may fail.      *)
(***************************************************************************)
EXTENDS Recording

CONSTANTS
    PageLimit,      \* the limit the browser asks for (500)
    MaxPages,       \* pages of one refresh (10)
    MaxShown        \* events kept on screen (200)

ASSUME TimelineAssumption ==
    /\ PageLimit \in Nat \ {0}
    /\ MaxPages \in Nat \ {0}
    /\ MaxShown \in Nat \ {0}

VARIABLES
    cursor, recentEvents,
    refreshing,     \* where the refresh is: "idle", "sent" or "answered"
    pageIndex,
    page            \* the answer that is on its way, if "answered"

timelineVars == <<cursor, recentEvents, refreshing, pageIndex, page>>
vars == <<recordingVars, timelineVars>>

NoPage == [events |-> <<>>, cursor_truncated |-> FALSE, next_after |-> 0]

Events == [sequence : Nat \ {0}, generation : Nat, type : {"event"}]

TypeOK ==
    /\ events \in Seq(Events)
    /\ next_event_sequence \in Nat \ {0}
    /\ events_dropped \in Nat
    /\ generation \in Nat
    /\ cursor \in Nat
    /\ recentEvents \in Seq(Events)
    /\ refreshing \in {"idle", "sent", "answered"}
    /\ pageIndex \in 0 .. MaxPages - 1
    /\ page \in [events : Seq(Events), cursor_truncated : BOOLEAN, next_after : Nat]

Init ==
    /\ RecordingInit
    /\ cursor = 0
    /\ recentEvents = <<>>
    /\ refreshing = "idle"
    /\ pageIndex = 0
    /\ page = NoPage

\* Any operation of the session records an event.
Record ==
    /\ RecordEvent("event")
    /\ UNCHANGED <<generation, timelineVars>>

\* The timer fires; a refresh that is under way is left alone.
Refresh ==
    /\ refreshing = "idle"
    /\ refreshing' = "sent"
    /\ pageIndex' = 0
    /\ UNCHANGED <<recordingVars, cursor, recentEvents, page>>

\* The service answers GET /events?after=cursor&limit=500.
Serve ==
    /\ refreshing = "sent"
    /\ refreshing' = "answered"
    /\ page' = ListEvents(cursor, PageLimit)
    /\ UNCHANGED <<recordingVars, cursor, recentEvents, pageIndex>>

\* Mutant: the finally clause forgets to end the refresh.
RequestFailsStuck ==
    /\ refreshing \in {"sent", "answered"}
    /\ refreshing' = "stuck"
    /\ page' = NoPage
    /\ UNCHANGED <<recordingVars, cursor, recentEvents, pageIndex>>

\* The request or its answer is lost; the next refresh starts over.
RequestFails ==
    /\ refreshing \in {"sent", "answered"}
    /\ refreshing' = "idle"
    /\ page' = NoPage
    /\ UNCHANGED <<recordingVars, cursor, recentEvents, pageIndex>>

\* slice(-MaxShown)
LastShown(s) == IF Len(s) <= MaxShown THEN s
                ELSE SubSeq(s, Len(s) - MaxShown + 1, Len(s))

\* Mutant: keeps the list although the page says that events were lost.
KeptEventsAlways == recentEvents

\* A truncated page does not continue the list on screen.
KeptEvents == IF page.cursor_truncated THEN <<>> ELSE recentEvents

\* Mutant: no limit on the pages of one refresh.
MorePagesUnbounded == Len(page.events) >= PageLimit

\* A full page is followed by the next one, in the same refresh.
MorePages == Len(page.events) >= PageLimit /\ pageIndex + 1 < MaxPages

Receive ==
    /\ refreshing = "answered"
    /\ cursor' = page.next_after
    /\ recentEvents' = LastShown(KeptEvents \o page.events)
    /\ refreshing' = IF MorePages THEN "sent" ELSE "idle"
    /\ pageIndex' = IF MorePages THEN pageIndex + 1 ELSE 0
    /\ page' = NoPage
    /\ UNCHANGED recordingVars

Next == Record \/ Refresh \/ Serve \/ RequestFails \/ Receive

Spec == Init /\ [][Next]_vars

\* The timer keeps firing, and the service is not out of reach for ever.
FairSpec == Spec /\ WF_vars(Refresh) /\ SF_vars(Serve) /\ SF_vars(Receive)

-----------------------------------------------------------------------------
(* What the browser shows has no hole and no repetition, whatever the ring *)
(* dropped between two pages: it is a run of consecutive events that ends  *)
(* at the cursor (TimelineInspector's refresh with list_events).           *)
ShownIsContiguous ==
    /\ \A i \in 1 .. Len(recentEvents) - 1 :
           recentEvents[i + 1].sequence = recentEvents[i].sequence + 1
    /\ recentEvents # <<>> => recentEvents[Len(recentEvents)].sequence = cursor
    /\ Len(recentEvents) <= MaxShown

(* A page says cursor_truncated exactly when the service no longer holds   *)
(* the event that follows the reader's cursor: no loss goes unreported and *)
(* no reader is told of a loss that did not happen (list_events).          *)
TruncationIsLoss ==
    refreshing = "answered" =>
        (page.cursor_truncated
            <=> page.events # <<>> /\ page.events[1].sequence > cursor + 1)

(* Every event that was recorded is passed by the reader's cursor some     *)
(* day, also when requests fail on the way (the refresh loop).             *)
TimelineCatchesUp ==
    \A n \in 1 .. MaxSequence : next_event_sequence > n ~> cursor >= n
=============================================================================
