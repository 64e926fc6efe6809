--------------------------- MODULE TimelineProofs ---------------------------
(***************************************************************************)
(* Proofs about Recording and Timeline, for every size of the ring, of a   *)
(* page and of the screen.                                                 *)
(***************************************************************************)
EXTENDS Timeline, FiniteSetTheorems, SequenceTheorems, TLAPS

\* The position before the first retained event that is newer than `after'.
Seen(after) == IF after < events_dropped THEN 0 ELSE after - events_dropped

(* The retained events newer than a cursor are a suffix of the ring        *)
(* (the comprehension in list_events).                                     *)
LEMMA NewerIsSuffix ==
    ASSUME TypeOK, RingIsContiguous, NEW after \in Nat
    PROVE  /\ Seen(after) \in Nat
           /\ NewerThan(after) = Seen(after) + 1 .. Len(events)
  <1>1. Len(events) \in Nat /\ DOMAIN events = 1 .. Len(events)
    BY DEF TypeOK
  <1>2. events_dropped \in Nat /\ Seen(after) \in Nat
    BY DEF TypeOK, Seen
  <1>3. \A i \in 1 .. Len(events) : events[i].sequence = events_dropped + i
    BY <1>1 DEF RingIsContiguous
  <1>4. \A i \in 1 .. Len(events) :
            events_dropped + i > after <=> i >= Seen(after) + 1
    BY <1>2 DEF Seen
  <1>5. NewerThan(after) = {i \in 1 .. Len(events) : i >= Seen(after) + 1}
    BY <1>1, <1>3, <1>4 DEF NewerThan
  <1> QED
    BY <1>1, <1>2, <1>5

(* In a set of consecutive positions the n-th one is found by counting.    *)
LEMMA NthOfInterval ==
    ASSUME NEW a \in Nat, NEW b \in Nat, NEW n \in 1 .. b - a
    PROVE  Nth(a + 1 .. b, n) = a + n
  <1> DEFINE S == a + 1 .. b
             Before(i) == {j \in S : j < i}
  <1>1. \A i \in S : Before(i) = a + 1 .. i - 1
    OBVIOUS
  <1>2. \A i \in S : Cardinality(a + 1 .. i - 1) = i - 1 - a
    <2> TAKE i \in S
    <2>1. a + 1 \in Int /\ i - 1 \in Int
      OBVIOUS
    <2>2. Cardinality(a + 1 .. i - 1)
            = IF a + 1 > i - 1 THEN 0 ELSE (i - 1) - (a + 1) + 1
      BY <2>1, FS_Interval
    <2> QED
      BY <2>2
  <1>3. \A i \in S : Cardinality(Before(i)) = n - 1 <=> i = a + n
    <2> TAKE i \in S
    <2>1. Cardinality(Before(i)) = i - 1 - a
      BY <1>1, <1>2
    <2> HIDE DEF Before
    <2> QED
      BY <2>1
  <1>4. a + n \in S
    OBVIOUS
  <1>5. Nth(S, n) = CHOOSE i \in S : Cardinality(Before(i)) = n - 1
    BY DEF Nth
  <1> HIDE DEF S, Before
  <1>6. (CHOOSE i \in S : Cardinality(Before(i)) = n - 1) = a + n
    BY <1>3, <1>4
  <1> QED
    BY <1>5, <1>6 DEF S

(* list_events returns the events that follow the cursor, or the oldest    *)
(* retained ones, in order and without a hole.                             *)
LEMMA PageIsRun ==
    ASSUME TypeOK, RingIsContiguous, NEW after \in Nat, NEW limit \in Nat \ {0}
    PROVE  LET first == events_dropped + Seen(after)
               page_ == PageEvents(after, limit)
               size == PageLength(after, limit)
           IN  /\ size \in Nat
               /\ size <= Len(events)
               /\ size = 0 <=> Seen(after) >= Len(events)
               /\ Seen(after) < Len(events) => Seen(after) + size <= Len(events)
               /\ page_ \in Seq(Events)
               /\ Len(page_) = size
               /\ \A n \in 1 .. size : page_[n].sequence = first + n
  <1> DEFINE a == Seen(after)
             b == Len(events)
             size == PageLength(after, limit)
             page_ == PageEvents(after, limit)
  <1>1. a \in Nat /\ b \in Nat /\ NewerThan(after) = a + 1 .. b
    <2>1. b \in Nat
      BY DEF TypeOK
    <2> QED
      BY <2>1, NewerIsSuffix
  <1>2. Cardinality(NewerThan(after)) = IF a >= b THEN 0 ELSE b - a
    <2>1. a + 1 \in Int /\ b \in Int
      BY <1>1
    <2>2. Cardinality(a + 1 .. b) = IF a + 1 > b THEN 0 ELSE b - (a + 1) + 1
      BY <2>1, FS_Interval
    <2> HIDE DEF a, b
    <2> QED
      BY <1>1, <2>2
  <1>3. BoundedLimit(limit) \in Nat \ {0}
    BY RecordingAssumption DEF BoundedLimit
  <1>4. /\ size \in Nat
        /\ size <= IF a >= b THEN 0 ELSE b - a
        /\ size = 0 <=> a >= b
    <2> HIDE DEF a, b
    <2> QED
      BY <1>1, <1>2, <1>3 DEF PageLength
  <1>5. ASSUME NEW n \in 1 .. size
        PROVE  /\ a + n \in 1 .. b
               /\ page_[n] = events[a + n]
    <2>1. n \in 1 .. b - a /\ a + n \in 1 .. b
      <3> HIDE DEF a, b, size
      <3> QED
        BY <1>1, <1>4
    <2>2. Nth(NewerThan(after), n) = a + n
      <3> HIDE DEF a, b
      <3> QED
        BY <1>1, <2>1, NthOfInterval
    <2>3. page_[n] = events[Nth(NewerThan(after), n)]
      BY DEF PageEvents
    <2> QED
      BY <2>1, <2>2, <2>3
  <1>6. \A n \in 1 .. size : page_[n] \in Events
    <2> TAKE n \in 1 .. size
    <2> HIDE DEF a, page_, size
    <2> QED
      BY <1>5 DEF TypeOK
  <1>7. page_ \in Seq(Events) /\ Len(page_) = size
    <2>1. page_ = [n \in 1 .. size |-> page_[n]]
      BY DEF PageEvents
    <2> HIDE DEF a, page_, size
    <2> QED
      BY <1>4, <1>6, <2>1
  <1>8. \A n \in 1 .. size : page_[n].sequence = events_dropped + a + n
    <2> TAKE n \in 1 .. size
    <2>1. events[a + n].sequence = events_dropped + (a + n)
      <3>1. a + n \in DOMAIN events
        BY <1>5 DEF TypeOK
      <3> QED
        BY <3>1 DEF RingIsContiguous
    <2> HIDE DEF a, page_, size
    <2> QED
      BY <1>1, <1>5, <2>1 DEF TypeOK
  <1> HIDE DEF a, b, page_, size
  <1>9. (a >= b => size = 0) /\ size <= b /\ (a < b => a + size <= b)
    BY <1>1, <1>4
  <1> QED
    BY <1>4, <1>7, <1>8, <1>9 DEF a, b, page_, size
-----------------------------------------------------------------------------
(* The strengthening that makes the two properties inductive: an answer    *)
(* on its way continues the cursor it was asked with, or jumps ahead of it *)
(* and says so, and nobody is ahead of the recording.                      *)

Consecutive(s) ==
    \A i \in 1 .. Len(s) - 1 : s[i + 1].sequence = s[i].sequence + 1

AnswerFollowsCursor ==
    /\ cursor < next_event_sequence
    /\ refreshing = "answered" =>
         /\ page.next_after < next_event_sequence
         /\ Consecutive(page.events)
         /\ page.events # <<>> =>
              /\ page.events[Len(page.events)].sequence = page.next_after
              /\ page.events[1].sequence > cursor
         /\ page.events = <<>> => page.next_after = cursor

TimelineInv ==
    /\ TypeOK
    /\ RingIsContiguous
    /\ ShownIsContiguous
    /\ TruncationIsLoss
    /\ AnswerFollowsCursor

LEMMA NoPageType ==
    NoPage \in [events : Seq(Events), cursor_truncated : BOOLEAN, next_after : Nat]
  BY DEF NoPage

LEMMA InitEstablishes == Init => TimelineInv
  <1> SUFFICES ASSUME Init PROVE TimelineInv
    OBVIOUS
  <1> USE DEF Init, RecordingInit
  <1>1. TypeOK
    BY NoPageType, TimelineAssumption DEF TypeOK
  <1>2. RingIsContiguous
    BY RecordingAssumption DEF RingIsContiguous
  <1>3. ShownIsContiguous
    BY TimelineAssumption DEF ShownIsContiguous
  <1>4. TruncationIsLoss /\ AnswerFollowsCursor
    BY DEF TruncationIsLoss, AnswerFollowsCursor
  <1> QED
    BY <1>1, <1>2, <1>3, <1>4 DEF TimelineInv

(* _record_event keeps the ring contiguous, at its bound too.              *)
LEMMA RecordKeeps ==
    ASSUME TimelineInv, Record
    PROVE  TimelineInv'
  <1> USE DEF TimelineInv
  <1> DEFINE full == Len(events) >= MaxRecordingEvents
             e == SessionEvent("event")
  <1>1. /\ events \in Seq(Events)
        /\ next_event_sequence \in Nat \ {0}
        /\ events_dropped \in Nat
        /\ generation \in Nat
        /\ Len(events) \in Nat
    BY DEF TypeOK
  <1>2. /\ events' = Append(PopLeftWhenFull, e)
        /\ events_dropped' = events_dropped + IF full THEN 1 ELSE 0
        /\ next_event_sequence' = next_event_sequence + 1
        /\ UNCHANGED <<generation, timelineVars>>
    BY DEF Record, RecordEvent
  <1>3. e \in Events /\ e.sequence = next_event_sequence
    BY <1>1 DEF SessionEvent, Events
  <1>4. full => events # <<>>
    BY <1>1, RecordingAssumption
  <1>5. /\ PopLeftWhenFull \in Seq(Events)
        /\ Len(PopLeftWhenFull) = IF full THEN Len(events) - 1 ELSE Len(events)
        /\ \A i \in 1 .. Len(PopLeftWhenFull) :
               PopLeftWhenFull[i] = IF full THEN events[i + 1] ELSE events[i]
    BY <1>1, <1>4 DEF PopLeftWhenFull
  <1>6. TypeOK'
    <2> HIDE DEF e, full
    <2>1. events' \in Seq(Events)
      BY <1>2, <1>3, <1>5
    <2>2. next_event_sequence' \in Nat \ {0} /\ events_dropped' \in Nat
      BY <1>1, <1>2
    <2> QED
      BY <1>2, <2>1, <2>2 DEF TypeOK, timelineVars
  <1>7. RingIsContiguous'
    <2>1. Len(events') = Len(PopLeftWhenFull) + 1
      <3> HIDE DEF e
      <3> QED
        BY <1>2, <1>3, <1>5
    <2>2. /\ events_dropped + Len(events) + 1 = next_event_sequence
          /\ \A i \in 1 .. Len(events) : events[i].sequence = events_dropped + i
          /\ Len(events) <= MaxRecordingEvents
      BY <1>1 DEF RingIsContiguous
    <2>3. events_dropped' + Len(events') + 1 = next_event_sequence'
      <3>1. /\ events_dropped' = events_dropped + IF full THEN 1 ELSE 0
            /\ Len(events') = (IF full THEN Len(events) - 1 ELSE Len(events)) + 1
            /\ next_event_sequence' = next_event_sequence + 1
        BY <1>2, <1>5, <2>1
      <3> HIDE DEF full
      <3> QED
        BY <3>1, <1>1, <2>2
    <2>4. Len(events') <= MaxRecordingEvents
      BY <1>1, <1>5, <2>1, <2>2, RecordingAssumption
    <2>5. ASSUME NEW i \in 1 .. Len(events')
          PROVE  events'[i].sequence = events_dropped' + i
      <3>1. CASE i = Len(events')
        <4>1. events'[i] = e
          <5> HIDE DEF e
          <5> QED
            BY <1>2, <1>3, <1>5, <2>1, <3>1
        <4> HIDE DEF e, full
        <4> QED
          BY <4>1, <1>1, <1>2, <1>3, <2>3, <3>1
      <3>2. CASE i # Len(events')
        <4>1. i \in 1 .. Len(PopLeftWhenFull)
          BY <1>1, <1>5, <2>1, <3>2
        <4>2. events'[i] = PopLeftWhenFull[i]
          <5> HIDE DEF e
          <5> QED
            BY <1>2, <1>3, <1>5, <4>1
        <4>3. PopLeftWhenFull[i] = IF full THEN events[i + 1] ELSE events[i]
          BY <1>5, <4>1
        <4>4. (IF full THEN events[i + 1] ELSE events[i]).sequence
                = events_dropped + i + IF full THEN 1 ELSE 0
          <5>1. CASE full
            <6>1. i + 1 \in 1 .. Len(events)
              BY <1>1, <1>5, <4>1, <5>1
            <6> QED
              BY <1>1, <2>2, <5>1, <6>1
          <5>2. CASE ~full
            <6>1. i \in 1 .. Len(events)
              BY <1>5, <4>1, <5>2
            <6> QED
              BY <1>1, <2>2, <5>2, <6>1
          <5> QED
            BY <5>1, <5>2
        <4>5. events_dropped' = events_dropped + IF full THEN 1 ELSE 0
          BY <1>2
        <4>6. events'[i].sequence = events_dropped + i + IF full THEN 1 ELSE 0
          BY <4>2, <4>3, <4>4
        <4> HIDE DEF full
        <4> QED
          BY <1>1, <4>5, <4>6
      <3> QED
        BY <3>1, <3>2
    <2>6. DOMAIN events' = 1 .. Len(events')
      BY <1>6 DEF TypeOK
    <2> QED
      BY <2>3, <2>4, <2>5, <2>6 DEF RingIsContiguous
  <1>8. ShownIsContiguous' /\ TruncationIsLoss'
    BY <1>2 DEF ShownIsContiguous, TruncationIsLoss, timelineVars
  <1>9. AnswerFollowsCursor'
    <2>1. page.next_after \in Nat /\ cursor \in Nat
      BY DEF TypeOK
    <2> QED
      BY <1>1, <1>2, <2>1 DEF AnswerFollowsCursor, timelineVars, Consecutive
  <1> QED
    BY <1>6, <1>7, <1>8, <1>9

(* What list_events answers continues the cursor it was asked with.        *)
LEMMA ServeKeeps ==
    ASSUME TimelineInv, Serve
    PROVE  TimelineInv'
  <1> USE DEF TimelineInv
  <1> DEFINE evs == PageEvents(cursor, PageLimit)
             size == PageLength(cursor, PageLimit)
             a == Seen(cursor)
             b == Len(events)
  <1>1. /\ events_dropped \in Nat
        /\ next_event_sequence \in Nat
        /\ cursor \in Nat
        /\ b \in Nat
        /\ events \in Seq(Events)
    BY DEF TypeOK
  <1>2. /\ events_dropped + b + 1 = next_event_sequence
        /\ events # <<>> => events[1].sequence = events_dropped + 1
        /\ cursor < next_event_sequence
    <2>1. events # <<>> => 1 \in DOMAIN events
      BY <1>1
    <2> QED
      BY <2>1 DEF RingIsContiguous, AnswerFollowsCursor
  <1>3. /\ size \in Nat
        /\ size = 0 <=> a >= b
        /\ a < b => a + size <= b
        /\ evs \in Seq(Events)
        /\ Len(evs) = size
        /\ \A n \in 1 .. size : evs[n].sequence = events_dropped + a + n
    <2>1. PageLimit \in Nat \ {0}
      BY TimelineAssumption
    <2> QED
      BY <1>1, <2>1, PageIsRun
  <1>4. a = IF cursor < events_dropped THEN 0 ELSE cursor - events_dropped
    BY DEF Seen
  <1>5. /\ refreshing' = "answered"
        /\ page' = ListEvents(cursor, PageLimit)
        /\ UNCHANGED <<recordingVars, cursor, recentEvents, pageIndex>>
    BY DEF Serve
  <1>6. /\ page'.events = evs
        /\ page'.cursor_truncated = CursorTruncated(cursor)
        /\ page'.next_after = IF evs = <<>> THEN cursor ELSE evs[Len(evs)].sequence
        /\ page' = [events |-> page'.events, cursor_truncated |-> page'.cursor_truncated,
                    next_after |-> page'.next_after]
    BY <1>5 DEF ListEvents
  <1> HIDE DEF evs, size, a
  <1>7. /\ evs = <<>> <=> size = 0
        /\ evs # <<>> => /\ evs[1].sequence = events_dropped + a + 1
                         /\ evs[Len(evs)].sequence = events_dropped + a + size
    BY <1>1, <1>3
  <1>8. page'.next_after \in Nat /\ page'.next_after < next_event_sequence
    BY <1>1, <1>2, <1>3, <1>4, <1>6, <1>7
  <1>9. TypeOK'
    <2>1. CursorTruncated(cursor) \in BOOLEAN
      BY DEF CursorTruncated
    <2>2. page' \in [events : Seq(Events), cursor_truncated : BOOLEAN, next_after : Nat]
      BY <1>3, <1>6, <1>8, <2>1
    <2> QED
      BY <1>5, <2>2 DEF TypeOK, recordingVars
  <1>10. RingIsContiguous' /\ ShownIsContiguous'
    BY <1>5 DEF RingIsContiguous, ShownIsContiguous, recordingVars
  <1>11. CursorTruncated(cursor) <=> evs # <<>> /\ evs[1].sequence > cursor + 1
    <2>1. events # <<>> <=> b > 0
      BY <1>1
    <2>2. CursorTruncated(cursor) <=> b > 0 /\ cursor < events_dropped
      BY <1>1, <1>2, <2>1 DEF CursorTruncated
    <2> HIDE DEF b
    <2> QED
      BY <1>1, <1>3, <1>4, <1>7, <2>2
  <1>12. TruncationIsLoss'
    BY <1>5, <1>6, <1>11 DEF TruncationIsLoss
  <1>13. AnswerFollowsCursor'
    <2>1. Consecutive(evs)
      <3> SUFFICES ASSUME NEW i \in 1 .. size - 1
                   PROVE  evs[i + 1].sequence = evs[i].sequence + 1
        BY <1>3 DEF Consecutive
      <3>1. a \in Nat
        BY <1>1, <1>4
      <3>2. /\ evs[i].sequence = events_dropped + a + i
            /\ evs[i + 1].sequence = events_dropped + a + (i + 1)
        BY <1>3
      <3> QED
        BY <1>1, <3>1, <3>2
    <2>2. evs # <<>> => evs[1].sequence > cursor
      BY <1>1, <1>3, <1>4, <1>7
    <2> QED
      BY <1>2, <1>5, <1>6, <1>8, <2>1, <2>2
         DEF AnswerFollowsCursor, recordingVars, Consecutive
  <1> QED
    BY <1>9, <1>10, <1>12, <1>13

(* A run of consecutive events, cut to its last ones, is still a run.      *)
LEMMA LastShownIsRun ==
    ASSUME NEW s \in Seq(Events), Consecutive(s)
    PROVE  /\ LastShown(s) \in Seq(Events)
           /\ Consecutive(LastShown(s))
           /\ Len(LastShown(s)) <= MaxShown
           /\ s # <<>> => /\ LastShown(s) # <<>>
                          /\ LastShown(s)[Len(LastShown(s))] = s[Len(s)]
           /\ s = <<>> => LastShown(s) = <<>>
  <1>1. CASE Len(s) <= MaxShown
    BY <1>1, TimelineAssumption DEF LastShown
  <1>2. CASE ~(Len(s) <= MaxShown)
    <2> DEFINE k == Len(s) - MaxShown
               t == SubSeq(s, k + 1, Len(s))
    <2>1. LastShown(s) = t
      BY <1>2 DEF LastShown
    <2>2. k \in Nat /\ k + MaxShown = Len(s) /\ MaxShown \in Nat \ {0}
      BY <1>2, TimelineAssumption
    <2> HIDE DEF k
    <2>3. /\ t \in Seq(Events)
          /\ Len(t) = MaxShown
          /\ \A i \in 1 .. MaxShown : t[i] = s[k + i]
      <3>1. \A i \in k + 1 .. Len(s) : s[i] \in Events
        BY <2>2
      <3> QED
        BY <2>2, <3>1, SubSeqProperties
    <2> HIDE DEF t
    <2>4. Consecutive(t)
      <3> SUFFICES ASSUME NEW i \in 1 .. MaxShown - 1
                   PROVE  t[i + 1].sequence = t[i].sequence + 1
        BY <2>3 DEF Consecutive
      <3>1. t[i] = s[k + i] /\ t[i + 1] = s[k + i + 1]
        BY <2>2, <2>3
      <3>2. k + i \in 1 .. Len(s) - 1
        BY <2>2
      <3> QED
        BY <3>1, <3>2 DEF Consecutive
    <2>5. t # <<>> /\ t[Len(t)] = s[Len(s)]
      BY <2>2, <2>3
    <2> QED
      BY <1>2, <2>1, <2>2, <2>3, <2>4, <2>5
  <1> QED
    BY <1>1, <1>2

(* The page that arrives continues the list, or replaces it.               *)
LEMMA ReceiveKeeps ==
    ASSUME TimelineInv, Receive
    PROVE  TimelineInv'
  <1> USE DEF TimelineInv
  <1> DEFINE kept == KeptEvents
             joined == kept \o page.events
  <1>1. /\ recentEvents \in Seq(Events)
        /\ page.events \in Seq(Events)
        /\ page.next_after \in Nat
        /\ cursor \in Nat
        /\ pageIndex \in 0 .. MaxPages - 1
        /\ page.cursor_truncated \in BOOLEAN
        /\ next_event_sequence \in Nat
    BY DEF TypeOK
  <1>2. /\ refreshing = "answered"
        /\ cursor' = page.next_after
        /\ recentEvents' = LastShown(joined)
        /\ refreshing' = IF MorePages THEN "sent" ELSE "idle"
        /\ pageIndex' = IF MorePages THEN pageIndex + 1 ELSE 0
        /\ page' = NoPage
        /\ UNCHANGED recordingVars
    BY DEF Receive
  <1>3. /\ page.next_after < next_event_sequence
        /\ Consecutive(page.events)
        /\ page.events # <<>> =>
              /\ page.events[Len(page.events)].sequence = page.next_after
              /\ page.events[1].sequence > cursor
        /\ page.events = <<>> => page.next_after = cursor
        /\ page.cursor_truncated
              <=> page.events # <<>> /\ page.events[1].sequence > cursor + 1
    BY <1>2 DEF AnswerFollowsCursor, TruncationIsLoss
  <1>4. /\ kept \in Seq(Events)
        /\ Consecutive(kept)
        /\ kept # <<>> => /\ kept[Len(kept)].sequence = cursor
                          /\ ~page.cursor_truncated
    BY <1>1 DEF KeptEvents, ShownIsContiguous, Consecutive
  <1> HIDE DEF kept
  <1>5. page.events # <<>> => page.events[1].sequence \in Nat
    <2>1. page.events # <<>> => page.events[1] \in Events
      BY <1>1
    <2> QED
      BY <2>1 DEF Events
  <1>6. kept # <<>> /\ page.events # <<>> =>
            page.events[1].sequence = kept[Len(kept)].sequence + 1
    BY <1>1, <1>3, <1>4, <1>5
  <1>7. /\ joined \in Seq(Events)
        /\ Len(joined) = Len(kept) + Len(page.events)
        /\ \A i \in 1 .. Len(kept) : joined[i] = kept[i]
        /\ \A i \in 1 .. Len(page.events) : joined[Len(kept) + i] = page.events[i]
    BY <1>1, <1>4
  <1>8. Consecutive(joined)
    <2> SUFFICES ASSUME NEW i \in 1 .. Len(joined) - 1
                 PROVE  joined[i + 1].sequence = joined[i].sequence + 1
      BY DEF Consecutive
    <2>1. CASE i + 1 <= Len(kept)
      BY <1>1, <1>4, <1>7, <2>1 DEF Consecutive
    <2>2. CASE i = Len(kept)
      <3>1. kept # <<>> /\ page.events # <<>> /\ 1 \in 1 .. Len(page.events)
        BY <1>1, <1>4, <1>7, <2>2
      <3>2. joined[i + 1] = page.events[1] /\ joined[i] = kept[Len(kept)]
        BY <1>4, <1>7, <2>2, <3>1
      <3> QED
        BY <1>6, <3>1, <3>2
    <2>3. CASE i > Len(kept)
      <3> DEFINE j == i - Len(kept)
      <3>1. j \in 1 .. Len(page.events) - 1 /\ i = Len(kept) + j
        BY <1>1, <1>4, <1>7, <2>3
      <3> HIDE DEF j, joined
      <3>2. joined[i] = page.events[j] /\ joined[i + 1] = page.events[j + 1]
        <4>1. j \in 1 .. Len(page.events) /\ j + 1 \in 1 .. Len(page.events)
          BY <1>1, <3>1
        <4>2. i + 1 = Len(kept) + (j + 1)
          BY <1>4, <3>1
        <4> QED
          BY <1>7, <3>1, <4>1, <4>2
      <3> QED
        BY <1>3, <3>1, <3>2 DEF Consecutive
    <2> QED
      BY <1>4, <1>7, <2>1, <2>2, <2>3
  <1>9. joined # <<>> => joined[Len(joined)].sequence = page.next_after
    <2>1. CASE page.events # <<>>
      <3>1. joined[Len(joined)] = page.events[Len(page.events)]
        BY <1>1, <1>4, <1>7, <2>1
      <3> QED
        BY <1>3, <2>1, <3>1
    <2>2. CASE page.events = <<>>
      <3>1. joined = kept
        BY <1>4, <2>2
      <3> QED
        BY <1>3, <1>4, <2>2, <3>1
    <2> QED
      BY <2>1, <2>2
  <1> HIDE DEF joined
  <1>10. /\ LastShown(joined) \in Seq(Events)
         /\ Consecutive(LastShown(joined))
         /\ Len(LastShown(joined)) <= MaxShown
         /\ joined # <<>> =>
              LastShown(joined)[Len(LastShown(joined))] = joined[Len(joined)]
         /\ joined = <<>> => LastShown(joined) = <<>>
    BY <1>7, <1>8, LastShownIsRun
  <1>11. TypeOK'
    <2>1. pageIndex' \in 0 .. MaxPages - 1
      BY <1>1, <1>2, TimelineAssumption DEF MorePages
    <2> QED
      BY <1>1, <1>2, <1>10, <2>1, NoPageType DEF TypeOK, recordingVars
  <1>12. RingIsContiguous'
    BY <1>2 DEF RingIsContiguous, recordingVars
  <1>13. ShownIsContiguous'
    BY <1>2, <1>9, <1>10 DEF ShownIsContiguous, Consecutive
  <1>14. TruncationIsLoss' /\ AnswerFollowsCursor'
    <2>1. refreshing' # "answered"
      BY <1>2
    <2>2. cursor' < next_event_sequence'
      BY <1>2, <1>3 DEF recordingVars
    <2> QED
      BY <2>1, <2>2 DEF TruncationIsLoss, AnswerFollowsCursor
  <1> QED
    BY <1>11, <1>12, <1>13, <1>14

LEMMA StepKeeps == TimelineInv /\ [Next]_vars => TimelineInv'
  <1> SUFFICES ASSUME TimelineInv, [Next]_vars PROVE TimelineInv'
    OBVIOUS
  <1>1. CASE Record
    BY <1>1, RecordKeeps
  <1>2. CASE Refresh
    <2> USE <1>2 DEF Refresh, TimelineInv, recordingVars
    <2>1. TypeOK'
      BY TimelineAssumption DEF TypeOK
    <2>2. RingIsContiguous' /\ ShownIsContiguous' /\ TruncationIsLoss'
      BY DEF RingIsContiguous, ShownIsContiguous, TruncationIsLoss
    <2>3. AnswerFollowsCursor'
      BY DEF AnswerFollowsCursor
    <2> QED
      BY <2>1, <2>2, <2>3
  <1>3. CASE Serve
    BY <1>3, ServeKeeps
  <1>4. CASE RequestFails
    <2> USE <1>4 DEF RequestFails, TimelineInv, recordingVars
    <2>1. TypeOK'
      BY NoPageType DEF TypeOK
    <2>2. RingIsContiguous' /\ ShownIsContiguous' /\ TruncationIsLoss'
      BY DEF RingIsContiguous, ShownIsContiguous, TruncationIsLoss
    <2>3. AnswerFollowsCursor'
      BY DEF AnswerFollowsCursor
    <2> QED
      BY <2>1, <2>2, <2>3
  <1>5. CASE Receive
    BY <1>5, ReceiveKeeps
  <1>6. CASE UNCHANGED vars
    <2> USE <1>6 DEF vars, recordingVars, timelineVars, TimelineInv
    <2>1. TypeOK'
      BY DEF TypeOK
    <2>2. RingIsContiguous' /\ ShownIsContiguous' /\ TruncationIsLoss'
      BY DEF RingIsContiguous, ShownIsContiguous, TruncationIsLoss
    <2>3. AnswerFollowsCursor'
      BY DEF AnswerFollowsCursor, Consecutive
    <2> QED
      BY <2>1, <2>2, <2>3
  <1> QED
    BY <1>1, <1>2, <1>3, <1>4, <1>5, <1>6 DEF Next

(* For every bound of the ring, of a page and of the screen: the ring is   *)
(* contiguous and counts what it dropped (_record_event).                  *)
THEOREM RingCorrect == Spec => []RingIsContiguous
  <1>1. TimelineInv => RingIsContiguous
    BY DEF TimelineInv
  <1> QED
    BY <1>1, InitEstablishes, StepKeeps, PTL DEF Spec

(* For every bound of the ring, of a page and of the screen: every         *)
(* variable of the ring, of the answer in flight and of the browser stays  *)
(* in its type; the ring never exceeds its limit and the page index never  *)
(* passes the last page (_record_event and TimelineInspector's refresh).   *)
THEOREM TimelineTypes == Spec => []TypeOK
  <1>1. TimelineInv => TypeOK
    BY DEF TimelineInv
  <1> QED
    BY <1>1, InitEstablishes, StepKeeps, PTL DEF Spec

(* For every bound of the ring, of a page and of the screen: the browser   *)
(* shows a run of consecutive events, whatever was recorded or lost        *)
(* between its requests (TimelineInspector's refresh).                     *)
THEOREM TimelineFaithful == Spec => []ShownIsContiguous
  <1>1. TimelineInv => ShownIsContiguous
    BY DEF TimelineInv
  <1> QED
    BY <1>1, InitEstablishes, StepKeeps, PTL DEF Spec

(* For every bound of the ring, of a page and of the screen: an answer     *)
(* says it was truncated exactly when the ring no longer holds the event   *)
(* that follows the reader's cursor (list_events).                         *)
THEOREM TruncationIsHonest == Spec => []TruncationIsLoss
  <1>1. TimelineInv => TruncationIsLoss
    BY DEF TimelineInv
  <1> QED
    BY <1>1, InitEstablishes, StepKeeps, PTL DEF Spec
=============================================================================
