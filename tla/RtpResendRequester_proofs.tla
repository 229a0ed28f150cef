--------------------- MODULE RtpResendRequester_proofs ---------------------
(***************************************************************************)
(* Theorems about RtpResendRequester.                                      *)
(***************************************************************************)
EXTENDS RtpResendRequester, SequenceTheorems, TLAPS

USE ModulusAssumption, RequesterAssumption
-----------------------------------------------------------------------------
(* Sums and differences of ids are ids, also when the operand is a whole   *)
(* frame (wrapping_add, wrapping_sub).                                      *)
LEMMA WrappingType ==
  ASSUME NEW a \in Ids, NEW b \in 0 .. Modulus
  PROVE  WrappingAdd(a, b) \in Ids /\ WrappingSub(a, b) \in Ids
BY DEF WrappingAdd, WrappingSub, Ids, MaxValue

(* The distance of two ids is a natural number.                            *)
LEMMA DifferenceType ==
  ASSUME NEW a \in Ids, NEW b \in Ids, NEW w \in Nat
  PROVE  Difference(a, b, w) \in Nat
BY DEF Difference, Gap, Ids, MaxValue

(* A slot some places after a slot of a ring is a slot of the ring.        *)
LEMMA SlotAtType ==
  ASSUME NEW n \in Nat \ {0}, NEW h \in 0 .. n - 1, NEW k \in 0 .. n
  PROVE  SlotAt(h, k, n) \in 0 .. n - 1
BY DEF SlotAt

(* Sets of ids made from offsets of the window are sets of ids.            *)
LEMMA IdsOfType ==
  ASSUME NEW b \in Ids, NEW n \in FrameSizes, NEW K \in SUBSET (0 .. n - 1)
  PROVE  IdsOf(b, K) \subseteq Ids
<1>1. \A k \in K : k \in 0 .. Modulus
  OBVIOUS
<1>2. QED
  BY <1>1, WrappingType DEF IdsOf, IdAt

(* What a step appends to the event channel is a sequence of events.       *)
LEMMA EventIfType ==
  ASSUME NEW kind \in EventKinds, NEW S \in SUBSET Ids
  PROVE  EventIf(kind, S) \in Seq(Events) /\ Event(kind, S) \in Events
<1>1. Event(kind, S) \in Events
  BY DEF Event, Events
<1>2. QED
  BY <1>1 DEF EventIf

LEMMA MissingType == TypeOK => Missing \subseteq Ids
<1>1. ASSUME TypeOK PROVE MissingOffsets(pending_timestamps, pending_timestamp_index) \subseteq 0 .. frame_size - 1
  BY DEF MissingOffsets, Slots
<1>2. QED
  BY <1>1, IdsOfType DEF TypeOK, Missing
-----------------------------------------------------------------------------
(* The two outcomes of update_packet_resend_requests keep the types.       *)
LEMMA ScanTypes ==
  ASSUME TypeOK,
         NEW ts \in [Slots -> Nat \cup {Arrived}], NEW h \in Slots, NEW b \in Ids,
         NEW lost \in SUBSET Ids, NEW told \in SUBSET Ids, NEW fresh \in SUBSET Ids,
         NEW queue \in Seq(Events),
         Scan(ts, h, b, lost, told, queue, fresh)
  PROVE  /\ pending_timestamps' \in [Slots -> Nat \cup {Arrived}]
         /\ events' \in Seq(Events)
         /\ temp_lost_packets' \subseteq Ids
         /\ reported' \subseteq Ids /\ requested' \subseteq Ids
         /\ resend_delay' \in Times /\ armed' \in BOOLEAN
         /\ quiet_until' \in Nat
<1> DEFINE At(k)   == ts[SlotAt(h, k, frame_size)]
           missing == MissingOffsets(ts, h)
           overdue == {k \in missing : At(k) <= now}
           expired == {k \in overdue : now - At(k) >= GiveUpAfter}
           later   == {At(k) : k \in missing \ overdue}
           gone    == lost \cup IdsOf(b, expired)
           again   == IdsOf(b, overdue \ expired)
<1>1. missing \subseteq 0 .. frame_size - 1
  BY DEF MissingOffsets, Slots
<1>2. gone \in SUBSET Ids /\ again \in SUBSET Ids
  <2>1. expired \in SUBSET (0 .. frame_size - 1) /\ overdue \ expired \in SUBSET (0 .. frame_size - 1)
    BY <1>1
  <2>2. IdsOf(b, expired) \subseteq Ids /\ IdsOf(b, overdue \ expired) \subseteq Ids
    BY <2>1, IdsOfType, Zenon DEF TypeOK
  <2>3. QED
    BY <2>2
<1>3. later \subseteq Nat
  <2>1. SUFFICES ASSUME NEW k \in missing PROVE At(k) \in Nat
    OBVIOUS
  <2>2. SlotAt(h, k, frame_size) \in Slots
    BY <1>1, SlotAtType DEF TypeOK, Slots
  <2>3. At(k) # Arrived
    BY DEF MissingOffsets
  <2>4. QED
    BY <2>2, <2>3
<1> HIDE DEF At, missing, overdue, expired, later, gone, again
<1>4. /\ pending_timestamps' =
            [s \in Slots |-> IF ts[s] # Arrived /\ ts[s] + GiveUpAfter <= now
                             THEN Arrived ELSE ts[s]]
      /\ events' = queue \o EventIf("PacketTimedOut", gone) \o EventIf("ResendPackets", again)
      /\ temp_lost_packets' = {}
      /\ reported' = (reported \ fresh) \cup told \cup gone
      /\ requested' = (requested \ fresh) \cup again
      /\ \/ again # {} /\ resend_delay' = now + resend_request_interval /\ armed' = FALSE
            /\ quiet_until' = resend_delay'
         \/ again = {} /\ later # {} /\ armed' = FALSE
            /\ resend_delay' \in later /\ UNCHANGED quiet_until
         \/ again = {} /\ later = {} /\ resend_delay' = Never /\ armed' = FALSE
            /\ UNCHANGED quiet_until
  BY DEF Scan, Rearm, At, missing, overdue, expired, later, gone, again
<1>5. events' \in Seq(Events)
  <2>1. EventIf("PacketTimedOut", gone) \in Seq(Events) /\ EventIf("ResendPackets", again) \in Seq(Events)
    BY <1>2, EventIfType DEF EventKinds
  <2>2. QED
    BY <1>4, <2>1, ConcatProperties
<1>6. now \in Nat /\ resend_request_interval \in Nat /\ quiet_until \in Nat
      /\ reported \subseteq Ids /\ requested \subseteq Ids
  BY DEF TypeOK
<1>7. pending_timestamps' \in [Slots -> Nat \cup {Arrived}]
  BY <1>4
<1>8. resend_delay' \in Times /\ quiet_until' \in Nat
  <2>1. CASE again # {}
    BY <2>1, <1>4, <1>6 DEF Times
  <2>2. CASE again = {}
    BY <2>2, <1>3, <1>4, <1>6 DEF Times
  <2>3. QED
    BY <2>1, <2>2
<1>10. armed' \in BOOLEAN
  BY <1>4, Zenon
<1>9. QED
  BY <1>2, <1>4, <1>5, <1>6, <1>7, <1>8, <1>10
-----------------------------------------------------------------------------
(* The packet handler keeps the types.                                     *)
LEMMA IgnoreOldTypes ==
  ASSUME TypeOK, NEW id \in Ids, PacketReceived(id), IgnoreOld(id)
  PROVE  TypeOK'
<1>1. pc' \in {"idle", "app", "events", "channel", "ended", "panicked"} /\ arrivals' \in 0 .. MaxPackets
  BY DEF PacketReceived, TypeOK
<1>2. UNCHANGED <<now, late, watch, window, last, config, events, timer, temp_lost_packets,
                  requested, reported, assumed, quiet_until>>
      /\ received' = received \cup {id}
  BY DEF PacketReceived, IgnoreOld
<1>3. QED
  BY <1>1, <1>2 DEF TypeOK, Slots, window, last, config, timer

LEMMA RestartTypes ==
  ASSUME TypeOK, NEW id \in Ids, PacketReceived(id), Restart(id)
  PROVE  TypeOK'
<1> DEFINE gone == temp_lost_packets \cup Missing
           base == WrappingSub(WrappingAdd(id, 1), frame_size)
           kind == IF TimedOut THEN "SequenceTimedOut" ELSE "SequenceGapped"
           signal == IF Missing = {} THEN << >> ELSE <<Event(kind, {})>>
<1>1. gone \in SUBSET Ids
  BY MissingType DEF TypeOK
<1>2. base \in Ids
  <2>1. WrappingAdd(id, 1) \in Ids
    BY WrappingType
  <2>2. frame_size \in 0 .. Modulus
    BY DEF TypeOK
  <2>3. QED
    BY <2>1, <2>2, WrappingType
<1>3. signal \in Seq(Events)
  <2>1. kind \in EventKinds
    BY DEF EventKinds
  <2>2. Event(kind, {}) \in Events
    BY <2>1, EventIfType
  <2>3. QED
    BY <2>2
<1>4. EventIf("PacketTimedOut", gone) \in Seq(Events)
  BY <1>1, EventIfType DEF EventKinds
<1> HIDE DEF gone, kind, signal
<1>5. /\ events' = events \o EventIf("PacketTimedOut", gone) \o signal
      /\ pending_index' = base
      /\ assumed' = IdsOf(base, Slots) \ {id}
      /\ pending_timestamps' = AllArrived(frame_size)
      /\ pending_timestamp_index' = 0
      /\ temp_lost_packets' = {}
      /\ received' = {id} /\ requested' = {} /\ reported' = {}
      /\ last_packet_id' = id /\ last_packet_timestamp' = now
      /\ UNCHANGED <<frame_size, timer, quiet_until, now, late, watch, config>>
      /\ pc' = "app" /\ arrivals' \in 0 .. MaxPackets
  BY DEF PacketReceived, Restart, Accept, TypeOK, gone, kind, signal
<1>6. events' \in Seq(Events)
  BY <1>3, <1>4, <1>5, ConcatProperties DEF TypeOK
<1>7. assumed' \subseteq Ids
  BY <1>2, <1>5, IdsOfType DEF TypeOK, Slots
<1>8. /\ pending_timestamps' \in [Slots' -> Nat \cup {Arrived}]
      /\ pending_timestamp_index' \in Slots'
      /\ last_packet_timestamp' \in Times
  BY <1>5 DEF TypeOK, Slots, AllArrived, Times
<1>9. QED
  BY <1>2, <1>5, <1>6, <1>7, <1>8 DEF TypeOK, config, timer

(* The slots and ids a sliding window reaches.                             *)
LEMMA SlideType ==
  ASSUME TypeOK, NEW id \in Ids, ~ TimedOut, ~ TooOld(id), ~ Gapped(id)
  PROVE  /\ Distance(id) \in Nat /\ Slide(id) \in 0 .. frame_size
         /\ Distance(id) < 2 * frame_size /\ OffsetIn(id) \in Slots
         /\ NewBase(id) \in Ids /\ NewHead(id) \in Slots
<1>1. Distance(id) \in Nat
  BY DifferenceType DEF Distance, TypeOK
<1>2. Distance(id) < 2 * frame_size /\ frame_size \in Nat \ {0} /\ frame_size <= Modulus
  BY <1>1 DEF Gapped, TypeOK
<1>3. Slide(id) \in 0 .. frame_size /\ OffsetIn(id) \in Slots
  BY <1>1, <1>2 DEF Slide, OffsetIn, Slots
<1>4. Slide(id) \in 0 .. Modulus
  BY <1>2, <1>3
<1>5. NewBase(id) \in Ids /\ NewHead(id) \in Slots
  BY <1>2, <1>3, <1>4, WrappingType, SlotAtType DEF IdAt, TypeOK, Slots, NewBase, NewHead
<1>6. QED
  BY <1>1, <1>2, <1>3, <1>5

LEMMA SlidTypes ==
  ASSUME TypeOK, NEW id \in Ids, ~ TimedOut, ~ TooOld(id), ~ Gapped(id)
  PROVE  /\ Passed(id) \subseteq Ids /\ Fresh(id) \subseteq Ids
         /\ Marked(id) \in [Slots -> Nat \cup {Arrived}]
<1>1. Passed(id) \subseteq Ids
  <2>1. {k \in MissingOffsets(pending_timestamps, pending_timestamp_index) : k < Slide(id)}
          \in SUBSET (0 .. frame_size - 1)
    BY DEF MissingOffsets, Slots
  <2>2. QED
    BY <2>1, IdsOfType DEF TypeOK, Passed
<1>2. Fresh(id) \subseteq Ids
  <2>1. {k \in Slots : k >= frame_size - Slide(id)} \in SUBSET (0 .. frame_size - 1)
    BY DEF Slots
  <2>2. QED
    BY <2>1, SlideType, IdsOfType DEF TypeOK, Fresh
<1>3. Marked(id) \in [Slots -> Nat \cup {Arrived}]
  <2>1. now + nack_delay \in Nat
    BY DEF TypeOK
  <2>2. QED
    BY <2>1 DEF TypeOK, Marked
<1>4. QED
  BY <1>1, <1>2, <1>3

LEMMA AdvanceTypes ==
  ASSUME TypeOK, NEW id \in Ids, PacketReceived(id), Advance(id)
  PROVE  TypeOK'
<1> DEFINE gone  == IF Slide(id) # 0 THEN temp_lost_packets \cup Passed(id) ELSE {}
           kept  == IF Slide(id) # 0 THEN {} ELSE temp_lost_packets
           queue == events \o EventIf("PacketTimedOut", gone)
<1>1. ~ TimedOut /\ ~ TooOld(id) /\ ~ Gapped(id)
  BY DEF Advance
<1>2. /\ NewBase(id) \in Ids /\ NewHead(id) \in Slots
      /\ Passed(id) \subseteq Ids /\ Fresh(id) \subseteq Ids
      /\ Marked(id) \in [Slots -> Nat \cup {Arrived}]
  BY <1>1, SlideType, SlidTypes
<1>3. gone \in SUBSET Ids /\ kept \in SUBSET Ids
  BY <1>2 DEF TypeOK
<1>4. queue \in Seq(Events)
  <2>1. EventIf("PacketTimedOut", gone) \in Seq(Events)
    BY <1>3, EventIfType DEF EventKinds
  <2>2. QED
    BY <2>1, ConcatProperties DEF TypeOK
<1> HIDE DEF gone, kept, queue
<1>5. /\ pending_index' = NewBase(id) /\ pending_timestamp_index' = NewHead(id)
      /\ ScanUnlessScheduled(Marked(id), NewHead(id), NewBase(id), kept, gone, queue, Fresh(id))
      /\ received' = (received \ Fresh(id)) \cup {id}
      /\ assumed' = assumed \ Fresh(id)
      /\ last_packet_id' = id /\ last_packet_timestamp' = now
      /\ UNCHANGED <<frame_size, now, late, watch, config>>
      /\ pc' = "app" /\ arrivals' \in 0 .. MaxPackets
  BY DEF PacketReceived, Advance, Accept, TypeOK, gone, kept, queue
<1>6. /\ pending_timestamps' \in [Slots -> Nat \cup {Arrived}]
      /\ events' \in Seq(Events)
      /\ temp_lost_packets' \subseteq Ids
      /\ reported' \subseteq Ids /\ requested' \subseteq Ids
      /\ resend_delay' \in Times /\ armed' \in BOOLEAN
      /\ quiet_until' \in Nat
  <2>1. CASE Scan(Marked(id), NewHead(id), NewBase(id), kept, gone, queue, Fresh(id))
    BY <2>1, <1>2, <1>3, <1>4, ScanTypes
  <2>2. CASE /\ pending_timestamps' = Marked(id) /\ events' = queue /\ temp_lost_packets' = kept
             /\ reported' = (reported \ Fresh(id)) \cup gone
             /\ requested' = requested \ Fresh(id)
             /\ UNCHANGED <<timer, quiet_until>>
    BY <2>2, <1>2, <1>3, <1>4 DEF TypeOK, timer
  <2>3. QED
    BY <1>5, <2>1, <2>2 DEF ScanUnlessScheduled
<1>7. /\ received' \subseteq Ids /\ assumed' \subseteq Ids
      /\ last_packet_id' \in Ids /\ last_packet_timestamp' \in Times
      /\ now' \in Nat /\ late' \in 0 .. MaxLate /\ watch' \in Nat
      /\ nack_delay' \in NackDelays /\ resend_request_interval' \in ResendIntervals
      /\ frame_size' = frame_size /\ frame_size \in FrameSizes
  BY <1>2, <1>5 DEF TypeOK, Times, config
<1>8. QED
  BY <1>2, <1>5, <1>6, <1>7 DEF TypeOK, Slots
-----------------------------------------------------------------------------
(* The type invariant holds in every reachable state.                      *)
THEOREM TypeCorrect == Spec => []TypeOK
<1>1. Init => TypeOK
  <2> SUFFICES ASSUME Init PROVE TypeOK
    OBVIOUS
  <2>1. frame_size \in FrameSizes /\ frame_size \in Nat \ {0}
    BY DEF Init
  <2>2. 0 \in Slots /\ 0 \in Ids /\ Never \in Times
    BY <2>1 DEF Slots, Times, Ids
  <2>3. pending_timestamps \in [Slots -> Nat \cup {Arrived}]
    BY DEF Init, AllArrived, Slots
  <2>4. armed \in BOOLEAN
    BY Zenon DEF Init
  <2>5. events \in Seq(Events)
    BY DEF Init
  <2>6. now \in Nat /\ late \in 0 .. MaxLate /\ watch \in Nat /\ arrivals \in 0 .. MaxPackets /\ quiet_until \in Nat
    BY DEF Init
  <2>7. pc \in {"idle", "app", "events", "channel", "ended", "panicked"}
    BY DEF Init
  <2>8. QED
    BY <2>1, <2>2, <2>3, <2>4, <2>5, <2>6, <2>7 DEF Init, TypeOK
<1>2. TypeOK /\ [Next]_vars => TypeOK'
  <2> SUFFICES ASSUME TypeOK, [Next]_vars PROVE TypeOK'
    OBVIOUS
  <2>1. CASE BeginPoll
    BY <2>1 DEF BeginPoll, TypeOK, Slots, window, last, config, timer, history
  <2>2. CASE TakeEvent
    <3>1. Tail(events) \in Seq(Events)
      BY <2>2 DEF TakeEvent, TypeOK
    <3>2. pc' \in {"idle", "app", "events", "channel", "ended", "panicked"}
      BY <2>2 DEF TakeEvent
    <3>3. QED
      BY <2>2, <3>1, <3>2 DEF TakeEvent, TypeOK, Slots, window, last, config, timer, history
  <2>3. CASE TimerFires
    <3>1. /\ pending_timestamps' \in [Slots -> Nat \cup {Arrived}]
          /\ events' \in Seq(Events)
          /\ temp_lost_packets' \subseteq Ids
          /\ reported' \subseteq Ids /\ requested' \subseteq Ids
          /\ resend_delay' \in Times /\ armed' \in BOOLEAN
          /\ quiet_until' \in Nat
      <4>1. Scan(pending_timestamps, pending_timestamp_index, pending_index,
                 temp_lost_packets, {}, events, {})
        BY <2>3 DEF TimerFires
      <4>2. QED
        BY <4>1, ScanTypes DEF TypeOK
    <3>2. watch' \in Nat
      BY <2>3 DEF TimerFires, WatchTaken, TypeOK
    <3>3. QED
      BY <2>3, <3>1, <3>2 DEF TimerFires, TypeOK, Slots, last, config
  <2>4. CASE TimerPending
    <3>1. armed' \in BOOLEAN
      BY <2>4 DEF TimerPending
    <3>2. watch' \in Nat
      BY <2>4 DEF TimerPending, WatchTaken, TypeOK
    <3>3. QED
      BY <2>4, <3>1, <3>2 DEF TimerPending, TypeOK, Slots, window, last, config, history
  <2>5. CASE Sleep
    BY <2>5 DEF Sleep, TypeOK, Slots, window, last, config, timer, history
  <2>6. CASE Tick
    BY <2>6 DEF Tick, TypeOK, Slots, window, last, config, timer, history
  <2>7. CASE ChannelClosed
    <3>1. temp_lost_packets' \subseteq Ids
      BY <2>7, MissingType DEF ChannelClosed, TypeOK
    <3>2. armed' \in BOOLEAN
      BY <2>7 DEF ChannelClosed
    <3>3. pending_timestamps' \in [Slots' -> Nat \cup {Arrived}] /\ 0 \in Slots'
      BY <2>7 DEF ChannelClosed, TypeOK, Slots, AllArrived
    <3>4. QED
      BY <2>7, <3>1, <3>2, <3>3 DEF ChannelClosed, TypeOK, config, Times, Ids
  <2>8. CASE ResetResends
    <3>1. temp_lost_packets' \subseteq Ids
      BY <2>8, MissingType DEF ResetResends, TypeOK
    <3>2. armed' \in BOOLEAN
      BY <2>8 DEF ResetResends
    <3>3. pending_timestamps' \in [Slots -> Nat \cup {Arrived}]
      BY <2>8 DEF ResetResends, TypeOK, Slots, AllArrived
    <3>4. QED
      BY <2>8, <3>1, <3>2, <3>3 DEF ResetResends, TypeOK, config, last, Times, Slots
  <2>9. ASSUME NEW n \in FrameSizes, SetFrameSize(n) PROVE TypeOK'
    <3>1. EventIf("PacketTimedOut", temp_lost_packets \cup Missing) \in Seq(Events)
      <4>1. temp_lost_packets \cup Missing \in SUBSET Ids
        BY MissingType DEF TypeOK
      <4>2. QED
        BY <4>1, EventIfType DEF EventKinds
    <3>2. events' \in Seq(Events)
      BY <2>9, <3>1, ConcatProperties DEF SetFrameSize, TypeOK
    <3>3. armed' \in BOOLEAN /\ pc' \in {"idle", "app", "events", "channel", "ended", "panicked"}
      BY <2>9 DEF SetFrameSize, TypeOK
    <3>4. pending_timestamps' \in [Slots' -> Nat \cup {Arrived}] /\ 0 \in Slots'
      BY <2>9 DEF SetFrameSize, TypeOK, Slots, AllArrived
    <3>5. QED
      BY <2>9, <3>2, <3>3, <3>4 DEF SetFrameSize, TypeOK, config, Times, Ids
  <2>10. ASSUME NEW d \in NackDelays, NEW i \in ResendIntervals, Configure(d, i) PROVE TypeOK'
    BY <2>10 DEF Configure, TypeOK, Slots, window, last, config, timer, history
  <2>11. ASSUME NEW id \in Ids, PacketReceived(id) PROVE TypeOK'
    BY <2>11, IgnoreOldTypes, RestartTypes, AdvanceTypes DEF PacketReceived
  <2>12. CASE UNCHANGED vars
    BY <2>12 DEF vars, TypeOK, Slots, window, last, config, timer, history
  <2>13. QED
    BY <2>1, <2>2, <2>3, <2>4, <2>5, <2>6, <2>7, <2>8, <2>9, <2>10, <2>11, <2>12
       DEF Next, Poll, Application
<1>3. QED
  BY <1>1, <1>2, PTL DEF Spec
-----------------------------------------------------------------------------
(***************************************************************************)
(* What the clipping window must be for the arithmetic of the window to    *)
(* mean what it says: twice the frame, and at most a third of the ids.       *)
(***************************************************************************)
ClippingWide ==
  /\ \A n \in FrameSizes : 2 * n <= ClippingWindow
  /\ 3 * ClippingWindow <= Modulus

(* Advancing an id in two steps or in one.                                 *)
LEMMA IdAtSum ==
  ASSUME NEW a \in Ids, NEW x \in Nat, NEW y \in Nat, x + y <= Modulus
  PROVE  IdAt(IdAt(a, x), y) = IdAt(a, x + y)
BY DEF IdAt, WrappingAdd, Ids, MaxValue

(* Different offsets name different ids.                                   *)
LEMMA IdAtInjective ==
  ASSUME NEW a \in Ids, NEW x \in 0 .. Modulus - 1, NEW y \in 0 .. Modulus - 1,
         IdAt(a, x) = IdAt(a, y)
  PROVE  x = y
BY DEF IdAt, WrappingAdd, Ids, MaxValue

(* The same two facts for the slots of the ring.                           *)
LEMMA SlotAtSum ==
  ASSUME NEW n \in Nat \ {0}, NEW h \in 0 .. n - 1, NEW x \in 0 .. n, NEW y \in 0 .. n - 1,
         x + y < n
  PROVE  SlotAt(SlotAt(h, x, n), y, n) = SlotAt(h, x + y, n)
BY DEF SlotAt

LEMMA SlotAtInjective ==
  ASSUME NEW n \in Nat \ {0}, NEW h \in 0 .. n - 1, NEW x \in 0 .. n - 1, NEW y \in 0 .. n - 1,
         SlotAt(h, x, n) = SlotAt(h, y, n)
  PROVE  x = y
BY DEF SlotAt

(* SequenceNumber::is_less and ::difference agree with the position of an  *)
(* id relative to the window: an id that is not less and closer than twice *)
(* the frame lies exactly that far ahead of the window's oldest id ...      *)
LEMMA DistanceIsOffset ==
  ASSUME ClippingWide, NEW n \in FrameSizes, NEW p \in Ids, NEW id \in Ids,
         ~ IsLess(id, p, ClippingWindow),
         Difference(p, id, ClippingWindow) < 2 * n
  PROVE  IdAt(p, Difference(p, id, ClippingWindow)) = id
BY DEF ClippingWide, IsLess, Difference, Gap, IdAt, WrappingAdd, Ids, MaxValue

(* ... and an id that is less lies outside of the window.                  *)
LEMMA LessIsOutside ==
  ASSUME ClippingWide, NEW n \in FrameSizes, NEW p \in Ids, NEW id \in Ids,
         NEW k \in 0 .. n - 1, IsLess(id, p, ClippingWindow)
  PROVE  IdAt(p, k) # id
BY DEF ClippingWide, IsLess, IdAt, WrappingAdd, Ids, MaxValue
-----------------------------------------------------------------------------
(***************************************************************************)
(* Tracking: an id has one fate.                                           *)
(***************************************************************************)

(* A scan only ever stops waiting, and never still waits for what it gives *)
(* up.                                                                     *)
LEMMA ScanTracking ==
  ASSUME TypeOK,
         NEW ts \in [Slots -> Nat \cup {Arrived}], NEW h \in Slots, NEW b \in Ids,
         NEW lost \in SUBSET Ids, NEW told \in SUBSET Ids, NEW fresh \in SUBSET Ids,
         NEW queue \in Seq(Events),
         Scan(ts, h, b, lost, told, queue, fresh),
         pending_index' = b, pending_timestamp_index' = h, frame_size' = frame_size,
         IdsOf(b, MissingOffsets(ts, h)) \cap (lost \cup told \cup (reported \ fresh)) = {}
  PROVE  /\ Missing' \subseteq IdsOf(b, MissingOffsets(ts, h))
         /\ Missing' \cap reported' = {}
         /\ temp_lost_packets' = {}
<1> DEFINE At(k)   == ts[SlotAt(h, k, frame_size)]
           expired == {k \in {j \in MissingOffsets(ts, h) : At(j) <= now} : now - At(k) >= GiveUpAfter}
<1>1. /\ pending_timestamps' =
            [s \in Slots |-> IF ts[s] # Arrived /\ ts[s] + GiveUpAfter <= now
                             THEN Arrived ELSE ts[s]]
      /\ temp_lost_packets' = {}
      /\ reported' = (reported \ fresh) \cup told \cup (lost \cup IdsOf(b, expired))
  BY DEF Scan
<1>2. frame_size \in Nat \ {0} /\ frame_size <= Modulus /\ now \in Nat
  BY DEF TypeOK
<1>3. ASSUME NEW x \in Missing'
      PROVE  \E k \in MissingOffsets(ts, h) \ expired : x = IdAt(b, k)
  <2>1. PICK k \in Slots : /\ pending_timestamps'[SlotAt(h, k, frame_size)] # Arrived
                           /\ x = IdAt(b, k)
    BY <1>3 DEF Missing, IdsOf, MissingOffsets, Slots
  <2>2. SlotAt(h, k, frame_size) \in Slots
    <3>1. h \in 0 .. frame_size - 1 /\ k \in 0 .. frame_size
      BY <1>2 DEF Slots
    <3>2. QED
      BY <1>2, <3>1, SlotAtType DEF Slots
  <2>3. ts[SlotAt(h, k, frame_size)] # Arrived /\ ~ (ts[SlotAt(h, k, frame_size)] + GiveUpAfter <= now)
    BY <1>1, <2>1, <2>2
  <2>4. k \in MissingOffsets(ts, h)
    BY <2>3 DEF MissingOffsets
  <2>5. ts[SlotAt(h, k, frame_size)] \in Nat
    BY <2>2, <2>3
  <2>6. k \notin expired
    <3>1. SUFFICES ASSUME k \in expired PROVE FALSE
      OBVIOUS
    <3>2. now - At(k) >= GiveUpAfter
      BY <3>1
    <3>3. At(k) + GiveUpAfter <= now
      BY <1>2, <2>5, <3>2, RequesterAssumption
    <3>4. QED
      BY <2>3, <3>3
  <2>7. QED
    BY <2>1, <2>4, <2>6
<1>4. Missing' \subseteq IdsOf(b, MissingOffsets(ts, h))
  BY <1>3 DEF IdsOf
<1>5. ASSUME NEW x \in Missing' PROVE x \notin IdsOf(b, expired)
  <2>1. PICK k \in MissingOffsets(ts, h) \ expired : x = IdAt(b, k)
    BY <1>3
  <2>2. SUFFICES ASSUME NEW j \in expired, x = IdAt(b, j) PROVE FALSE
    BY DEF IdsOf
  <2>3. k \in 0 .. Modulus - 1 /\ j \in 0 .. Modulus - 1
    BY <1>2 DEF MissingOffsets, Slots
  <2>4. k = j
    BY <2>1, <2>2, <2>3, IdAtInjective
  <2>5. QED
    BY <2>1, <2>2, <2>4
<1>6. QED
  BY <1>1, <1>4, <1>5

(* The slide: what the window waits for afterwards it already waited for,   *)
(* or it has just reached it; the arriving id is not among it.              *)
LEMMA SlidMissing ==
  ASSUME TypeOK, ClippingWide, NEW id \in Ids, ~ TimedOut, ~ TooOld(id), ~ Gapped(id),
         NEW x \in IdsOf(NewBase(id), MissingOffsets(Marked(id), NewHead(id)))
  PROVE  /\ x # id
         /\ x \in Fresh(id) \/ (x \in Missing /\ x \notin Passed(id))
<1> DEFINE n == Slide(id)
           p == pending_index
           d == Distance(id)
<1>1. /\ d \in Nat /\ n \in 0 .. frame_size /\ d < 2 * frame_size
      /\ OffsetIn(id) \in Slots /\ NewBase(id) \in Ids /\ NewHead(id) \in Slots
  BY SlideType
<1>2. frame_size \in Nat \ {0} /\ 2 * frame_size <= Modulus /\ frame_size \in FrameSizes
      /\ pending_index \in Ids /\ pending_timestamp_index \in Slots
  BY RequesterAssumption, ModulusAssumption DEF TypeOK, ClippingWide
<1>3. PICK k \in Slots : Marked(id)[SlotAt(NewHead(id), k, frame_size)] # Arrived
                         /\ x = IdAt(NewBase(id), k)
  BY DEF IdsOf, MissingOffsets
<1>4. SlotAt(NewHead(id), k, frame_size) \in Slots
  <2>1. NewHead(id) \in 0 .. frame_size - 1 /\ k \in 0 .. frame_size
    BY <1>1, <1>2 DEF Slots
  <2>2. QED
    BY <1>2, <2>1, SlotAtType DEF Slots
<1>5. k # OffsetIn(id)
  BY <1>3, <1>4 DEF Marked
<1>6. x = IdAt(p, n + k)
  <2>1. n + k <= Modulus /\ n \in Nat /\ k \in Nat
    BY <1>1, <1>2 DEF Slots
  <2>2. QED
    BY <1>2, <1>3, <2>1, IdAtSum DEF NewBase
<1>7. id = IdAt(p, d)
  BY <1>1, <1>2, DistanceIsOffset DEF Distance, TooOld
<1>8. d = n + OffsetIn(id)
  BY <1>1, <1>2 DEF Slide, OffsetIn
<1>9. x # id
  <2>1. n + k \in 0 .. Modulus - 1 /\ d \in 0 .. Modulus - 1 /\ n + k # d
    BY <1>1, <1>2, <1>5, <1>8 DEF Slots
  <2>2. QED
    BY <1>2, <1>6, <1>7, <2>1, IdAtInjective
<1>10. CASE k >= frame_size - n
  BY <1>3, <1>9, <1>10 DEF Fresh, IdsOf
<1>11. CASE k < frame_size - n
  <2>1. n + k \in Slots
    BY <1>1, <1>2, <1>11 DEF Slots
  <2>2. SlotAt(NewHead(id), k, frame_size) = SlotAt(pending_timestamp_index, n + k, frame_size)
    BY <1>1, <1>2, <2>1, SlotAtSum DEF NewHead, Slots
  <2>3. Offset(SlotAt(pending_timestamp_index, n + k, frame_size)) = n + k
    BY <1>2, <2>1 DEF Offset, SlotAt, Slots
  <2>4. ~ (n + k < n)
    BY <1>1, <1>2 DEF Slots
  <2>5. pending_timestamps[SlotAt(pending_timestamp_index, n + k, frame_size)] # Arrived
    BY <1>3, <1>4, <2>2, <2>3, <2>4 DEF Marked
  <2>6. n + k \in MissingOffsets(pending_timestamps, pending_timestamp_index)
    BY <2>1, <2>5 DEF MissingOffsets
  <2>7. x \in Missing
    BY <1>6, <2>6 DEF Missing, IdsOf
  <2>8. x \notin Passed(id)
    <3>1. SUFFICES ASSUME NEW j \in Slots, j < n, x = IdAt(p, j) PROVE FALSE
      BY DEF Passed, IdsOf, MissingOffsets
    <3>2. j \in 0 .. Modulus - 1 /\ n + k \in 0 .. Modulus - 1 /\ n + k # j
      BY <1>1, <1>2, <2>1, <2>4, <3>1 DEF Slots
    <3>3. QED
      BY <1>2, <1>6, <3>1, <3>2, IdAtInjective
  <2>9. QED
    BY <1>9, <2>7, <2>8
<1>12. QED
  BY <1>1, <1>2, <1>10, <1>11 DEF Slots

(* The ids a slide reaches were not in the window.                         *)
LEMMA FreshIsNew ==
  ASSUME TypeOK, ClippingWide, NEW id \in Ids, ~ TimedOut, ~ TooOld(id), ~ Gapped(id)
  PROVE  /\ Fresh(id) \cap IdsOf(pending_index, Slots) = {}
         /\ Passed(id) \subseteq IdsOf(pending_index, Slots)
         /\ Passed(id) \subseteq Missing
         /\ Slide(id) = 0 => Fresh(id) = {} /\ NewBase(id) = pending_index
<1>1. Slide(id) \in 0 .. frame_size /\ frame_size \in Nat \ {0} /\ 2 * frame_size <= Modulus
      /\ pending_index \in Ids
  BY SlideType DEF TypeOK, ClippingWide
<1>2. ASSUME NEW x \in Fresh(id), x \in IdsOf(pending_index, Slots) PROVE FALSE
  <2>1. PICK k \in Slots : k >= frame_size - Slide(id) /\ x = IdAt(NewBase(id), k)
    BY DEF Fresh, IdsOf
  <2>2. PICK j \in Slots : x = IdAt(pending_index, j)
    BY <1>2 DEF IdsOf
  <2>3. x = IdAt(pending_index, Slide(id) + k)
    <3>1. Slide(id) + k <= Modulus /\ Slide(id) \in Nat /\ k \in Nat
      BY <1>1 DEF Slots
    <3>2. QED
      BY <1>1, <2>1, <3>1, IdAtSum DEF NewBase
  <2>4. /\ j \in 0 .. Modulus - 1 /\ Slide(id) + k \in 0 .. Modulus - 1
        /\ j # Slide(id) + k
    BY <1>1, <2>1 DEF Slots
  <2>5. QED
    BY <1>1, <2>2, <2>3, <2>4, IdAtInjective
<1>3. Passed(id) \subseteq Missing /\ Missing \subseteq IdsOf(pending_index, Slots)
  BY DEF Passed, Missing, IdsOf, MissingOffsets
<1>4. ASSUME Slide(id) = 0 PROVE Fresh(id) = {} /\ NewBase(id) = pending_index
  BY <1>1, <1>4 DEF Fresh, IdsOf, NewBase, IdAt, WrappingAdd, Ids, MaxValue, Slots
<1>5. QED
  BY <1>2, <1>3, <1>4
-----------------------------------------------------------------------------
(* A ring whose slots all are marked as arrived waits for nothing.         *)
LEMMA NothingMissing ==
  ASSUME TypeOK', pending_timestamps' = AllArrived(frame_size')
  PROVE  Missing' = {}
<1>1. SUFFICES ASSUME NEW k \in Slots', pending_timestamps'[SlotAt(pending_timestamp_index', k, frame_size')] # Arrived
               PROVE  FALSE
  BY DEF Missing, IdsOf, MissingOffsets
<1>2. frame_size' \in Nat \ {0} /\ pending_timestamp_index' \in 0 .. frame_size' - 1 /\ k \in 0 .. frame_size'
  <2>1. frame_size' \in FrameSizes /\ pending_timestamp_index' \in Slots'
    BY DEF TypeOK
  <2>2. frame_size' \in Nat \ {0}
    BY <2>1, RequesterAssumption
  <2>3. pending_timestamp_index' \in 0 .. frame_size' - 1 /\ k \in 0 .. frame_size' - 1
    BY <2>1 DEF Slots
  <2>4. \A n \in Nat \ {0} : \A j \in 0 .. n - 1 : j \in 0 .. n
    OBVIOUS
  <2> QED
    BY <2>2, <2>3, <2>4
<1>3. SlotAt(pending_timestamp_index', k, frame_size') \in 0 .. frame_size' - 1
  BY <1>2, SlotAtType
<1>4. QED
  BY <1>1, <1>3 DEF AllArrived

(* What is missing belongs to the window.                                  *)
LEMMA MissingInWindow == Missing \subseteq IdsOf(pending_index, Slots)
BY DEF Missing, IdsOf, MissingOffsets

(* PacketTooOld: the id handed out lies outside of the window.             *)
LEMMA IgnoreOldTracking ==
  ASSUME TypeOK, ClippingWide, Tracking, NEW id \in Ids, IgnoreOld(id), pc' # "ended", pc # "ended"
  PROVE  Tracking'
<1>1. frame_size \in FrameSizes /\ pending_index \in Ids /\ IsLess(id, pending_index, ClippingWindow)
  BY DEF TypeOK, IgnoreOld, TooOld
<1>2. id \notin IdsOf(pending_index, Slots)
  BY <1>1, LessIsOutside DEF IdsOf, Slots
<1>3. Missing' = Missing /\ IdsOf(pending_index, Slots)' = IdsOf(pending_index, Slots)
  BY DEF IgnoreOld, window, Missing, MissingOffsets, Slots, IdsOf
<1>4. id \notin Missing
  BY <1>2, MissingInWindow
<1>5. received' = received \cup {id} /\ reported' = reported /\ temp_lost_packets' = temp_lost_packets
  BY DEF IgnoreOld
<1>6. QED
  BY <1>3, <1>4, <1>5, Zenon DEF Tracking

(* What the window waits for after the slide has neither arrived nor been    *)
(* announced, set aside or passed.                                         *)
LEMMA OpenApart ==
  ASSUME TypeOK, ClippingWide, Tracking, NEW id \in Ids, Advance(id), pc # "ended"
  PROVE  LET gone == IF Slide(id) # 0 THEN temp_lost_packets \cup Passed(id) ELSE {}
             kept == IF Slide(id) # 0 THEN {} ELSE temp_lost_packets
             open == IdsOf(NewBase(id), MissingOffsets(Marked(id), NewHead(id)))
         IN /\ open \cap received' = {}
            /\ open \cap (kept \cup gone \cup (reported \ Fresh(id))) = {}
<1> DEFINE slides == Slide(id) # 0
           gone == IF slides THEN temp_lost_packets \cup Passed(id) ELSE {}
           kept == IF slides THEN {} ELSE temp_lost_packets
           open == IdsOf(NewBase(id), MissingOffsets(Marked(id), NewHead(id)))
<1>1. /\ ~ TimedOut /\ ~ TooOld(id) /\ ~ Gapped(id)
      /\ received' = (received \ Fresh(id)) \cup {id}
  BY DEF Advance
<1>2. \A x \in open : x # id /\ (x \in Fresh(id) \/ (x \in Missing /\ x \notin Passed(id)))
  BY <1>1, SlidMissing
<1>3. /\ Fresh(id) \cap IdsOf(pending_index, Slots) = {}
      /\ Passed(id) \subseteq IdsOf(pending_index, Slots) /\ Passed(id) \subseteq Missing
      /\ Slide(id) = 0 => Fresh(id) = {}
  BY <1>1, FreshIsNew
<1>4. temp_lost_packets \subseteq IdsOf(pending_index, Slots)
  BY DEF Tracking
<1>5. open \cap received' = {}
  BY <1>1, <1>2 DEF Tracking
<1>6. CASE slides
  <2>1. open \cap (kept \cup gone \cup (reported \ Fresh(id))) = {}
    BY <1>2, <1>3, <1>4, <1>6 DEF Tracking
  <2>2. QED
    BY <1>5, <2>1
<1>7. CASE ~ slides
  <2>1. open \cap (kept \cup gone \cup (reported \ Fresh(id))) = {}
    BY <1>2, <1>3, <1>7 DEF Tracking
  <2>2. QED
    BY <1>5, <2>1
<1>8. QED
  BY <1>6, <1>7

(* The packet advances the window, whether or not the scan runs.           *)
LEMMA AdvanceTracking ==
  ASSUME TypeOK, TypeOK', ClippingWide, Tracking, NEW id \in Ids, Advance(id), pc # "ended"
  PROVE  Tracking'
<1> DEFINE slides == Slide(id) # 0
           gone == IF slides THEN temp_lost_packets \cup Passed(id) ELSE {}
           kept == IF slides THEN {} ELSE temp_lost_packets
           open == IdsOf(NewBase(id), MissingOffsets(Marked(id), NewHead(id)))
<1>1. /\ ~ TimedOut /\ ~ TooOld(id) /\ ~ Gapped(id)
      /\ ScanUnlessScheduled(Marked(id), NewHead(id), NewBase(id), kept, gone,
                             events \o EventIf("PacketTimedOut", gone), Fresh(id))
      /\ pending_index' = NewBase(id) /\ pending_timestamp_index' = NewHead(id)
      /\ received' = (received \ Fresh(id)) \cup {id} /\ frame_size' = frame_size
  BY DEF Advance
<1>2. Slide(id) = 0 => NewBase(id) = pending_index
  BY <1>1, FreshIsNew
<1>4. temp_lost_packets \subseteq IdsOf(pending_index, Slots)
  BY DEF Tracking
<1>5. open \cap received' = {}
  BY OpenApart
<1>6. open \cap (kept \cup gone \cup (reported \ Fresh(id))) = {}
  BY OpenApart
<1>7. CASE resend_delay # Never
  <2>1. /\ pending_timestamps' = Marked(id) /\ temp_lost_packets' = kept
        /\ reported' = (reported \ Fresh(id)) \cup gone
    BY <1>1, <1>7 DEF ScanUnlessScheduled
  <2>2. Missing' = open
    BY <1>1, <2>1 DEF Missing, MissingOffsets, IdsOf, Slots
  <2>3. kept \cap ((reported \ Fresh(id)) \cup gone) = {}
    BY DEF Tracking
  <2>4. kept \subseteq IdsOf(pending_index, Slots)'
    <3>1. CASE slides
      BY <3>1
    <3>2. CASE ~ slides
      BY <1>1, <1>2, <1>4, <3>2 DEF IdsOf, Slots
    <3>3. QED
      BY <3>1, <3>2
  <2>5. QED
    BY <1>5, <1>6, <2>1, <2>2, <2>3, <2>4 DEF Tracking
<1>8. CASE resend_delay = Never
  <2>1. Scan(Marked(id), NewHead(id), NewBase(id), kept, gone,
             events \o EventIf("PacketTimedOut", gone), Fresh(id))
    BY <1>1, <1>8 DEF ScanUnlessScheduled
  <2>2. /\ NewHead(id) \in Slots /\ NewBase(id) \in Ids
        /\ Marked(id) \in [Slots -> Nat \cup {Arrived}]
    BY <1>1, SlideType, SlidTypes
  <2>3. kept \in SUBSET Ids /\ gone \in SUBSET Ids /\ Fresh(id) \in SUBSET Ids
    BY <1>1, SlidTypes DEF TypeOK
  <2>4. events \o EventIf("PacketTimedOut", gone) \in Seq(Events)
    BY <2>3, EventIfType, ConcatProperties DEF TypeOK, EventKinds
  <2> HIDE DEF kept, gone, open, slides
  <2>5. open \cap (kept \cup gone \cup (reported \ Fresh(id))) = {}
    BY <1>6
  <2>6. Missing' \subseteq open /\ Missing' \cap reported' = {} /\ temp_lost_packets' = {}
    BY <1>1, <2>1, <2>2, <2>3, <2>4, <2>5, ScanTracking DEF open
  <2>7. QED
    BY <1>5, <2>6 DEF Tracking
<1>9. QED
  BY <1>7, <1>8

(* Whatever a receiver with frames of at most half the clipping window does, *)
(* an id has one fate: RtpPacketResendRequester never waits for what has    *)
(* arrived or was announced as lost, and sets aside only ids of the window.  *)
THEOREM OneFate == ASSUME ClippingWide PROVE Spec => []Tracking
<1>1. Init => Tracking
  <2>1. SUFFICES ASSUME Init PROVE Tracking
    OBVIOUS
  <2>2. Missing \cap (received \cup reported \cup temp_lost_packets) = {}
    BY <2>1 DEF Init
  <2>3. QED
    BY <2>1, <2>2 DEF Init, Tracking
<1>2. TypeOK /\ TypeOK' /\ Tracking /\ [Next]_vars => Tracking'
  <2> SUFFICES ASSUME TypeOK, TypeOK', Tracking, [Next]_vars PROVE Tracking'
    OBVIOUS
  <2>1. CASE /\ UNCHANGED <<frame_size, pending_timestamps, pending_timestamp_index, pending_index>>
             /\ UNCHANGED <<received, reported, temp_lost_packets>>
             /\ pc = "ended" => pc' = "ended"
    BY <2>1 DEF Tracking, Missing, MissingOffsets, IdsOf, Slots
  <2>2. CASE BeginPoll \/ TakeEvent \/ TimerPending \/ Sleep \/ Tick
    BY <2>1, <2>2 DEF BeginPoll, TakeEvent, TimerPending, Sleep, Tick, window, history
  <2>3. CASE TimerFires
    <3>1. /\ Scan(pending_timestamps, pending_timestamp_index, pending_index, temp_lost_packets,
                  {}, events, {})
          /\ received' = received /\ frame_size' = frame_size
          /\ pending_timestamp_index' = pending_timestamp_index /\ pending_index' = pending_index
      BY <2>3 DEF TimerFires
    <3>2. /\ pending_timestamps \in [Slots -> Nat \cup {Arrived}] /\ pending_timestamp_index \in Slots
          /\ pending_index \in Ids /\ temp_lost_packets \in SUBSET Ids /\ events \in Seq(Events)
      BY DEF TypeOK
    <3>3. Missing \cap (temp_lost_packets \cup {} \cup (reported \ {})) = {}
      BY DEF Tracking
    <3>4. Missing' \subseteq Missing /\ Missing' \cap reported' = {} /\ temp_lost_packets' = {}
      BY <3>1, <3>2, <3>3, ScanTracking DEF Missing
    <3>5. QED
      BY <3>1, <3>4 DEF Tracking
  <2>4. CASE ChannelClosed
    <3>1. Missing' = {}
      BY <2>4, NothingMissing DEF ChannelClosed
    <3>2. QED
      BY <2>4, <3>1 DEF ChannelClosed, Tracking
  <2>5. CASE ResetResends
    <3>1. Missing' = {}
      BY <2>5, NothingMissing DEF ResetResends
    <3>2. /\ temp_lost_packets' = temp_lost_packets \cup Missing /\ reported' = reported
          /\ pc # "ended" /\ IdsOf(pending_index, Slots)' = IdsOf(pending_index, Slots)
      BY <2>5 DEF ResetResends, IdsOf, Slots
    <3>3. QED
      BY <3>1, <3>2, MissingInWindow DEF Tracking
  <2>6. ASSUME NEW n \in FrameSizes, SetFrameSize(n) PROVE Tracking'
    <3>1. Missing' = {}
      BY <2>6, NothingMissing DEF SetFrameSize
    <3>2. QED
      BY <2>6, <3>1 DEF SetFrameSize, Tracking
  <2>7. ASSUME NEW d \in NackDelays, NEW i \in ResendIntervals, Configure(d, i) PROVE Tracking'
    BY <2>1, <2>7 DEF Configure, window, history
  <2>8. ASSUME NEW id \in Ids, PacketReceived(id) PROVE Tracking'
    <3>1. pc = "channel" /\ pc' = "app" /\ (IgnoreOld(id) \/ Restart(id) \/ Advance(id))
      BY <2>8 DEF PacketReceived
    <3>2. CASE IgnoreOld(id)
      BY <3>1, <3>2, IgnoreOldTracking
    <3>3. CASE Restart(id)
      <4>1. Missing' = {} /\ temp_lost_packets' = {}
        BY <3>3, NothingMissing DEF Restart
      <4>2. QED
        BY <4>1 DEF Tracking
    <3>4. CASE Advance(id)
      BY <3>1, <3>4, AdvanceTracking
    <3>5. QED
      BY <3>1, <3>2, <3>3, <3>4
  <2>9. CASE UNCHANGED vars
    BY <2>1, <2>9 DEF vars, window, history
  <2>10. QED
    BY <2>2, <2>3, <2>4, <2>5, <2>6, <2>7, <2>8, <2>9 DEF Next, Poll, Application
<1>3. QED
  BY <1>1, <1>2, TypeCorrect, PTL DEF Spec
-----------------------------------------------------------------------------
(***************************************************************************)
(* What a step sends: the events the channel holds after it and not        *)
(* before.                                                                 *)
(***************************************************************************)
Appended(q, r) == {r[i] : i \in Len(q) + 1 .. Len(r)}

(* A channel that only lost its head, or did not change, was sent nothing. *)
LEMMA NothingAppended ==
  ASSUME NEW q, NEW r, Len(q) \in Nat, Len(r) \in Nat, Len(r) <= Len(q)
  PROVE  Appended(q, r) = {}
BY DEF Appended

(* What is sent to a channel in two portions.                              *)
LEMMA AppendedMore ==
  ASSUME NEW q \in Seq(Events), NEW r \in Seq(Events), NEW t \in Seq(Events), Len(q) <= Len(r)
  PROVE  /\ r \o t \in Seq(Events) /\ Len(q) <= Len(r \o t)
         /\ Appended(q, r \o t) = Appended(q, r) \cup {t[j] : j \in 1 .. Len(t)}
<1>1. /\ r \o t \in Seq(Events) /\ Len(r \o t) = Len(r) + Len(t)
      /\ \A i \in 1 .. Len(r) + Len(t) : (r \o t)[i] = IF i <= Len(r) THEN r[i] ELSE t[i - Len(r)]
  BY ConcatProperties
<1>2. Len(q) \in Nat /\ Len(r) \in Nat /\ Len(t) \in Nat
  OBVIOUS
<1>3. ASSUME NEW e \in Appended(q, r \o t)
      PROVE  e \in Appended(q, r) \cup {t[j] : j \in 1 .. Len(t)}
  <2>1. PICK i \in Len(q) + 1 .. Len(r) + Len(t) : e = (r \o t)[i]
    BY <1>1 DEF Appended
  <2>2. CASE i <= Len(r)
    BY <1>1, <1>2, <2>1, <2>2 DEF Appended
  <2>3. CASE i > Len(r)
    <3>1. i - Len(r) \in 1 .. Len(t) /\ e = t[i - Len(r)]
      BY <1>1, <1>2, <2>1, <2>3
    <3>2. QED
      BY <3>1
  <2>4. QED
    BY <1>2, <2>2, <2>3
<1>4. ASSUME NEW e \in Appended(q, r) PROVE e \in Appended(q, r \o t)
  <2>1. PICK i \in Len(q) + 1 .. Len(r) : e = r[i]
    BY DEF Appended
  <2>2. i \in 1 .. Len(r) + Len(t) /\ i <= Len(r) /\ i \in Len(q) + 1 .. Len(r \o t)
    BY <1>1, <1>2
  <2>3. e = (r \o t)[i]
    BY <1>1, <2>1, <2>2
  <2>4. QED
    BY <2>2, <2>3 DEF Appended
<1>5. ASSUME NEW j \in 1 .. Len(t) PROVE t[j] \in Appended(q, r \o t)
  <2>1. /\ Len(r) + j \in 1 .. Len(r) + Len(t) /\ ~ (Len(r) + j <= Len(r))
        /\ Len(r) + j \in Len(q) + 1 .. Len(r \o t) /\ (Len(r) + j) - Len(r) = j
    BY <1>1, <1>2
  <2>2. t[j] = (r \o t)[Len(r) + j]
    BY <1>1, <2>1
  <2>3. QED
    BY <2>1, <2>2 DEF Appended
<1>6. QED
  BY <1>1, <1>2, <1>3, <1>4, <1>5

(* A list of ids is sent as one event, an empty one not at all.            *)
LEMMA EventIfSends ==
  ASSUME NEW q \in Seq(Events), NEW r \in Seq(Events), Len(q) <= Len(r),
         NEW kind \in EventKinds, NEW S \in SUBSET Ids
  PROVE  /\ r \o EventIf(kind, S) \in Seq(Events) /\ Len(q) <= Len(r \o EventIf(kind, S))
         /\ Appended(q, r \o EventIf(kind, S)) =
              Appended(q, r) \cup (IF S = {} THEN {} ELSE {Event(kind, S)})
<1> DEFINE t == EventIf(kind, S)
<1>1. t \in Seq(Events) /\ Event(kind, S) \in Events
  BY EventIfType
<1>2. {t[j] : j \in 1 .. Len(t)} = IF S = {} THEN {} ELSE {Event(kind, S)}
  <2>1. CASE S = {}
    BY <2>1 DEF EventIf
  <2>2. CASE S # {}
    <3>1. t = <<Event(kind, S)>>
      BY <2>2 DEF EventIf
    <3>2. Len(t) = 1 /\ t[1] = Event(kind, S)
      BY <3>1
    <3>3. QED
      BY <2>2, <3>2
  <2>3. QED
    BY <2>1, <2>2
<1> HIDE DEF t
<1>3. /\ r \o t \in Seq(Events) /\ Len(q) <= Len(r \o t)
      /\ Appended(q, r \o t) = Appended(q, r) \cup {t[j] : j \in 1 .. Len(t)}
  BY <1>1, AppendedMore
<1>4. QED
  BY <1>2, <1>3 DEF t

(* The events Sent points at are those appended, by their kind.            *)
LEMMA SentAppended ==
  ASSUME NEW kind
  PROVE  {events'[i] : i \in Sent(kind)} = {e \in Appended(events, events') : e.kind = kind}
BY DEF Sent, Appended
-----------------------------------------------------------------------------
(***************************************************************************)
(* The scan, by the offsets it gives up and the offsets it asks for again. *)
(***************************************************************************)
AtOffset(ts, h, k) == ts[SlotAt(h, k, frame_size)]
Expired(ts, h) == {k \in MissingOffsets(ts, h) : AtOffset(ts, h, k) + GiveUpAfter <= now}
Again(ts, h) == {k \in MissingOffsets(ts, h) :
                   AtOffset(ts, h, k) <= now /\ ~ (AtOffset(ts, h, k) + GiveUpAfter <= now)}
Later(ts, h) == {k \in MissingOffsets(ts, h) : ~ (AtOffset(ts, h, k) <= now)}

LEMMA OffsetsType ==
  ASSUME TypeOK, NEW ts \in [Slots -> Nat \cup {Arrived}], NEW h \in Slots
  PROVE  /\ \A k \in Slots : SlotAt(h, k, frame_size) \in Slots
         /\ \A k \in MissingOffsets(ts, h) : AtOffset(ts, h, k) \in Nat
         /\ MissingOffsets(ts, h) = Expired(ts, h) \cup Again(ts, h) \cup Later(ts, h)
         /\ Expired(ts, h) \cap Again(ts, h) = {}
<1>1. frame_size \in Nat \ {0} /\ h \in 0 .. frame_size - 1 /\ now \in Nat
  BY DEF TypeOK, Slots
<1>2. ASSUME NEW k \in Slots PROVE SlotAt(h, k, frame_size) \in Slots
  <2>1. k \in 0 .. frame_size
    BY <1>1 DEF Slots
  <2>2. QED
    BY <1>1, <2>1, SlotAtType DEF Slots
<1>3. \A k \in MissingOffsets(ts, h) : AtOffset(ts, h, k) \in Nat
  BY <1>2 DEF MissingOffsets, AtOffset
<1>4. ASSUME NEW k \in MissingOffsets(ts, h), AtOffset(ts, h, k) + GiveUpAfter <= now
      PROVE  AtOffset(ts, h, k) <= now
  BY <1>1, <1>3, <1>4
<1>5. QED
  BY <1>2, <1>3, <1>4 DEF Expired, Again, Later

LEMMA OffsetsMean ==
  ASSUME TypeOK, NEW ts \in [Slots -> Nat \cup {Arrived}], NEW h \in Slots
  PROVE  LET missing == MissingOffsets(ts, h)
             overdue == {k \in missing : AtOffset(ts, h, k) <= now}
             expired == {k \in overdue : now - AtOffset(ts, h, k) >= GiveUpAfter}
         IN /\ expired = Expired(ts, h)
            /\ overdue \ expired = Again(ts, h)
            /\ missing \ overdue = Later(ts, h)
<1>1. \A k \in MissingOffsets(ts, h) : AtOffset(ts, h, k) \in Nat
  BY OffsetsType
<1>2. now \in Nat /\ GiveUpAfter \in Nat
  BY DEF TypeOK
<1>3. \A k \in MissingOffsets(ts, h) :
        (AtOffset(ts, h, k) <= now /\ now - AtOffset(ts, h, k) >= GiveUpAfter)
          <=> AtOffset(ts, h, k) + GiveUpAfter <= now
  BY <1>1, <1>2
<1>4. QED
  BY <1>3 DEF Expired, Again, Later

LEMMA ScanMeans ==
  ASSUME TypeOK,
         NEW ts \in [Slots -> Nat \cup {Arrived}], NEW h \in Slots, NEW b \in Ids,
         NEW lost, NEW told, NEW queue, NEW fresh,
         Scan(ts, h, b, lost, told, queue, fresh)
  PROVE  /\ pending_timestamps' =
              [s \in Slots |-> IF ts[s] # Arrived /\ ts[s] + GiveUpAfter <= now
                               THEN Arrived ELSE ts[s]]
         /\ events' = queue \o EventIf("PacketTimedOut", lost \cup IdsOf(b, Expired(ts, h)))
                            \o EventIf("ResendPackets", IdsOf(b, Again(ts, h)))
         /\ temp_lost_packets' = {} /\ armed' = FALSE
<1> DEFINE missing == MissingOffsets(ts, h)
           overdue == {k \in missing : AtOffset(ts, h, k) <= now}
           expired == {k \in overdue : now - AtOffset(ts, h, k) >= GiveUpAfter}
           gone    == lost \cup IdsOf(b, expired)
           again   == IdsOf(b, overdue \ expired)
<1>1. expired = Expired(ts, h) /\ overdue \ expired = Again(ts, h)
  BY OffsetsMean
<1>2. /\ pending_timestamps' =
            [s \in Slots |-> IF ts[s] # Arrived /\ ts[s] + GiveUpAfter <= now
                             THEN Arrived ELSE ts[s]]
      /\ events' = queue \o EventIf("PacketTimedOut", gone) \o EventIf("ResendPackets", again)
      /\ temp_lost_packets' = {} /\ armed' = FALSE
  BY DEF Scan, Rearm, AtOffset
<1> HIDE DEF missing, overdue, expired
<1>3. QED
  BY <1>1, <1>2

(* The timer afterwards.                                                   *)
LEMMA ScanRearms ==
  ASSUME TypeOK,
         NEW ts \in [Slots -> Nat \cup {Arrived}], NEW h \in Slots, NEW b \in Ids,
         NEW lost, NEW told, NEW queue, NEW fresh,
         Scan(ts, h, b, lost, told, queue, fresh)
  PROVE  \/ /\ Again(ts, h) # {}
            /\ resend_delay' = now + resend_request_interval /\ quiet_until' = resend_delay'
         \/ /\ Again(ts, h) = {} /\ Later(ts, h) # {} /\ UNCHANGED quiet_until
            /\ \E k \in Later(ts, h) : resend_delay' = AtOffset(ts, h, k)
            /\ \A k \in Later(ts, h) : resend_delay' <= AtOffset(ts, h, k)
         \/ /\ Again(ts, h) = {} /\ Later(ts, h) = {}
            /\ resend_delay' = Never /\ UNCHANGED quiet_until
<1> DEFINE missing == MissingOffsets(ts, h)
           overdue == {k \in missing : AtOffset(ts, h, k) <= now}
           expired == {k \in overdue : now - AtOffset(ts, h, k) >= GiveUpAfter}
           later   == {AtOffset(ts, h, k) : k \in missing \ overdue}
           again   == IdsOf(b, overdue \ expired)
<1>1. overdue \ expired = Again(ts, h) /\ missing \ overdue = Later(ts, h)
  BY OffsetsMean
<1>2. \/ again # {} /\ resend_delay' = now + resend_request_interval
         /\ quiet_until' = resend_delay'
      \/ again = {} /\ later # {} /\ UNCHANGED quiet_until
         /\ resend_delay' \in later /\ \A t \in later : resend_delay' <= t
      \/ again = {} /\ later = {} /\ resend_delay' = Never /\ UNCHANGED quiet_until
  BY DEF Scan, Rearm, AtOffset
<1> HIDE DEF missing, overdue, expired
<1>3. again = {} <=> Again(ts, h) = {}
  BY <1>1 DEF IdsOf
<1>4. later = {AtOffset(ts, h, k) : k \in Later(ts, h)}
  BY <1>1
<1> HIDE DEF later, again
<1>5. CASE again # {}
  BY <1>2, <1>3, <1>5
<1>6. CASE again = {} /\ later # {}
  <2>1. Later(ts, h) # {}
    BY <1>4, <1>6
  <2>2. /\ \E k \in Later(ts, h) : resend_delay' = AtOffset(ts, h, k)
        /\ \A k \in Later(ts, h) : resend_delay' <= AtOffset(ts, h, k)
    BY <1>2, <1>4, <1>6
  <2>3. QED
    BY <1>2, <1>3, <1>6, <2>1, <2>2
<1>7. CASE again = {} /\ later = {}
  <2>1. Later(ts, h) = {}
    BY <1>4, <1>7
  <2>2. QED
    BY <1>2, <1>3, <1>7, <2>1
<1>8. QED
  BY <1>5, <1>6, <1>7

(* What a scan sends.                                                      *)
LEMMA ScanSends ==
  ASSUME TypeOK,
         NEW ts \in [Slots -> Nat \cup {Arrived}], NEW h \in Slots, NEW b \in Ids,
         NEW lost \in SUBSET Ids, NEW told, NEW queue \in Seq(Events), NEW fresh,
         Scan(ts, h, b, lost, told, queue, fresh), Len(events) <= Len(queue)
  PROVE  LET gone  == lost \cup IdsOf(b, Expired(ts, h))
             again == IdsOf(b, Again(ts, h))
         IN /\ Appended(events, queue) \subseteq Appended(events, events')
            /\ gone # {} => Event("PacketTimedOut", gone) \in Appended(events, events')
            /\ \A e \in Appended(events, events') :
                 \/ e \in Appended(events, queue)
                 \/ e = Event("PacketTimedOut", gone)
                 \/ e = Event("ResendPackets", again)
<1> DEFINE gone  == lost \cup IdsOf(b, Expired(ts, h))
           again == IdsOf(b, Again(ts, h))
           mid   == queue \o EventIf("PacketTimedOut", gone)
<1>1. gone \in SUBSET Ids /\ again \in SUBSET Ids
  <2>1. Expired(ts, h) \in SUBSET (0 .. frame_size - 1) /\ Again(ts, h) \in SUBSET (0 .. frame_size - 1)
    BY DEF Expired, Again, MissingOffsets, Slots
  <2>2. IdsOf(b, Expired(ts, h)) \subseteq Ids /\ IdsOf(b, Again(ts, h)) \subseteq Ids
    BY <2>1, IdsOfType DEF TypeOK
  <2>3. QED
    BY <2>2
<1>2. events' = mid \o EventIf("ResendPackets", again)
  BY ScanMeans
<1> HIDE DEF gone, again
<1>3. /\ mid \in Seq(Events) /\ Len(events) <= Len(mid)
      /\ Appended(events, mid) = Appended(events, queue)
           \cup (IF gone = {} THEN {} ELSE {Event("PacketTimedOut", gone)})
  BY <1>1, EventIfSends DEF TypeOK, EventKinds
<1> HIDE DEF mid
<1>4. Appended(events, mid \o EventIf("ResendPackets", again)) =
        Appended(events, mid) \cup (IF again = {} THEN {} ELSE {Event("ResendPackets", again)})
  BY <1>1, <1>3, EventIfSends DEF TypeOK, EventKinds
<1>5. QED
  BY <1>2, <1>3, <1>4 DEF gone, again
-----------------------------------------------------------------------------
(***************************************************************************)
(* RequestsPaced.  The invariant: the pause the last request started ends  *)
(* with the timer that request set; without a timer it is over.            *)
(***************************************************************************)
Pacing == /\ resend_delay = Never => quiet_until <= now
          /\ resend_delay # Never => quiet_until <= resend_delay

(* A scan that is due finds the pause over, and asks for nothing again     *)
(* without starting the next one.                                          *)
LEMMA ScanPaced ==
  ASSUME TypeOK, Pacing, resend_delay = Never \/ resend_delay <= now,
         NEW ts \in [Slots -> Nat \cup {Arrived}], NEW h \in Slots, NEW b \in Ids,
         NEW lost, NEW told, NEW queue, NEW fresh,
         Scan(ts, h, b, lost, told, queue, fresh), now' = now
  PROVE  Pacing' /\ now >= quiet_until
<1>1. now \in Nat /\ quiet_until \in Nat /\ resend_delay \in Times /\ resend_request_interval \in Nat
  BY DEF TypeOK
<1>2. now >= quiet_until
  BY <1>1 DEF Pacing, Times
<1>3. \A k \in Later(ts, h) : AtOffset(ts, h, k) \in Nat /\ AtOffset(ts, h, k) > now
  BY <1>1, OffsetsType DEF Later
<1>4. CASE resend_delay' = now + resend_request_interval /\ quiet_until' = resend_delay'
  BY <1>1, <1>2, <1>4 DEF Pacing, Never
<1>5. CASE UNCHANGED quiet_until /\ \E k \in Later(ts, h) : resend_delay' = AtOffset(ts, h, k)
  BY <1>1, <1>2, <1>3, <1>5 DEF Pacing, Never
<1>6. CASE UNCHANGED quiet_until /\ resend_delay' = Never
  BY <1>1, <1>2, <1>6 DEF Pacing
<1>7. QED
  BY <1>2, <1>4, <1>5, <1>6, ScanRearms

(* The scan of a packet that advances the window has its arguments typed.  *)
LEMMA AdvanceArguments ==
  ASSUME TypeOK, NEW id \in Ids, Advance(id)
  PROVE  LET gone == IF Slide(id) # 0 THEN temp_lost_packets \cup Passed(id) ELSE {}
             kept == IF Slide(id) # 0 THEN {} ELSE temp_lost_packets
             queue == events \o EventIf("PacketTimedOut", gone)
         IN /\ Marked(id) \in [Slots -> Nat \cup {Arrived}]
            /\ NewHead(id) \in Slots /\ NewBase(id) \in Ids /\ Fresh(id) \in SUBSET Ids
            /\ gone \in SUBSET Ids /\ kept \in SUBSET Ids
            /\ queue \in Seq(Events) /\ Len(events) <= Len(queue)
            /\ Appended(events, queue) = IF gone = {} THEN {} ELSE {Event("PacketTimedOut", gone)}
            /\ \/ resend_delay # Never
                  /\ pending_timestamps' = Marked(id) /\ events' = queue /\ temp_lost_packets' = kept
                  /\ reported' = (reported \ Fresh(id)) \cup gone
                  /\ UNCHANGED <<timer, quiet_until>>
               \/ resend_delay = Never
                  /\ Scan(Marked(id), NewHead(id), NewBase(id), kept, gone, queue, Fresh(id))
<1> DEFINE gone == IF Slide(id) # 0 THEN temp_lost_packets \cup Passed(id) ELSE {}
           kept == IF Slide(id) # 0 THEN {} ELSE temp_lost_packets
           queue == events \o EventIf("PacketTimedOut", gone)
<1>1. ~ TimedOut /\ ~ TooOld(id) /\ ~ Gapped(id)
  BY DEF Advance
<1>2. /\ NewBase(id) \in Ids /\ NewHead(id) \in Slots
      /\ Passed(id) \subseteq Ids /\ Fresh(id) \subseteq Ids
      /\ Marked(id) \in [Slots -> Nat \cup {Arrived}]
  BY <1>1, SlideType, SlidTypes
<1>3. gone \in SUBSET Ids /\ kept \in SUBSET Ids
  BY <1>2 DEF TypeOK
<1>4. events \in Seq(Events) /\ Len(events) <= Len(events) /\ Appended(events, events) = {}
  BY DEF TypeOK, Appended
<1> HIDE DEF gone, kept
<1>5. /\ queue \in Seq(Events) /\ Len(events) <= Len(queue)
      /\ Appended(events, queue) = IF gone = {} THEN {} ELSE {Event("PacketTimedOut", gone)}
  BY <1>3, <1>4, EventIfSends DEF EventKinds
<1>6. ScanUnlessScheduled(Marked(id), NewHead(id), NewBase(id), kept, gone, queue, Fresh(id))
  BY DEF Advance, gone, kept
<1> HIDE DEF queue
<1>7. \/ resend_delay # Never
         /\ pending_timestamps' = Marked(id) /\ events' = queue /\ temp_lost_packets' = kept
         /\ reported' = (reported \ Fresh(id)) \cup gone
         /\ UNCHANGED <<timer, quiet_until>>
      \/ resend_delay = Never
         /\ Scan(Marked(id), NewHead(id), NewBase(id), kept, gone, queue, Fresh(id))
  BY <1>6, Zenon DEF ScanUnlessScheduled
<1>8. QED
  BY <1>2, <1>3, <1>5, <1>7 DEF gone, kept, queue

(* Events of another kind are not requests.                                *)
LEMMA NoRequest ==
  ASSUME \A e \in Appended(events, events') : e.kind # "ResendPackets"
  PROVE  Sent("ResendPackets") = {}
BY SentAppended

(* Restart announces what is lost and that the sequence broke.             *)
LEMMA RestartSends ==
  ASSUME TypeOK, NEW id \in Ids, Restart(id)
  PROVE  LET gone == temp_lost_packets \cup Missing
         IN \E signal \in SUBSET {Event("SequenceTimedOut", {}), Event("SequenceGapped", {})} :
              Appended(events, events') =
                (IF gone = {} THEN {} ELSE {Event("PacketTimedOut", gone)}) \cup signal
<1> DEFINE gone == temp_lost_packets \cup Missing
           kind == IF TimedOut THEN "SequenceTimedOut" ELSE "SequenceGapped"
           mid  == events \o EventIf("PacketTimedOut", gone)
           tail == IF Missing = {} THEN << >> ELSE <<Event(kind, {})>>
<1>1. gone \in SUBSET Ids
  BY MissingType DEF TypeOK
<1>2. events \in Seq(Events) /\ Len(events) <= Len(events) /\ Appended(events, events) = {}
  BY DEF TypeOK, Appended
<1> HIDE DEF gone
<1>3. /\ mid \in Seq(Events) /\ Len(events) <= Len(mid)
      /\ Appended(events, mid) = IF gone = {} THEN {} ELSE {Event("PacketTimedOut", gone)}
  BY <1>1, <1>2, EventIfSends DEF EventKinds
<1>4. kind \in EventKinds /\ Event(kind, {}) \in Events
  BY EventIfType DEF EventKinds
<1>5. tail \in Seq(Events)
      /\ {tail[j] : j \in 1 .. Len(tail)} \in SUBSET {Event("SequenceTimedOut", {}), Event("SequenceGapped", {})}
  <2>1. CASE Missing = {}
    BY <2>1
  <2>2. CASE Missing # {}
    <3>1. tail = <<Event(kind, {})>> /\ Len(tail) = 1 /\ tail[1] = Event(kind, {})
      BY <2>2
    <3>2. QED
      BY <1>4, <3>1
  <2>3. QED
    BY <2>1, <2>2
<1>6. events' = mid \o tail
  BY DEF Restart, gone
<1> HIDE DEF mid, tail, kind
<1>7. Appended(events, mid \o tail) = Appended(events, mid) \cup {tail[j] : j \in 1 .. Len(tail)}
  BY <1>2, <1>3, <1>5, AppendedMore
<1>8. QED
  BY <1>3, <1>5, <1>6, <1>7 DEF gone

(* A resize announces what is lost.                                        *)
LEMMA ResizeSends ==
  ASSUME TypeOK, NEW n \in FrameSizes, SetFrameSize(n)
  PROVE  LET gone == temp_lost_packets \cup Missing
         IN Appended(events, events') = IF gone = {} THEN {} ELSE {Event("PacketTimedOut", gone)}
<1> DEFINE gone == temp_lost_packets \cup Missing
           t    == EventIf("PacketTimedOut", gone)
<1>1. gone \in SUBSET Ids
  BY MissingType DEF TypeOK
<1>2. events \in Seq(Events) /\ Len(events) <= Len(events) /\ Appended(events, events) = {}
  BY DEF TypeOK, Appended
<1>3. events' = events \o t
  BY DEF SetFrameSize
<1> HIDE DEF gone
<1>4. Appended(events, events \o t) = Appended(events, events) \cup
        (IF gone = {} THEN {} ELSE {Event("PacketTimedOut", gone)})
  BY <1>1, <1>2, EventIfSends DEF EventKinds
<1>5. QED
  BY <1>2, <1>3, <1>4 DEF gone

(* The other steps send nothing.                                           *)
LEMMA OthersSendNothing ==
  ASSUME TypeOK,
         \/ BeginPoll \/ TakeEvent \/ TimerPending \/ Sleep \/ Tick \/ ChannelClosed \/ ResetResends
         \/ \E d \in NackDelays, i \in ResendIntervals : Configure(d, i)
         \/ \E id \in Ids : IgnoreOld(id)
         \/ UNCHANGED vars
  PROVE  Appended(events, events') = {}
<1>1. events \in Seq(Events)
  BY DEF TypeOK
<1>2. CASE events' = events
  BY <1>1, <1>2, NothingAppended
<1>3. CASE TakeEvent
  <2>1. events # << >> /\ events' = Tail(events)
    BY <1>3 DEF TakeEvent
  <2>2. Len(events') \in Nat /\ Len(events) \in Nat /\ Len(events') <= Len(events)
    BY <1>1, <2>1, HeadTailProperties
  <2>3. QED
    BY <2>2, NothingAppended
<1>4. QED
  BY <1>2, <1>3 DEF BeginPoll, TimerPending, Sleep, Tick, ChannelClosed, ResetResends, Configure,
                    IgnoreOld, vars

(* RtpPacketResendRequester never sends a request before the pause its last *)
(* request started is over, however many packets arrive, whenever the task  *)
(* is polled and however the application changes the interval meanwhile.    *)
THEOREM PausesKept == Spec => RequestsPaced
<1>1. Init => Pacing
  BY DEF Init, Pacing
<1>2. TypeOK /\ Pacing /\ [Next]_vars =>
        Pacing' /\ (Sent("ResendPackets") # {} => now >= quiet_until)
  <2> SUFFICES ASSUME TypeOK, Pacing, [Next]_vars
               PROVE  Pacing' /\ (Sent("ResendPackets") # {} => now >= quiet_until)
    OBVIOUS
  <2> DEFINE Silent == \A e \in Appended(events, events') : e.kind # "ResendPackets"
  <2>1. now \in Nat /\ quiet_until \in Nat /\ resend_delay \in Times
    BY DEF TypeOK
  <2>2. Silent => Sent("ResendPackets") = {}
    BY NoRequest
  <2>3. CASE Silent /\ UNCHANGED <<resend_delay, quiet_until>> /\ (now' = now \/ now' = now + 1)
    BY <2>1, <2>2, <2>3 DEF Pacing, Times
  <2>4. CASE Silent /\ resend_delay' = Never /\ quiet_until' = now /\ now' = now
    BY <2>1, <2>2, <2>4 DEF Pacing
  <2> HIDE DEF Silent
  <2>5. CASE BeginPoll \/ TakeEvent \/ TimerPending \/ Sleep \/ Tick
    <3>1. Silent
      BY <2>5, OthersSendNothing DEF Silent
    <3>2. QED
      BY <2>3, <2>5, <3>1 DEF BeginPoll, TakeEvent, TimerPending, Sleep, Tick, timer, history
  <2>6. CASE ChannelClosed \/ ResetResends
    <3>1. Silent
      BY <2>6, OthersSendNothing DEF Silent
    <3>2. QED
      BY <2>4, <2>6, <3>1 DEF ChannelClosed, ResetResends
  <2>7. ASSUME NEW n \in FrameSizes, SetFrameSize(n)
        PROVE  Pacing' /\ (Sent("ResendPackets") # {} => now >= quiet_until)
    <3>1. Silent
      BY <2>7, ResizeSends DEF Silent, Event
    <3>2. QED
      BY <2>4, <2>7, <3>1 DEF SetFrameSize
  <2>8. ASSUME NEW d \in NackDelays, NEW i \in ResendIntervals, Configure(d, i)
        PROVE  Pacing' /\ (Sent("ResendPackets") # {} => now >= quiet_until)
    <3>1. Silent
      BY <2>8, OthersSendNothing DEF Silent
    <3>2. QED
      BY <2>3, <2>8, <3>1 DEF Configure, timer, history
  <2>9. CASE TimerFires
    <3>1. /\ Scan(pending_timestamps, pending_timestamp_index, pending_index, temp_lost_packets,
                  {}, events, {})
          /\ resend_delay <= now /\ now' = now
      BY <2>9 DEF TimerFires
    <3>2. /\ pending_timestamps \in [Slots -> Nat \cup {Arrived}]
          /\ pending_timestamp_index \in Slots /\ pending_index \in Ids
      BY DEF TypeOK
    <3>3. QED
      BY <3>1, <3>2, ScanPaced
  <2>10. ASSUME NEW id \in Ids, PacketReceived(id)
         PROVE  Pacing' /\ (Sent("ResendPackets") # {} => now >= quiet_until)
    <3>1. now' = now /\ (IgnoreOld(id) \/ Restart(id) \/ Advance(id))
      BY <2>10 DEF PacketReceived
    <3>2. CASE IgnoreOld(id)
      <4>1. Silent
        BY <3>2, OthersSendNothing DEF Silent
      <4>2. QED
        BY <2>3, <3>1, <3>2, <4>1 DEF IgnoreOld, timer
    <3>3. CASE Restart(id)
      <4>1. Silent
        BY <3>3, RestartSends DEF Silent, Event
      <4>2. QED
        BY <2>3, <3>1, <3>3, <4>1 DEF Restart, timer
    <3>4. CASE Advance(id)
      <4> DEFINE gone == IF Slide(id) # 0 THEN temp_lost_packets \cup Passed(id) ELSE {}
                 kept == IF Slide(id) # 0 THEN {} ELSE temp_lost_packets
                 queue == events \o EventIf("PacketTimedOut", gone)
      <4>1. /\ Marked(id) \in [Slots -> Nat \cup {Arrived}]
            /\ NewHead(id) \in Slots /\ NewBase(id) \in Ids
            /\ Appended(events, queue) = IF gone = {} THEN {} ELSE {Event("PacketTimedOut", gone)}
            /\ \/ events' = queue /\ UNCHANGED <<timer, quiet_until>>
               \/ resend_delay = Never
                  /\ Scan(Marked(id), NewHead(id), NewBase(id), kept, gone, queue, Fresh(id))
        BY <3>4, AdvanceArguments
      <4> HIDE DEF gone, kept, queue
      <4>2. CASE events' = queue /\ UNCHANGED <<timer, quiet_until>>
        <5>1. Silent
          BY <4>1, <4>2 DEF Silent, Event
        <5>2. QED
          BY <2>3, <3>1, <4>2, <5>1 DEF timer
      <4>3. CASE resend_delay = Never
                 /\ Scan(Marked(id), NewHead(id), NewBase(id), kept, gone, queue, Fresh(id))
        BY <3>1, <4>1, <4>3, ScanPaced
      <4>4. QED
        BY <4>1, <4>2, <4>3
    <3>5. QED
      BY <3>1, <3>2, <3>3, <3>4
  <2>11. CASE UNCHANGED vars
    <3>1. Silent
      BY <2>11, OthersSendNothing DEF Silent
    <3>2. QED
      BY <2>3, <2>11, <3>1 DEF vars, timer, history
  <2>12. QED
    BY <2>5, <2>6, <2>7, <2>8, <2>9, <2>10, <2>11 DEF Next, Poll, Application
<1>3. QED
  BY <1>1, <1>2, TypeCorrect, PTL DEF Spec, RequestsPaced
-----------------------------------------------------------------------------
(***************************************************************************)
(* The slide, slot by slot.                                                *)
(***************************************************************************)

(* The slots reused for fresh ids, seen from the new head of the ring.     *)
LEMMA SlotAtWrap ==
  ASSUME NEW n \in Nat \ {0}, NEW h \in 0 .. n - 1, NEW x \in 0 .. n, NEW y \in 0 .. n - 1,
         x + y >= n
  PROVE  SlotAt(SlotAt(h, x, n), y, n) = SlotAt(h, x + y - n, n)
BY DEF SlotAt

(* The slot an offset leads to leads back to the offset.                   *)
LEMMA OffsetOfSlot ==
  ASSUME TypeOK, NEW k \in Slots
  PROVE  Offset(SlotAt(pending_timestamp_index, k, frame_size)) = k
<1>1. frame_size \in Nat \ {0} /\ pending_timestamp_index \in 0 .. frame_size - 1 /\ k \in 0 .. frame_size - 1
  BY DEF TypeOK, Slots
<1>2. QED
  BY <1>1 DEF Offset, SlotAt

LEMMA SlidSlot ==
  ASSUME TypeOK, ClippingWide, NEW id \in Ids, ~ TimedOut, ~ TooOld(id), ~ Gapped(id), NEW k \in Slots
  PROVE  /\ IdAt(NewBase(id), k) = IdAt(pending_index, Slide(id) + k)
         /\ k = OffsetIn(id) => AtOffset(Marked(id), NewHead(id), k) = Arrived
         /\ k # OffsetIn(id) /\ k >= frame_size - Slide(id) =>
              AtOffset(Marked(id), NewHead(id), k) = now + nack_delay
         /\ k # OffsetIn(id) /\ k < frame_size - Slide(id) =>
              /\ Slide(id) + k \in Slots
              /\ AtOffset(Marked(id), NewHead(id), k) =
                   AtOffset(pending_timestamps, pending_timestamp_index, Slide(id) + k)
<1> DEFINE n == Slide(id)
           s == SlotAt(NewHead(id), k, frame_size)
<1>1. n \in 0 .. frame_size /\ OffsetIn(id) \in Slots /\ NewBase(id) \in Ids /\ NewHead(id) \in Slots
  BY SlideType
<1>2. /\ frame_size \in Nat \ {0} /\ 2 * frame_size <= Modulus
      /\ pending_index \in Ids /\ pending_timestamp_index \in 0 .. frame_size - 1
  BY DEF TypeOK, ClippingWide, Slots
<1>3. k \in 0 .. frame_size - 1 /\ k \in 0 .. frame_size /\ NewHead(id) \in 0 .. frame_size - 1
      /\ OffsetIn(id) \in 0 .. frame_size - 1
  BY <1>1, <1>2 DEF Slots
<1>4. IdAt(NewBase(id), k) = IdAt(pending_index, n + k)
  <2>1. n + k <= Modulus /\ n \in Nat /\ k \in Nat
    BY <1>1, <1>2, <1>3
  <2>2. QED
    BY <1>2, <2>1, IdAtSum DEF NewBase
<1>5. s \in Slots
  BY <1>2, <1>3, SlotAtType DEF Slots
<1>6. AtOffset(Marked(id), NewHead(id), k) =
        IF s = SlotAt(NewHead(id), OffsetIn(id), frame_size) THEN Arrived
        ELSE IF Offset(s) < n THEN now + nack_delay ELSE pending_timestamps[s]
  BY <1>5 DEF AtOffset, Marked
<1>7. k # OffsetIn(id) => s # SlotAt(NewHead(id), OffsetIn(id), frame_size)
  BY <1>2, <1>3, SlotAtInjective
<1>8. ASSUME k >= frame_size - n PROVE Offset(s) < n
  <2>1. n + k >= frame_size /\ n + k - frame_size \in Slots /\ n + k - frame_size < n
    BY <1>1, <1>2, <1>3, <1>8 DEF Slots
  <2>2. s = SlotAt(pending_timestamp_index, n + k - frame_size, frame_size)
    BY <1>1, <1>2, <1>3, <2>1, SlotAtWrap DEF NewHead
  <2>3. QED
    BY <2>1, <2>2, OffsetOfSlot
<1>9. ASSUME k < frame_size - n
      PROVE  /\ n + k \in Slots /\ ~ (Offset(s) < n)
             /\ s = SlotAt(pending_timestamp_index, n + k, frame_size)
  <2>1. n + k < frame_size /\ n + k \in Slots /\ ~ (n + k < n)
    BY <1>1, <1>2, <1>3, <1>9 DEF Slots
  <2>2. s = SlotAt(pending_timestamp_index, n + k, frame_size)
    BY <1>1, <1>2, <1>3, <2>1, SlotAtSum DEF NewHead
  <2>3. QED
    BY <2>1, <2>2, OffsetOfSlot
<1>10. QED
  BY <1>4, <1>6, <1>7, <1>8, <1>9 DEF AtOffset

(* The id that arrives lies at the offset OffsetIn of the window after the *)
(* slide.                                                                  *)
LEMMA SlidId ==
  ASSUME TypeOK, ClippingWide, NEW id \in Ids, ~ TimedOut, ~ TooOld(id), ~ Gapped(id)
  PROVE  OffsetIn(id) \in Slots /\ IdAt(NewBase(id), OffsetIn(id)) = id
<1>1. /\ Distance(id) \in Nat /\ Slide(id) \in 0 .. frame_size /\ OffsetIn(id) \in Slots
      /\ Distance(id) < 2 * frame_size
  BY SlideType
<1>2. frame_size \in FrameSizes /\ frame_size \in Nat \ {0} /\ pending_index \in Ids
  BY DEF TypeOK
<1>3. id = IdAt(pending_index, Distance(id))
  BY <1>1, <1>2, DistanceIsOffset DEF Distance, TooOld
<1>4. Distance(id) = Slide(id) + OffsetIn(id)
  BY <1>1, <1>2 DEF Slide, OffsetIn
<1>5. QED
  BY <1>1, <1>3, <1>4, SlidSlot

(* What the window waits for after the slide: a fresh id, expected nack_delay *)
(* from now, or an id it waited for before and did not pass, expected as    *)
(* before.                                                                 *)
LEMMA SlidOpen ==
  ASSUME TypeOK, ClippingWide, NEW id \in Ids, ~ TimedOut, ~ TooOld(id), ~ Gapped(id),
         NEW k \in MissingOffsets(Marked(id), NewHead(id))
  PROVE  \/ /\ IdAt(NewBase(id), k) \in Fresh(id)
            /\ AtOffset(Marked(id), NewHead(id), k) = now + nack_delay
         \/ /\ IdAt(NewBase(id), k) \in Missing \ Passed(id)
            /\ Slide(id) + k \in MissingOffsets(pending_timestamps, pending_timestamp_index)
            /\ AtOffset(Marked(id), NewHead(id), k) =
                 AtOffset(pending_timestamps, pending_timestamp_index, Slide(id) + k)
<1>1. k \in Slots /\ AtOffset(Marked(id), NewHead(id), k) # Arrived
  BY DEF MissingOffsets, AtOffset
<1>2. k # OffsetIn(id)
  BY <1>1, SlidSlot
<1>3. CASE k >= frame_size - Slide(id)
  BY <1>1, <1>2, <1>3, SlidSlot DEF Fresh, IdsOf
<1>4. CASE k < frame_size - Slide(id)
  <2>1. /\ Slide(id) + k \in Slots /\ IdAt(NewBase(id), k) = IdAt(pending_index, Slide(id) + k)
        /\ AtOffset(Marked(id), NewHead(id), k) =
             AtOffset(pending_timestamps, pending_timestamp_index, Slide(id) + k)
    BY <1>1, <1>2, <1>4, SlidSlot
  <2>2. Slide(id) + k \in MissingOffsets(pending_timestamps, pending_timestamp_index)
    BY <1>1, <2>1 DEF MissingOffsets, AtOffset
  <2>3. IdAt(NewBase(id), k) \in Missing
    BY <2>1, <2>2 DEF Missing, IdsOf
  <2>4. IdAt(NewBase(id), k) \notin Passed(id)
    <3>1. SUFFICES ASSUME NEW j \in Slots, j < Slide(id),
                          IdAt(pending_index, Slide(id) + k) = IdAt(pending_index, j)
                   PROVE FALSE
      BY <2>1 DEF Passed, IdsOf, MissingOffsets
    <3>2. /\ j \in 0 .. Modulus - 1 /\ Slide(id) + k \in 0 .. Modulus - 1 /\ pending_index \in Ids
          /\ Slide(id) + k # j
      <4>1. frame_size \in Nat \ {0} /\ frame_size <= Modulus /\ pending_index \in Ids
        BY DEF TypeOK
      <4>2. Slide(id) \in 0 .. frame_size
        BY SlideType
      <4>3. QED
        BY <1>1, <2>1, <3>1, <4>1, <4>2 DEF Slots
    <3>3. QED
      BY <3>1, <3>2, IdAtInjective
  <2>5. QED
    BY <2>1, <2>2, <2>3, <2>4
<1>5. QED
  <2>1. frame_size \in Nat /\ Slide(id) \in 0 .. frame_size /\ k \in 0 .. frame_size - 1
    BY <1>1, SlideType DEF TypeOK, Slots
  <2>2. QED
    BY <1>3, <1>4, <2>1

(* Conversely, what the window waited for and did not pass it still waits   *)
(* for, and it waits for every fresh id: all but the one that arrives.     *)
LEMMA SlidKeeps ==
  ASSUME TypeOK, ClippingWide, NEW id \in Ids, ~ TimedOut, ~ TooOld(id), ~ Gapped(id)
  PROVE  LET open == IdsOf(NewBase(id), MissingOffsets(Marked(id), NewHead(id)))
         IN /\ Missing \ Passed(id) \subseteq open \cup {id}
            /\ Fresh(id) \subseteq open \cup {id}
            /\ IdsOf(NewBase(id), Slots) \subseteq Fresh(id) \cup IdsOf(pending_index, Slots)
<1> DEFINE open == IdsOf(NewBase(id), MissingOffsets(Marked(id), NewHead(id)))
<1>1. /\ Slide(id) \in 0 .. frame_size /\ frame_size \in Nat \ {0}
      /\ OffsetIn(id) \in Slots /\ IdAt(NewBase(id), OffsetIn(id)) = id
  BY SlideType, SlidId DEF TypeOK
<1>2. ASSUME NEW k \in Slots, k # OffsetIn(id), AtOffset(Marked(id), NewHead(id), k) # Arrived
      PROVE  IdAt(NewBase(id), k) \in open
  BY <1>2 DEF IdsOf, MissingOffsets, AtOffset
<1>3. now + nack_delay # Arrived
  BY DEF TypeOK, Arrived
<1>4. ASSUME NEW x \in Missing \ Passed(id) PROVE x \in open \cup {id}
  <2>1. PICK j \in MissingOffsets(pending_timestamps, pending_timestamp_index) : x = IdAt(pending_index, j)
    BY DEF Missing, IdsOf
  <2>2. j \in Slots /\ ~ (j < Slide(id))
        /\ AtOffset(pending_timestamps, pending_timestamp_index, j) # Arrived
    BY <1>4, <2>1 DEF Passed, IdsOf, MissingOffsets, AtOffset
  <2>3. PICK k \in Slots : k = j - Slide(id) /\ k < frame_size - Slide(id) /\ Slide(id) + k = j
    BY <1>1, <2>2 DEF Slots
  <2>4. x = IdAt(NewBase(id), k)
    BY <2>1, <2>3, SlidSlot
  <2>5. CASE k = OffsetIn(id)
    BY <1>1, <2>4, <2>5
  <2>6. CASE k # OffsetIn(id)
    BY <1>2, <2>2, <2>3, <2>4, <2>6, SlidSlot
  <2>7. QED
    BY <2>5, <2>6
<1>5. ASSUME NEW x \in Fresh(id) PROVE x \in open \cup {id}
  <2>1. PICK k \in Slots : k >= frame_size - Slide(id) /\ x = IdAt(NewBase(id), k)
    BY DEF Fresh, IdsOf
  <2>2. CASE k = OffsetIn(id)
    BY <1>1, <2>1, <2>2
  <2>3. CASE k # OffsetIn(id)
    BY <1>2, <1>3, <2>1, <2>3, SlidSlot
  <2>4. QED
    BY <2>2, <2>3
<1>6. ASSUME NEW x \in IdsOf(NewBase(id), Slots) PROVE x \in Fresh(id) \cup IdsOf(pending_index, Slots)
  <2>1. PICK k \in Slots : x = IdAt(NewBase(id), k)
    BY DEF IdsOf
  <2>2. CASE k >= frame_size - Slide(id)
    BY <2>1, <2>2 DEF Fresh, IdsOf
  <2>3. CASE k < frame_size - Slide(id)
    <3>1. Slide(id) + k \in Slots
      BY <1>1, <2>3 DEF Slots
    <3>2. QED
      BY <2>1, <3>1, SlidSlot DEF IdsOf
  <2>4. QED
    BY <1>1, <2>2, <2>3 DEF Slots
<1>7. QED
  BY <1>4, <1>5, <1>6
-----------------------------------------------------------------------------
(* After a scan the window waits for what the scan did not give up.        *)
LEMMA ScanMissing ==
  ASSUME TypeOK,
         NEW ts \in [Slots -> Nat \cup {Arrived}], NEW h \in Slots, NEW b \in Ids,
         NEW lost, NEW told, NEW queue, NEW fresh,
         Scan(ts, h, b, lost, told, queue, fresh),
         pending_index' = b, pending_timestamp_index' = h, frame_size' = frame_size
  PROVE  Missing' = IdsOf(b, MissingOffsets(ts, h) \ Expired(ts, h))
<1>1. \A k \in Slots : SlotAt(h, k, frame_size) \in Slots
  BY OffsetsType
<1>2. pending_timestamps' = [s \in Slots |-> IF ts[s] # Arrived /\ ts[s] + GiveUpAfter <= now
                                             THEN Arrived ELSE ts[s]]
  BY ScanMeans
<1>3. \A k \in Slots : pending_timestamps'[SlotAt(h, k, frame_size)] # Arrived
        <=> k \in MissingOffsets(ts, h) \ Expired(ts, h)
  BY <1>1, <1>2 DEF MissingOffsets, Expired, AtOffset
<1>4. {k \in Slots : pending_timestamps'[SlotAt(h, k, frame_size)] # Arrived}
        = MissingOffsets(ts, h) \ Expired(ts, h)
  BY <1>3 DEF MissingOffsets
<1>5. Missing' = IdsOf(b, {k \in Slots : pending_timestamps'[SlotAt(h, k, frame_size)] # Arrived})
  BY DEF Missing, MissingOffsets, IdsOf, Slots
<1>6. QED
  BY <1>4, <1>5

(* What a scan records as lost, and that what has arrived stays arrived.   *)
LEMMA ScanRecords ==
  ASSUME TypeOK,
         NEW ts \in [Slots -> Nat \cup {Arrived}], NEW h \in Slots, NEW b \in Ids,
         NEW lost, NEW told, NEW queue, NEW fresh,
         Scan(ts, h, b, lost, told, queue, fresh)
  PROVE  /\ (reported \ fresh) \cup told \cup lost \cup IdsOf(b, Expired(ts, h)) = reported'
         /\ temp_lost_packets' = {}
         /\ \A s \in Slots : ts[s] = Arrived => pending_timestamps'[s] = Arrived
<1> DEFINE missing == MissingOffsets(ts, h)
           overdue == {k \in missing : AtOffset(ts, h, k) <= now}
           expired == {k \in overdue : now - AtOffset(ts, h, k) >= GiveUpAfter}
<1>1. expired = Expired(ts, h)
  BY OffsetsMean
<1>2. /\ temp_lost_packets' = {}
      /\ reported' = (reported \ fresh) \cup told \cup (lost \cup IdsOf(b, expired))
  BY DEF Scan, AtOffset
<1>3. \A s \in Slots : ts[s] = Arrived => pending_timestamps'[s] = Arrived
  BY DEF Scan
<1> HIDE DEF missing, overdue, expired
<1>4. QED
  BY <1>1, <1>2, <1>3

(* Different offsets of a window name different ids, so what is given up,   *)
(* what is asked for again and what is still waited for are kept apart.    *)
LEMMA OffsetsApart ==
  ASSUME TypeOK, NEW b \in Ids, NEW K \in SUBSET Slots, NEW L \in SUBSET Slots, K \cap L = {}
  PROVE  IdsOf(b, K) \cap IdsOf(b, L) = {}
<1>1. SUFFICES ASSUME NEW k \in K, NEW l \in L, IdAt(b, k) = IdAt(b, l) PROVE FALSE
  BY DEF IdsOf
<1>2. k \in 0 .. Modulus - 1 /\ l \in 0 .. Modulus - 1 /\ k # l
  BY DEF TypeOK, Slots
<1>3. QED
  BY <1>1, <1>2, IdAtInjective
-----------------------------------------------------------------------------
(***************************************************************************)
(* NothingForgotten.                                                       *)
(***************************************************************************)
Announced == UNION {events'[i].ids : i \in Sent("PacketTimedOut")}

LEMMA AnnouncedEvents ==
  ASSUME NEW S, Event("PacketTimedOut", S) \in Appended(events, events')
  PROVE  S \subseteq Announced
<1>1. Event("PacketTimedOut", S).kind = "PacketTimedOut" /\ Event("PacketTimedOut", S).ids = S
  BY DEF Event
<1>2. PICK i \in Len(events) + 1 .. Len(events') : events'[i] = Event("PacketTimedOut", S)
  BY DEF Appended
<1>3. i \in Sent("PacketTimedOut")
  BY <1>1, <1>2 DEF Sent
<1>4. QED
  BY <1>1, <1>2, <1>3 DEF Announced

(* A scan either keeps waiting or announces.                               *)
LEMMA ScanForgetsNothing ==
  ASSUME TypeOK,
         NEW ts \in [Slots -> Nat \cup {Arrived}], NEW h \in Slots, NEW b \in Ids,
         NEW lost \in SUBSET Ids, NEW told, NEW queue \in Seq(Events), NEW fresh,
         Scan(ts, h, b, lost, told, queue, fresh), Len(events) <= Len(queue),
         pending_index' = b, pending_timestamp_index' = h, frame_size' = frame_size
  PROVE  IdsOf(b, MissingOffsets(ts, h)) \subseteq Missing' \cup Announced
<1> DEFINE gone == lost \cup IdsOf(b, Expired(ts, h))
<1>1. IdsOf(b, MissingOffsets(ts, h)) \subseteq Missing' \cup gone
  BY ScanMissing DEF IdsOf
<1>2. gone # {} => Event("PacketTimedOut", gone) \in Appended(events, events')
  BY ScanSends, Zenon
<1>3. gone \subseteq Announced
  BY <1>2, AnnouncedEvents
<1>4. QED
  BY <1>1, <1>3

LEMMA AdvanceForgetsNothing ==
  ASSUME TypeOK, ClippingWide, NEW id \in Ids, Advance(id)
  PROVE  Missing \subseteq Missing' \cup received' \cup Announced
<1> DEFINE gone == IF Slide(id) # 0 THEN temp_lost_packets \cup Passed(id) ELSE {}
           kept == IF Slide(id) # 0 THEN {} ELSE temp_lost_packets
           queue == events \o EventIf("PacketTimedOut", gone)
           open == IdsOf(NewBase(id), MissingOffsets(Marked(id), NewHead(id)))
<1>1. /\ Marked(id) \in [Slots -> Nat \cup {Arrived}]
      /\ NewHead(id) \in Slots /\ NewBase(id) \in Ids
      /\ gone \in SUBSET Ids /\ kept \in SUBSET Ids
      /\ queue \in Seq(Events) /\ Len(events) <= Len(queue)
      /\ Appended(events, queue) = IF gone = {} THEN {} ELSE {Event("PacketTimedOut", gone)}
      /\ \/ pending_timestamps' = Marked(id) /\ events' = queue
         \/ Scan(Marked(id), NewHead(id), NewBase(id), kept, gone, queue, Fresh(id))
  BY AdvanceArguments
<1>2. /\ ~ TimedOut /\ ~ TooOld(id) /\ ~ Gapped(id) /\ id \in received'
      /\ pending_index' = NewBase(id) /\ pending_timestamp_index' = NewHead(id)
      /\ frame_size' = frame_size
  BY DEF Advance
<1>3. Missing \subseteq open \cup {id} \cup Passed(id)
  BY <1>2, SlidKeeps
<1>4. Passed(id) \subseteq gone
  BY <1>2, FreshIsNew, SlideType DEF Passed, IdsOf, MissingOffsets, Slots
<1> HIDE DEF gone, kept, queue, open
<1>5. CASE pending_timestamps' = Marked(id) /\ events' = queue
  <2>1. Missing' = open
    BY <1>2, <1>5 DEF Missing, MissingOffsets, IdsOf, Slots, open
  <2>2. gone \subseteq Announced
    BY <1>1, <1>5, AnnouncedEvents
  <2>3. QED
    BY <1>2, <1>3, <1>4, <2>1, <2>2
<1>6. CASE Scan(Marked(id), NewHead(id), NewBase(id), kept, gone, queue, Fresh(id))
  <2>1. open \subseteq Missing' \cup Announced
    BY <1>1, <1>2, <1>6, ScanForgetsNothing DEF open
  <2>2. Appended(events, queue) \subseteq Appended(events, events')
    BY <1>1, <1>6, ScanSends, Zenon
  <2>3. gone \subseteq Announced
    BY <1>1, <2>2, AnnouncedEvents
  <2>4. QED
    BY <1>2, <1>3, <1>4, <2>1, <2>3
<1>7. QED
  BY <1>1, <1>5, <1>6

(* Nothing RtpPacketResendRequester waits for is dropped in silence: in the *)
(* step that stops waiting for it the id arrives, is announced as lost or is *)
(* set aside to be announced.                                              *)
THEOREM NoneForgotten == ASSUME ClippingWide PROVE Spec => NothingForgotten
<1>1. TypeOK /\ TypeOK' /\ [Next]_vars =>
        Missing \subseteq Missing' \cup received' \cup temp_lost_packets' \cup Announced
  <2> SUFFICES ASSUME TypeOK, TypeOK', [Next]_vars
               PROVE  Missing \subseteq Missing' \cup received' \cup temp_lost_packets' \cup Announced
    OBVIOUS
  <2>1. CASE UNCHANGED <<frame_size, pending_timestamps, pending_timestamp_index, pending_index>>
    BY <2>1 DEF Missing, MissingOffsets, IdsOf, Slots
  <2>2. CASE BeginPoll \/ TakeEvent \/ TimerPending \/ Sleep \/ Tick
    BY <2>1, <2>2 DEF BeginPoll, TakeEvent, TimerPending, Sleep, Tick, window
  <2>3. CASE ChannelClosed \/ ResetResends
    BY <2>3 DEF ChannelClosed, ResetResends
  <2>4. ASSUME NEW n \in FrameSizes, SetFrameSize(n)
        PROVE  Missing \subseteq Announced
    <3> DEFINE gone == temp_lost_packets \cup Missing
    <3>1. Appended(events, events') = IF gone = {} THEN {} ELSE {Event("PacketTimedOut", gone)}
      BY <2>4, ResizeSends
    <3>2. gone \subseteq Announced
      BY <3>1, AnnouncedEvents
    <3>3. QED
      BY <3>2
  <2>5. ASSUME NEW d \in NackDelays, NEW i \in ResendIntervals, Configure(d, i)
        PROVE  Missing \subseteq Missing'
    BY <2>1, <2>5 DEF Configure, window, Missing, MissingOffsets, IdsOf, Slots
  <2>6. CASE TimerFires
    <3>1. /\ Scan(pending_timestamps, pending_timestamp_index, pending_index, temp_lost_packets,
                  {}, events, {})
          /\ frame_size' = frame_size
          /\ pending_timestamp_index' = pending_timestamp_index /\ pending_index' = pending_index
      BY <2>6 DEF TimerFires
    <3>2. /\ pending_timestamps \in [Slots -> Nat \cup {Arrived}]
          /\ pending_timestamp_index \in Slots /\ pending_index \in Ids
          /\ temp_lost_packets \in SUBSET Ids /\ events \in Seq(Events) /\ Len(events) <= Len(events)
      BY DEF TypeOK
    <3>3. Missing \subseteq Missing' \cup Announced
      BY <3>1, <3>2, ScanForgetsNothing DEF Missing
    <3>4. QED
      BY <3>3
  <2>7. ASSUME NEW id \in Ids, PacketReceived(id)
        PROVE  Missing \subseteq Missing' \cup received' \cup temp_lost_packets' \cup Announced
    <3>1. CASE IgnoreOld(id)
      BY <2>1, <3>1 DEF IgnoreOld, window
    <3>2. CASE Restart(id)
      <4> DEFINE gone == temp_lost_packets \cup Missing
      <4>1. (IF gone = {} THEN {} ELSE {Event("PacketTimedOut", gone)}) \subseteq Appended(events, events')
        BY <3>2, RestartSends
      <4>2. gone \subseteq Announced
        BY <4>1, AnnouncedEvents
      <4>3. QED
        BY <4>2
    <3>3. CASE Advance(id)
      BY <3>3, AdvanceForgetsNothing
    <3>4. QED
      BY <2>7, <3>1, <3>2, <3>3 DEF PacketReceived
  <2>8. CASE UNCHANGED vars
    BY <2>1, <2>8 DEF vars, window
  <2>9. QED
    BY <2>2, <2>3, <2>4, <2>5, <2>6, <2>7, <2>8 DEF Next, Poll, Application
<1>2. QED
  BY <1>1, TypeCorrect, PTL DEF Spec, NothingForgotten, Announced
-----------------------------------------------------------------------------
(***************************************************************************)
(* WindowConsistent.                                                       *)
(***************************************************************************)

(* A restarted window ends with the packet it starts at.                   *)
LEMMA RestartHoldsLast ==
  ASSUME NEW n \in FrameSizes, NEW id \in Ids
  PROVE  IdAt(WrappingSub(WrappingAdd(id, 1), n), n - 1) = id
BY DEF IdAt, WrappingAdd, WrappingSub, Ids, MaxValue

LEMMA RestartConsistent ==
  ASSUME TypeOK, NEW id \in Ids, Restart(id)
  PROVE  WindowConsistent'
<1> DEFINE base == WrappingSub(WrappingAdd(id, 1), frame_size)
<1>1. /\ pending_index' = base /\ assumed' = IdsOf(base, Slots) \ {id} /\ received' = {id}
      /\ pending_timestamps' = AllArrived(frame_size) /\ pending_timestamp_index' = 0
      /\ last_packet_id' = id /\ frame_size' = frame_size
  BY DEF Restart, Accept
<1>2. frame_size \in FrameSizes /\ frame_size \in Nat \ {0}
  BY DEF TypeOK
<1> HIDE DEF base
<1>3. WindowHoldsLast'
  <2>1. frame_size - 1 \in Slots /\ SlotAt(0, frame_size - 1, frame_size) \in 0 .. frame_size - 1
    BY <1>2 DEF Slots, SlotAt
  <2>2. IdAt(base, frame_size - 1) = id
    BY <1>2, RestartHoldsLast DEF base
  <2>3. pending_timestamps'[SlotAt(0, frame_size - 1, frame_size)] = Arrived
    BY <1>1, <2>1 DEF AllArrived
  <2>4. QED
    BY <1>1, <2>1, <2>2, <2>3 DEF WindowHoldsLast, Slots
<1>4. Accounted'
  BY <1>1 DEF Accounted, IdsOf, Slots
<1>5. QED
  BY <1>3, <1>4 DEF WindowConsistent

LEMMA AdvanceConsistent ==
  ASSUME TypeOK, ClippingWide, WindowConsistent, NEW id \in Ids, Advance(id)
  PROVE  WindowConsistent'
<1> DEFINE gone == IF Slide(id) # 0 THEN temp_lost_packets \cup Passed(id) ELSE {}
           kept == IF Slide(id) # 0 THEN {} ELSE temp_lost_packets
           queue == events \o EventIf("PacketTimedOut", gone)
           open == IdsOf(NewBase(id), MissingOffsets(Marked(id), NewHead(id)))
           last_slot == SlotAt(NewHead(id), OffsetIn(id), frame_size)
<1>1. /\ Marked(id) \in [Slots -> Nat \cup {Arrived}]
      /\ NewHead(id) \in Slots /\ NewBase(id) \in Ids
      /\ \/ /\ pending_timestamps' = Marked(id) /\ temp_lost_packets' = kept
            /\ reported' = (reported \ Fresh(id)) \cup gone
         \/ Scan(Marked(id), NewHead(id), NewBase(id), kept, gone, queue, Fresh(id))
  BY AdvanceArguments
<1>2. /\ ~ TimedOut /\ ~ TooOld(id) /\ ~ Gapped(id)
      /\ received' = (received \ Fresh(id)) \cup {id} /\ assumed' = assumed \ Fresh(id)
      /\ pending_index' = NewBase(id) /\ pending_timestamp_index' = NewHead(id)
      /\ frame_size' = frame_size /\ last_packet_id' = id
  BY DEF Advance, Accept
<1>3. Accounted
  BY <1>2 DEF TimedOut, WindowConsistent
<1>4. /\ OffsetIn(id) \in Slots /\ IdAt(NewBase(id), OffsetIn(id)) = id
      /\ Marked(id)[last_slot] = Arrived
  BY <1>2, SlidId, SlidSlot DEF AtOffset
<1>5. /\ Missing \ Passed(id) \subseteq open \cup {id} /\ Fresh(id) \subseteq open \cup {id}
      /\ IdsOf(NewBase(id), Slots) \subseteq Fresh(id) \cup IdsOf(pending_index, Slots)
  BY <1>2, SlidKeeps
<1>6. Passed(id) \subseteq gone /\ temp_lost_packets \subseteq kept \cup gone
  BY <1>2, FreshIsNew, SlideType DEF Passed, IdsOf, MissingOffsets, Slots
<1>7. last_slot \in Slots
  BY <1>1, <1>4, OffsetsType
<1> HIDE DEF gone, kept, queue, open, last_slot
<1>8. /\ pending_timestamps'[last_slot] = Arrived
      /\ open \cup gone \cup kept \cup (reported \ Fresh(id))
           \subseteq Missing' \cup reported' \cup temp_lost_packets'
  <2>1. CASE /\ pending_timestamps' = Marked(id) /\ temp_lost_packets' = kept
             /\ reported' = (reported \ Fresh(id)) \cup gone
    <3>1. Missing' = open
      BY <1>2, <2>1 DEF Missing, MissingOffsets, IdsOf, Slots, open
    <3>2. QED
      BY <1>4, <2>1, <3>1
  <2>2. CASE Scan(Marked(id), NewHead(id), NewBase(id), kept, gone, queue, Fresh(id))
    <3>1. open \subseteq Missing' \cup IdsOf(NewBase(id), Expired(Marked(id), NewHead(id)))
      BY <1>1, <1>2, <2>2, ScanMissing DEF IdsOf, open
    <3>2. /\ (reported \ Fresh(id)) \cup gone \cup kept
               \cup IdsOf(NewBase(id), Expired(Marked(id), NewHead(id))) = reported'
          /\ \A s \in Slots : Marked(id)[s] = Arrived => pending_timestamps'[s] = Arrived
      BY <1>1, <2>2, ScanRecords
    <3>3. pending_timestamps'[last_slot] = Arrived
      BY <1>4, <1>7, <3>2
    <3>4. kept \cup gone \cup (reported \ Fresh(id)) \subseteq reported'
      BY <3>2
    <3>5. open \subseteq Missing' \cup reported'
      BY <3>1, <3>2
    <3>6. QED
      BY <3>3, <3>4, <3>5
  <2>3. QED
    BY <1>1, <2>1, <2>2
<1>9. WindowHoldsLast'
  BY <1>2, <1>4, <1>8 DEF WindowHoldsLast, Slots, last_slot
<1>10. Accounted'
  <2>1. SUFFICES ASSUME NEW x \in IdsOf(NewBase(id), Slots)
                 PROVE  x \in received' \cup Missing' \cup reported' \cup temp_lost_packets' \cup assumed'
    BY <1>2 DEF Accounted, IdsOf, Slots
  <2>2. CASE x \in Fresh(id)
    BY <1>2, <1>5, <1>8, <2>2
  <2>3. CASE x \notin Fresh(id)
    <3>1. x \in received \cup Missing \cup reported \cup temp_lost_packets \cup assumed
      BY <1>3, <1>5, <2>3 DEF Accounted
    <3>2. QED
      BY <1>2, <1>5, <1>6, <1>8, <2>3, <3>1
  <2>4. QED
    BY <2>2, <2>3
<1>11. QED
  BY <1>9, <1>10 DEF WindowConsistent

(* The timer's scan gives up what it announces and loses nothing else.     *)
LEMMA FiringConsistent ==
  ASSUME TypeOK, WindowConsistent, TimerFires
  PROVE  WindowConsistent'
<1> DEFINE ts == pending_timestamps
           h  == pending_timestamp_index
           b  == pending_index
<1>1. /\ Scan(ts, h, b, temp_lost_packets, {}, events, {})
      /\ frame_size' = frame_size /\ UNCHANGED <<h, b, last, received, assumed>>
  BY DEF TimerFires
<1>2. ts \in [Slots -> Nat \cup {Arrived}] /\ h \in Slots /\ b \in Ids
  BY DEF TypeOK
<1>3. Missing' = IdsOf(b, MissingOffsets(ts, h) \ Expired(ts, h))
  BY <1>1, <1>2, ScanMissing
<1>4. /\ (reported \ {}) \cup {} \cup temp_lost_packets \cup IdsOf(b, Expired(ts, h)) = reported'
      /\ \A s \in Slots : ts[s] = Arrived => pending_timestamps'[s] = Arrived
  BY <1>1, <1>2, ScanRecords
<1>5. Missing \cup reported \cup temp_lost_packets \subseteq Missing' \cup reported'
  BY <1>3, <1>4 DEF Missing, IdsOf
<1>6. Accounted => Accounted'
  BY <1>1, <1>5 DEF Accounted, IdsOf, Slots
<1>7. WindowHoldsLast => WindowHoldsLast'
  <2>1. \A k \in Slots : SlotAt(h, k, frame_size) \in Slots
    BY <1>2, OffsetsType
  <2>2. QED
    BY <1>1, <1>4, <2>1 DEF WindowHoldsLast, last, Slots
<1>8. QED
  BY <1>1, <1>6, <1>7 DEF WindowConsistent, last

(* The window of RtpPacketResendRequester always holds the packet accepted  *)
(* last, and every id in it has arrived, is waited for, was announced or is *)
(* about to be, or was counted as arrived when the window restarted.       *)
THEOREM WindowSound == ASSUME ClippingWide PROVE Spec => []WindowConsistent
<1>1. Init => WindowConsistent
  BY DEF Init, WindowConsistent
<1>2. TypeOK /\ TypeOK' /\ WindowConsistent /\ [Next]_vars => WindowConsistent'
  <2> SUFFICES ASSUME TypeOK, TypeOK', WindowConsistent, [Next]_vars PROVE WindowConsistent'
    OBVIOUS
  <2>1. CASE UNCHANGED <<window, last, received, reported, assumed, temp_lost_packets>>
    BY <2>1 DEF WindowConsistent, WindowHoldsLast, Accounted, Missing, MissingOffsets, IdsOf, Slots,
                window, last
  <2>2. CASE BeginPoll \/ TakeEvent \/ TimerPending \/ Sleep \/ Tick
    BY <2>1, <2>2 DEF BeginPoll, TakeEvent, TimerPending, Sleep, Tick, history
  <2>3. CASE TimerFires
    BY <2>3, FiringConsistent
  <2>4. CASE ChannelClosed
    BY <2>4 DEF ChannelClosed, WindowConsistent
  <2>5. CASE ResetResends
    <3>1. /\ temp_lost_packets' = temp_lost_packets \cup Missing
          /\ pending_timestamps' = AllArrived(frame_size) /\ frame_size' = frame_size
          /\ UNCHANGED <<pending_timestamp_index, pending_index, last, received, reported, assumed>>
      BY <2>5 DEF ResetResends
    <3>2. Accounted => Accounted'
      BY <3>1 DEF Accounted, IdsOf, Slots
    <3>3. WindowHoldsLast => WindowHoldsLast'
      <4>1. \A k \in Slots : SlotAt(pending_timestamp_index, k, frame_size) \in Slots
        BY OffsetsType DEF TypeOK
      <4>2. QED
        BY <3>1, <4>1 DEF WindowHoldsLast, last, Slots, AllArrived
    <3>4. QED
      BY <3>1, <3>2, <3>3 DEF WindowConsistent, last
  <2>6. ASSUME NEW n \in FrameSizes, SetFrameSize(n) PROVE WindowConsistent'
    BY <2>6 DEF SetFrameSize, WindowConsistent
  <2>7. ASSUME NEW d \in NackDelays, NEW i \in ResendIntervals, Configure(d, i) PROVE WindowConsistent'
    BY <2>1, <2>7 DEF Configure, history
  <2>8. ASSUME NEW id \in Ids, PacketReceived(id) PROVE WindowConsistent'
    <3>1. CASE IgnoreOld(id)
      BY <3>1 DEF IgnoreOld, WindowConsistent, WindowHoldsLast, Accounted, Missing, MissingOffsets,
                  IdsOf, Slots, window, last
    <3>2. CASE Restart(id)
      BY <3>2, RestartConsistent
    <3>3. CASE Advance(id)
      BY <3>3, AdvanceConsistent
    <3>4. QED
      BY <2>8, <3>1, <3>2, <3>3 DEF PacketReceived
  <2>9. CASE UNCHANGED vars
    BY <2>1, <2>9 DEF vars, history
  <2>10. QED
    BY <2>2, <2>3, <2>4, <2>5, <2>6, <2>7, <2>8, <2>9 DEF Next, Poll, Application
<1>3. QED
  BY <1>1, <1>2, TypeCorrect, PTL DEF Spec
-----------------------------------------------------------------------------
(***************************************************************************)
(* EventsTruthful.  Beside Tracking it needs that no packet can arrive     *)
(* between the moment an id is set aside and its announcement: no timer    *)
(* runs then, so the next packet of the window announces it.               *)
(***************************************************************************)
SetAside == /\ temp_lost_packets \cap received = {}
            /\ temp_lost_packets # {} => resend_delay = Never

SetAsideStep == TypeOK /\ TypeOK' /\ Tracking /\ SetAside /\ [Next]_vars => SetAside'

LEMMA SetAsideKept == ASSUME ClippingWide PROVE SetAsideStep
<1> SUFFICES ASSUME TypeOK, TypeOK', Tracking, SetAside, [Next]_vars PROVE SetAside'
  BY DEF SetAsideStep
<1>1. CASE UNCHANGED <<temp_lost_packets, received, resend_delay>>
  BY <1>1 DEF SetAside
<1>2. CASE temp_lost_packets' = {}
  BY <1>2 DEF SetAside
<1>3. CASE BeginPoll \/ TakeEvent \/ TimerPending \/ Sleep \/ Tick
  BY <1>1, <1>3 DEF BeginPoll, TakeEvent, TimerPending, Sleep, Tick, timer, history
<1>4. CASE TimerFires
  BY <1>2, <1>4 DEF TimerFires, Scan
<1>5. CASE ChannelClosed \/ ResetResends
  BY <1>5 DEF ChannelClosed, ResetResends, SetAside, Tracking
<1>6. ASSUME NEW n \in FrameSizes, SetFrameSize(n) PROVE SetAside'
  BY <1>2, <1>6 DEF SetFrameSize
<1>7. ASSUME NEW d \in NackDelays, NEW i \in ResendIntervals, Configure(d, i) PROVE SetAside'
  BY <1>1, <1>7 DEF Configure, timer, history
<1>8. ASSUME NEW id \in Ids, PacketReceived(id) PROVE SetAside'
  <2>1. pc # "ended"
    BY <1>8 DEF PacketReceived
  <2>2. CASE IgnoreOld(id)
    <3>1. frame_size \in FrameSizes /\ pending_index \in Ids /\ IsLess(id, pending_index, ClippingWindow)
      BY <2>2 DEF TypeOK, IgnoreOld, TooOld
    <3>2. id \notin IdsOf(pending_index, Slots)
      BY <3>1, LessIsOutside DEF IdsOf, Slots
    <3>3. id \notin temp_lost_packets
      BY <2>1, <3>2 DEF Tracking
    <3>4. QED
      BY <2>2, <3>3 DEF IgnoreOld, timer, SetAside
  <2>3. CASE Restart(id)
    BY <1>2, <2>3 DEF Restart
  <2>4. CASE Advance(id)
    <3>1. resend_delay # Never => temp_lost_packets = {}
      BY DEF SetAside
    <3>2. \/ resend_delay # Never
             /\ temp_lost_packets' = IF Slide(id) # 0 THEN {} ELSE temp_lost_packets
          \/ temp_lost_packets' = {}
      BY <2>4 DEF Advance, ScanUnlessScheduled, Scan
    <3>3. QED
      BY <1>2, <3>1, <3>2
  <2>5. QED
    BY <1>8, <2>2, <2>3, <2>4 DEF PacketReceived
<1>9. CASE UNCHANGED vars
  BY <1>1, <1>9 DEF vars, timer, history
<1>10. QED
  BY <1>3, <1>4, <1>5, <1>6, <1>7, <1>8, <1>9 DEF Next, Poll, Application

(* The two conjuncts of EventsTruthful, on the events a step appends.      *)
Truthful(e) ==
  /\ e.kind = "ResendPackets" => e.ids \cap (received' \cup reported') = {}
  /\ e.kind = "PacketTimedOut" => e.ids \cap (received \cup reported) = {}

LEMMA TruthfulLoss ==
  ASSUME NEW S, S \cap (received \cup reported) = {}
  PROVE  Truthful(Event("PacketTimedOut", S))
BY DEF Truthful, Event

LEMMA TruthfulRequest ==
  ASSUME NEW S, S \cap (received' \cup reported') = {}
  PROVE  Truthful(Event("ResendPackets", S))
BY DEF Truthful, Event

(* What the window waits for, what is set aside: all of it may be announced. *)
LEMMA LossIsTrue ==
  ASSUME Tracking, SetAside
  PROVE  (temp_lost_packets \cup Missing) \cap (received \cup reported) = {}
BY DEF Tracking, SetAside

LEMMA FiringTruthful ==
  ASSUME TypeOK, Tracking, SetAside, TimerFires
  PROVE  \A e \in Appended(events, events') : Truthful(e)
<1> DEFINE ts == pending_timestamps
           h  == pending_timestamp_index
           b  == pending_index
           gone  == temp_lost_packets \cup IdsOf(b, Expired(ts, h))
           again == IdsOf(b, Again(ts, h))
<1>1. /\ Scan(ts, h, b, temp_lost_packets, {}, events, {}) /\ received' = received
      /\ ts \in [Slots -> Nat \cup {Arrived}] /\ h \in Slots /\ b \in Ids
      /\ temp_lost_packets \in SUBSET Ids /\ events \in Seq(Events) /\ Len(events) <= Len(events)
      /\ Appended(events, events) = {}
  BY DEF TimerFires, TypeOK, Appended
<1>2. (reported \ {}) \cup {} \cup temp_lost_packets \cup IdsOf(b, Expired(ts, h)) = reported'
  BY <1>1, ScanRecords
<1>3. IdsOf(b, Expired(ts, h)) \subseteq Missing /\ again \subseteq Missing
  BY DEF Missing, IdsOf, Expired, Again
<1>4. again \cap IdsOf(b, Expired(ts, h)) = {}
  <2>1. Expired(ts, h) \in SUBSET Slots /\ Again(ts, h) \in SUBSET Slots
        /\ Again(ts, h) \cap Expired(ts, h) = {}
    BY <1>1, OffsetsType DEF Expired, Again, MissingOffsets
  <2>2. QED
    BY <1>1, <2>1, OffsetsApart
<1>5. gone \cap (received \cup reported) = {}
  BY <1>3, LossIsTrue
<1>6. again \cap (received' \cup reported') = {}
  BY <1>1, <1>2, <1>3, <1>4 DEF Tracking
<1>7. \A e \in Appended(events, events') :
         e = Event("PacketTimedOut", gone) \/ e = Event("ResendPackets", again)
  <2> HIDE DEF ts, h, b
  <2>1. QED
    BY <1>1, ScanSends, Zenon
<1> HIDE DEF gone, again
<1>8. QED
  BY <1>5, <1>6, <1>7, TruthfulLoss, TruthfulRequest

LEMMA AdvanceTruthful ==
  ASSUME TypeOK, ClippingWide, Tracking, SetAside, NEW id \in Ids, Advance(id), pc # "ended"
  PROVE  \A e \in Appended(events, events') : Truthful(e)
<1> DEFINE gone == IF Slide(id) # 0 THEN temp_lost_packets \cup Passed(id) ELSE {}
           kept == IF Slide(id) # 0 THEN {} ELSE temp_lost_packets
           queue == events \o EventIf("PacketTimedOut", gone)
           ts == Marked(id)
           h  == NewHead(id)
           b  == NewBase(id)
           open == IdsOf(b, MissingOffsets(ts, h))
           lost == kept \cup IdsOf(b, Expired(ts, h))
           again == IdsOf(b, Again(ts, h))
<1>1. /\ ts \in [Slots -> Nat \cup {Arrived}] /\ h \in Slots /\ b \in Ids
      /\ gone \in SUBSET Ids /\ kept \in SUBSET Ids
      /\ queue \in Seq(Events) /\ Len(events) <= Len(queue)
      /\ Appended(events, queue) = IF gone = {} THEN {} ELSE {Event("PacketTimedOut", gone)}
      /\ \/ events' = queue
         \/ Scan(ts, h, b, kept, gone, queue, Fresh(id))
  BY AdvanceArguments
<1>2. ~ TimedOut /\ ~ TooOld(id) /\ ~ Gapped(id)
  BY DEF Advance
<1>3. open \cap received' = {} /\ open \cap (kept \cup gone \cup (reported \ Fresh(id))) = {}
  BY OpenApart
<1>4. Passed(id) \subseteq Missing
  BY <1>2, FreshIsNew
<1>5. IdsOf(b, Expired(ts, h)) \subseteq Missing
  <2>1. SUFFICES ASSUME NEW k \in Expired(ts, h) PROVE IdAt(b, k) \in Missing
    BY DEF IdsOf
  <2>2. k \in MissingOffsets(ts, h) /\ AtOffset(ts, h, k) + GiveUpAfter <= now
    BY DEF Expired
  <2>3. AtOffset(ts, h, k) # now + nack_delay
    <3>1. now \in Nat /\ nack_delay \in Nat /\ GiveUpAfter \in Nat \ {0}
      BY DEF TypeOK
    <3>2. QED
      BY <2>2, <3>1
  <2>4. QED
    BY <1>2, <2>2, <2>3, SlidOpen
<1>6. again \subseteq open /\ again \cap IdsOf(b, Expired(ts, h)) = {}
  <2>1. Expired(ts, h) \in SUBSET Slots /\ Again(ts, h) \in SUBSET Slots
        /\ Again(ts, h) \cap Expired(ts, h) = {}
    BY <1>1, OffsetsType DEF Expired, Again, MissingOffsets
  <2>2. again \cap IdsOf(b, Expired(ts, h)) = {}
    BY <1>1, <2>1, OffsetsApart
  <2>3. again \subseteq open
    BY DEF IdsOf, Again
  <2>4. QED
    BY <2>2, <2>3
<1>7. gone \cap (received \cup reported) = {} /\ lost \cap (received \cup reported) = {}
  BY <1>4, <1>5, LossIsTrue
<1> HIDE DEF gone, kept, queue, ts, h, b, open, again
<1>8. CASE events' = queue
  BY <1>1, <1>7, <1>8, TruthfulLoss
<1>9. CASE Scan(ts, h, b, kept, gone, queue, Fresh(id))
  <2>1. (reported \ Fresh(id)) \cup gone \cup kept \cup IdsOf(b, Expired(ts, h)) = reported'
    BY <1>1, <1>9, ScanRecords
  <2>2. again \cap (received' \cup reported') = {}
    BY <1>3, <1>6, <2>1
  <2>3. ASSUME NEW e \in Appended(events, events')
        PROVE  \/ e \in Appended(events, queue)
               \/ e = Event("PacketTimedOut", lost) \/ e = Event("ResendPackets", again)
    BY <1>1, <1>9, ScanSends, Zenon DEF again
  <2> HIDE DEF lost
  <2>4. QED
    BY <1>1, <1>7, <2>2, <2>3, TruthfulLoss, TruthfulRequest
<1>10. QED
  BY <1>1, <1>8, <1>9

(* The events RtpPacketResendRequester sends are true when it sends them: it *)
(* asks again only for ids that neither arrived nor were announced as lost, *)
(* and announces no id that arrived before or was announced before.        *)
THEOREM EventsTellTruth == ASSUME ClippingWide PROVE Spec => EventsTruthful
<1>1. Init => SetAside
  BY DEF Init, SetAside
<1>2. SetAsideStep
  BY SetAsideKept
<1>3. TypeOK /\ Tracking /\ SetAside /\ [Next]_vars =>
        /\ \A i \in Sent("ResendPackets") : events'[i].ids \cap (received' \cup reported') = {}
        /\ \A i \in Sent("PacketTimedOut") : events'[i].ids \cap (received \cup reported) = {}
  <2> SUFFICES ASSUME TypeOK, Tracking, SetAside, [Next]_vars
               PROVE  \A e \in Appended(events, events') : Truthful(e)
    BY DEF Sent, Appended, Truthful
  <2>1. CASE Appended(events, events') = {}
    BY <2>1
  <2>2. CASE BeginPoll \/ TakeEvent \/ TimerPending \/ Sleep \/ Tick \/ ChannelClosed \/ ResetResends
    BY <2>1, <2>2, OthersSendNothing
  <2>3. CASE TimerFires
    BY <2>3, FiringTruthful
  <2>4. ASSUME NEW n \in FrameSizes, SetFrameSize(n)
        PROVE  \A e \in Appended(events, events') : Truthful(e)
    <3>1. (temp_lost_packets \cup Missing) \cap (received \cup reported) = {}
      BY LossIsTrue
    <3>2. \A e \in Appended(events, events') : e = Event("PacketTimedOut", temp_lost_packets \cup Missing)
      BY <2>4, ResizeSends
    <3>3. QED
      BY <3>1, <3>2, TruthfulLoss
  <2>5. ASSUME NEW d \in NackDelays, NEW i \in ResendIntervals, Configure(d, i)
        PROVE  \A e \in Appended(events, events') : Truthful(e)
    BY <2>1, <2>5, OthersSendNothing
  <2>6. ASSUME NEW id \in Ids, PacketReceived(id)
        PROVE  \A e \in Appended(events, events') : Truthful(e)
    <3>1. pc # "ended" /\ (IgnoreOld(id) \/ Restart(id) \/ Advance(id))
      BY <2>6 DEF PacketReceived
    <3>2. CASE IgnoreOld(id)
      BY <2>1, <3>2, OthersSendNothing
    <3>3. CASE Restart(id)
      <4>1. (temp_lost_packets \cup Missing) \cap (received \cup reported) = {}
        BY LossIsTrue
      <4>2. \A e \in Appended(events, events') :
              \/ e = Event("PacketTimedOut", temp_lost_packets \cup Missing)
              \/ e = Event("SequenceTimedOut", {}) \/ e = Event("SequenceGapped", {})
        BY <3>3, RestartSends
      <4>3. Truthful(Event("SequenceTimedOut", {})) /\ Truthful(Event("SequenceGapped", {}))
        BY DEF Truthful, Event
      <4>4. QED
        BY <4>1, <4>2, <4>3, TruthfulLoss
    <3>4. CASE Advance(id)
      BY <3>1, <3>4, AdvanceTruthful
    <3>5. QED
      BY <3>1, <3>2, <3>3, <3>4
  <2>7. CASE UNCHANGED vars
    BY <2>1, <2>7, OthersSendNothing
  <2>8. QED
    BY <2>2, <2>3, <2>4, <2>5, <2>6, <2>7 DEF Next, Poll, Application
<1>4. Spec => []Tracking
  BY OneFate
<1>5. QED
  BY <1>1, <1>2, <1>3, <1>4, TypeCorrect, PTL DEF Spec, EventsTruthful, SetAsideStep
-----------------------------------------------------------------------------
(***************************************************************************)
(* MissingBounded.  The settings it needs (25 ms and 5 ms by default       *)
(* against a watcher of 5 s): a longer resend interval or NACK delay would *)
(* keep the timer set beyond the moment a packet is to be given up.        *)
(***************************************************************************)
Horizon == GiveUpAfter + WatchInterval

DelaysShort ==
  /\ \A i \in ResendIntervals : i <= WatchInterval
  /\ \A d \in NackDelays : d <= Horizon

(* The invariant: while a packet is missing, a timer is set for a moment   *)
(* not after its horizon, and as long as no poll has armed that timer the  *)
(* watcher wakes the receiver before the horizon.                          *)
OnTime(t) ==
  /\ t <= now + Horizon
  /\ resend_delay # Never /\ resend_delay <= t + Horizon
  /\ ~ armed => watch <= t + Horizon
  /\ now <= t + Horizon + late

Timely ==
  /\ watch <= now + WatchInterval
  /\ resend_delay # Never => resend_delay <= now + Horizon
  /\ \A s \in Slots : pending_timestamps[s] # Arrived => OnTime(pending_timestamps[s])

LEMMA SlotHasOffset ==
  ASSUME NEW n \in Nat \ {0}, NEW h \in 0 .. n - 1, NEW s \in 0 .. n - 1
  PROVE  \E k \in 0 .. n - 1 : SlotAt(h, k, n) = s
<1>1. CASE s >= h
  <2>1. s - h \in 0 .. n - 1 /\ SlotAt(h, s - h, n) = s
    BY <1>1 DEF SlotAt
  <2>2. QED
    BY <2>1
<1>2. CASE s < h
  <2>1. s - h + n \in 0 .. n - 1 /\ SlotAt(h, s - h + n, n) = s
    BY <1>2 DEF SlotAt
  <2>2. QED
    BY <2>1
<1>3. QED
  BY <1>1, <1>2

(* A scan gives up what is overdue and sets the timer for the rest.        *)
LEMMA ScanTimely ==
  ASSUME TypeOK, DelaysShort,
         NEW ts \in [Slots -> Nat \cup {Arrived}], NEW h \in Slots, NEW b \in Ids,
         NEW lost, NEW told, NEW queue, NEW fresh,
         Scan(ts, h, b, lost, told, queue, fresh),
         \A s \in Slots : ts[s] # Arrived => ts[s] <= now + Horizon,
         watch' \in Nat, watch' <= now + WatchInterval,
         now' = now, late' = late, frame_size' = frame_size
  PROVE  Timely'
<1>1. /\ now \in Nat /\ late \in Nat /\ frame_size \in Nat \ {0} /\ Horizon \in Nat
      /\ GiveUpAfter \in Nat /\ WatchInterval \in Nat /\ Horizon = GiveUpAfter + WatchInterval
      /\ resend_request_interval \in Nat /\ resend_request_interval <= WatchInterval
  BY DEF TypeOK, DelaysShort, Horizon
<1>2. /\ \A k \in Slots : SlotAt(h, k, frame_size) \in Slots
      /\ \A k \in MissingOffsets(ts, h) : AtOffset(ts, h, k) \in Nat
      /\ MissingOffsets(ts, h) = Expired(ts, h) \cup Again(ts, h) \cup Later(ts, h)
  BY OffsetsType
<1>3. armed' = FALSE
  BY ScanMeans
<1>4. \A k \in Later(ts, h) : AtOffset(ts, h, k) <= now + Horizon /\ AtOffset(ts, h, k) \in Nat
  BY <1>2 DEF Later, MissingOffsets, AtOffset
<1>5. resend_delay' # Never => resend_delay' <= now + Horizon
  BY <1>1, <1>4, ScanRearms
<1>6. ASSUME NEW s \in Slots, pending_timestamps'[s] # Arrived
      PROVE  OnTime(pending_timestamps[s])'
  <2>1. ts[s] # Arrived /\ ~ (ts[s] + GiveUpAfter <= now) /\ pending_timestamps'[s] = ts[s]
    BY <1>6, ScanMeans
  <2>2. PICK k \in Slots : SlotAt(h, k, frame_size) = s
    BY <1>1, SlotHasOffset DEF Slots
  <2>3. AtOffset(ts, h, k) = ts[s] /\ k \in MissingOffsets(ts, h)
    BY <2>1, <2>2 DEF AtOffset, MissingOffsets
  <2>4. k \in Again(ts, h) \cup Later(ts, h)
    BY <1>2, <2>1, <2>3 DEF Expired
  <2>5. ts[s] \in Nat /\ ts[s] <= now + Horizon
    BY <2>1
  <2>6. resend_delay' # Never /\ resend_delay' <= ts[s] + Horizon
    <3>1. CASE Again(ts, h) # {}
      <4>1. resend_delay' = now + resend_request_interval
        BY <3>1, ScanRearms
      <4>2. QED
        BY <1>1, <2>1, <2>5, <4>1 DEF Never
    <3>2. CASE Again(ts, h) = {}
      <4>1. k \in Later(ts, h)
        BY <2>4, <3>2
      <4>2. /\ resend_delay' <= AtOffset(ts, h, k)
            /\ \E j \in Later(ts, h) : resend_delay' = AtOffset(ts, h, j)
        BY <3>2, <4>1, ScanRearms
      <4>3. resend_delay' \in Nat
        BY <1>4, <4>2
      <4>4. QED
        BY <1>1, <2>3, <2>5, <4>2, <4>3 DEF Never
    <3>3. QED
      BY <3>1, <3>2
  <2>7. watch' <= ts[s] + Horizon /\ now <= ts[s] + Horizon + late
    BY <1>1, <2>1, <2>5
  <2>8. QED
    BY <2>1, <2>5, <2>6, <2>7 DEF OnTime, Horizon
<1>7. QED
  BY <1>5, <1>6 DEF Timely, Slots, Horizon

(* The marked ring expects what it expected before and fresh ids from now on. *)
LEMMA MarkedTimely ==
  ASSUME TypeOK, DelaysShort, Timely, NEW id \in Ids, Advance(id)
  PROVE  \A s \in Slots : Marked(id)[s] # Arrived =>
           \/ Marked(id)[s] = now + nack_delay
           \/ pending_timestamps[s] # Arrived /\ Marked(id)[s] = pending_timestamps[s]
BY DEF Marked

LEMMA AdvanceTimely ==
  ASSUME TypeOK, DelaysShort, Timely, NEW id \in Ids, PacketReceived(id), Advance(id)
  PROVE  Timely'
<1> DEFINE gone == IF Slide(id) # 0 THEN temp_lost_packets \cup Passed(id) ELSE {}
           kept == IF Slide(id) # 0 THEN {} ELSE temp_lost_packets
           queue == events \o EventIf("PacketTimedOut", gone)
           ts == Marked(id)
<1>1. /\ ts \in [Slots -> Nat \cup {Arrived}] /\ NewHead(id) \in Slots /\ NewBase(id) \in Ids
      /\ \/ resend_delay # Never /\ pending_timestamps' = ts /\ UNCHANGED timer
         \/ Scan(ts, NewHead(id), NewBase(id), kept, gone, queue, Fresh(id))
  BY AdvanceArguments
<1>2. UNCHANGED <<now, late, watch, frame_size>>
  BY DEF PacketReceived, Advance
<1>3. /\ now \in Nat /\ late \in Nat /\ watch \in Nat /\ nack_delay \in Nat
      /\ GiveUpAfter \in Nat /\ WatchInterval \in Nat /\ nack_delay <= Horizon
      /\ resend_delay \in Times /\ Horizon \in Nat /\ Horizon = GiveUpAfter + WatchInterval
      /\ watch <= now + WatchInterval /\ (resend_delay # Never => resend_delay <= now + Horizon)
  BY DEF TypeOK, DelaysShort, Horizon, Timely
<1>4. \A s \in Slots : ts[s] # Arrived =>
        \/ ts[s] = now + nack_delay
        \/ pending_timestamps[s] # Arrived /\ ts[s] = pending_timestamps[s]
  BY MarkedTimely
<1> HIDE DEF gone, kept, queue, ts
<1>5. CASE resend_delay # Never /\ pending_timestamps' = ts /\ UNCHANGED timer
  <2>1. ASSUME NEW s \in Slots, ts[s] # Arrived PROVE OnTime(ts[s])
    <3>1. CASE ts[s] = now + nack_delay
      BY <1>3, <1>5, <3>1 DEF OnTime, Times, Never
    <3>2. CASE pending_timestamps[s] # Arrived /\ ts[s] = pending_timestamps[s]
      BY <3>2 DEF Timely
    <3>3. QED
      BY <1>4, <2>1, <3>1, <3>2
  <2>2. QED
    BY <1>2, <1>3, <1>5, <2>1 DEF Timely, OnTime, Slots, timer
<1>6. CASE Scan(ts, NewHead(id), NewBase(id), kept, gone, queue, Fresh(id))
  <2>1. \A s \in Slots : ts[s] # Arrived => ts[s] <= now + Horizon
    BY <1>3, <1>4 DEF Timely, OnTime
  <2>2. QED
    BY <1>1, <1>2, <1>3, <1>6, <2>1, ScanTimely
<1>7. QED
  BY <1>1, <1>5, <1>6

(* A ring that waits for nothing is on time.                               *)
LEMMA EmptyTimely ==
  ASSUME TypeOK, TypeOK', Timely, pending_timestamps' = AllArrived(frame_size'),
         UNCHANGED <<now, watch>>, resend_delay' = Never \/ resend_delay' = resend_delay
  PROVE  Timely'
BY DEF Timely, AllArrived, Slots

(* MediaReceiver gives a missing packet up in time: no later than the       *)
(* give-up time and one period of its watcher after the packet was expected, *)
(* plus what the executor left the woken task waiting.                     *)
THEOREM GivenUpInTime == ASSUME DelaysShort PROVE Spec => []MissingBounded
<1>1. Init => Timely
  BY DEF Init, Timely, AllArrived, Slots, Horizon
<1>2. TypeOK /\ TypeOK' /\ Timely /\ [Next]_vars => Timely'
  <2> SUFFICES ASSUME TypeOK, TypeOK', Timely, [Next]_vars PROVE Timely'
    OBVIOUS
  <2>1. now \in Nat /\ late \in Nat /\ watch \in Nat /\ resend_delay \in Times
        /\ GiveUpAfter \in Nat /\ WatchInterval \in Nat /\ Horizon \in Nat
    BY DEF TypeOK, Horizon
  <2>2. CASE UNCHANGED <<now, late, watch, frame_size, pending_timestamps, resend_delay, armed>>
    BY <2>2 DEF Timely, OnTime, Slots
  <2>3. CASE BeginPoll \/ TakeEvent \/ Sleep
    BY <2>2, <2>3 DEF BeginPoll, TakeEvent, Sleep, window, timer
  <2>4. CASE TimerPending
    <3>1. /\ armed' = (resend_delay # Never) /\ watch' <= now + WatchInterval
          /\ UNCHANGED <<now, late, frame_size, pending_timestamps, resend_delay>>
      BY <2>1, <2>4 DEF TimerPending, WatchTaken, window, Timely
    <3>2. QED
      BY <3>1 DEF Timely, OnTime, Slots
  <2>5. CASE Tick
    <3>1. /\ now' = now + 1 /\ IF WakeDue THEN late' = late + 1 ELSE late' = late
          /\ UNCHANGED <<watch, frame_size, pending_timestamps, resend_delay, armed>>
      BY <2>5 DEF Tick, window, timer
    <3>2. ASSUME NEW s \in Slots, pending_timestamps[s] # Arrived
          PROVE  OnTime(pending_timestamps[s])'
      <4>1. OnTime(pending_timestamps[s]) /\ pending_timestamps[s] \in Nat
        BY <3>2 DEF Timely, TypeOK
      <4>2. CASE WakeDue
        BY <2>1, <3>1, <4>1, <4>2 DEF OnTime
      <4>3. CASE ~ WakeDue
        <5>1. now < watch /\ (armed => now < resend_delay)
          BY <2>1, <4>1, <4>3 DEF WakeDue, OnTime, Times, Never
        <5>2. now + 1 <= pending_timestamps[s] + Horizon
          BY <2>1, <4>1, <5>1 DEF OnTime, Times
        <5>3. QED
          BY <2>1, <3>1, <4>1, <4>3, <5>2 DEF OnTime
      <4>4. QED
        BY <4>2, <4>3
    <3>3. QED
      BY <2>1, <3>1, <3>2 DEF Timely, Slots, Times
  <2>6. CASE ChannelClosed \/ ResetResends
    BY <2>6, EmptyTimely DEF ChannelClosed, ResetResends
  <2>7. ASSUME NEW n \in FrameSizes, SetFrameSize(n) PROVE Timely'
    BY <2>7, EmptyTimely DEF SetFrameSize
  <2>8. ASSUME NEW d \in NackDelays, NEW i \in ResendIntervals, Configure(d, i) PROVE Timely'
    BY <2>2, <2>8 DEF Configure, window, timer
  <2>9. CASE TimerFires
    <3>1. /\ Scan(pending_timestamps, pending_timestamp_index, pending_index, temp_lost_packets,
                  {}, events, {})
          /\ watch' <= now + WatchInterval /\ watch' \in Nat
          /\ UNCHANGED <<now, late, frame_size>>
      BY <2>1, <2>9 DEF TimerFires, WatchTaken, Timely
    <3>2. /\ pending_timestamps \in [Slots -> Nat \cup {Arrived}]
          /\ pending_timestamp_index \in Slots /\ pending_index \in Ids
      BY DEF TypeOK
    <3>3. \A s \in Slots : pending_timestamps[s] # Arrived => pending_timestamps[s] <= now + Horizon
      BY DEF Timely, OnTime
    <3>4. QED
      BY <3>1, <3>2, <3>3, ScanTimely
  <2>10. ASSUME NEW id \in Ids, PacketReceived(id) PROVE Timely'
    <3>1. CASE IgnoreOld(id)
      BY <2>2, <2>10, <3>1 DEF PacketReceived, IgnoreOld, window, timer
    <3>2. CASE Restart(id)
      BY <2>10, <3>2, EmptyTimely DEF PacketReceived, Restart, timer
    <3>3. CASE Advance(id)
      BY <2>10, <3>3, AdvanceTimely
    <3>4. QED
      BY <2>10, <3>1, <3>2, <3>3 DEF PacketReceived
  <2>11. CASE UNCHANGED vars
    BY <2>2, <2>11 DEF vars, window, timer
  <2>12. QED
    BY <2>3, <2>4, <2>5, <2>6, <2>7, <2>8, <2>9, <2>10, <2>11 DEF Next, Poll, Application
<1>3. TypeOK /\ Timely => MissingBounded
  BY DEF TypeOK, Timely, OnTime, MissingBounded, Horizon
<1>4. QED
  BY <1>1, <1>2, <1>3, TypeCorrect, PTL DEF Spec
=============================================================================
