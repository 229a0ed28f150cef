------------------------- MODULE RtpResendRequester -------------------------
(***************************************************************************)
(* RtpPacketResendRequester (utils/resend_requester.rs) driven by          *)
(* MediaReceiver::poll_next (media/receiver.rs): the sliding window that   *)
(* decides which RTP sequence numbers are missing, when they are requested *)
(* again with a generic NACK and when they are given up.                   *)
(*                                                                         *)
(* Time is a millisecond counter; the 0xFFFFFFFF marker of a slot that     *)
(* waits for nothing is Arrived.  A list of packet ids is the set of its   *)
(* members.  The receiver task is the variable pc:                         *)
(*   idle     poll_next returned Pending, the task sleeps                  *)
(*   app      poll_next returned an item, the application handles it       *)
(*   events   poll_next drains the requester's event channel               *)
(*   channel  the requester returned Pending, poll_next goes on to the     *)
(*            packets queued by the transport                              *)
(*   ended    the packet channel closed;   panicked  index out of bounds   *)
(***************************************************************************)
EXTENDS SequenceNumber, Sequences

CONSTANTS
  FrameSizes,      \* frame sizes the application may choose
  InitialFrame,    \* frame size at construction (64 in MediaReceiver::new)
  ClippingWindow,  \* 1024 in the code
  NackDelays,      \* values of nack_delay the application may choose
  ResendIntervals, \* values of resend_request_interval it may choose
  GiveUpAfter,     \* 1000 ms: a missing packet this late is lost
  SequenceTimeout, \* 1000 ms: silence that ends a sequence
  WatchInterval,   \* 5 s: period of the bandwidth watcher of MediaReceiver
  MaxLate,         \* how long, in all, the executor leaves the woken task unpolled
  FirstIds,        \* ids a first packet may carry
  Steps,           \* distance of an arriving id from the last id
  Commands,        \* application calls the run allows
  MaxTime,         \* bound of the clock
  MaxPackets       \* bound of the packets that arrive

ASSUME RequesterAssumption ==
  /\ InitialFrame \in FrameSizes
  /\ FrameSizes \subseteq Nat \ {0}
  /\ ClippingWindow \in Nat
  /\ \A n \in FrameSizes : n <= Modulus
  /\ NackDelays \subseteq Nat /\ NackDelays # {}
  /\ ResendIntervals \subseteq Nat /\ ResendIntervals # {}
  /\ GiveUpAfter \in Nat \ {0} /\ SequenceTimeout \in Nat
  /\ WatchInterval \in Nat \ {0} /\ MaxLate \in Nat
  /\ FirstIds \subseteq Ids /\ Steps \subseteq Ids
  /\ MaxTime \in Nat /\ MaxPackets \in Nat

Arrived == -1      \* 0xFFFFFFFF: the slot waits for nothing
Never   == -1      \* no timer, no packet yet

VARIABLES
  now,                     \* the clock
  late,                    \* ticks the woken task has been left unpolled
  pc,                      \* the receiver task, see above
  frame_size,              \* pending_timestamps.len()
  pending_timestamps,      \* slot -> expected arrival time, or Arrived
  pending_timestamp_index, \* slot of the oldest id of the window
  pending_index,           \* oldest id of the window
  last_packet_id,
  last_packet_timestamp,
  nack_delay,
  resend_request_interval,
  events,                  \* the event channel
  resend_delay,            \* deadline of the resend timer, or Never
  armed,                   \* that timer has been polled: it will wake the task
  arrivals,                \* packets taken from the transport so far
  watch,                   \* next tick of the bandwidth watcher
  temp_lost_packets,       \* ids pushed but not yet announced as lost
  \* history: what happened to the ids of the current window and before it
  received,                \* ids handed to the application
  requested,               \* ids a ResendPackets event asked for
  reported,                \* ids a PacketTimedOut event announced as lost
  assumed,                 \* ids a window restart counts as arrived
  quiet_until              \* end of the pause the last ResendPackets started

window  == <<frame_size, pending_timestamps, pending_timestamp_index, pending_index>>
last    == <<last_packet_id, last_packet_timestamp>>
config  == <<nack_delay, resend_request_interval>>
timer   == <<resend_delay, armed>>
history == <<received, requested, reported, assumed, quiet_until>>
vars == <<now, late, pc, watch, arrivals, window, last, config, events, timer, temp_lost_packets, history>>

Slots == 0 .. frame_size - 1

\* The slot k places after slot h of a ring of n, and the id k after id b.
SlotAt(h, k, n) == IF h + k >= n THEN h + k - n ELSE h + k
IdAt(b, k) == WrappingAdd(b, k)

\* The ids a ring ts with head h and base b still waits for.
MissingOffsets(ts, h) == {k \in Slots : ts[SlotAt(h, k, frame_size)] # Arrived}
IdsOf(b, K) == {IdAt(b, k) : k \in K}

Missing == IdsOf(pending_index, MissingOffsets(pending_timestamps, pending_timestamp_index))

Event(kind, ids) == [kind |-> kind, ids |-> ids]
EventIf(kind, ids) == IF ids = {} THEN << >> ELSE <<Event(kind, ids)>>
EventKinds == {"PacketTimedOut", "ResendPackets", "SequenceTimedOut", "SequenceGapped"}
Events == [kind : EventKinds, ids : SUBSET Ids]

AllArrived(n) == [s \in 0 .. n - 1 |-> Arrived]

Init ==
  /\ now = 0 /\ late = 0 /\ pc = "events" /\ watch = 0 /\ arrivals = 0
  /\ frame_size = InitialFrame
  /\ pending_timestamps = AllArrived(InitialFrame)
  /\ pending_timestamp_index = 0 /\ pending_index = 0
  /\ last_packet_id = 0 /\ last_packet_timestamp = Never
  /\ nack_delay \in NackDelays /\ resend_request_interval \in ResendIntervals
  /\ events = << >> /\ resend_delay = Never /\ armed = FALSE
  /\ temp_lost_packets = {}
  /\ received = {} /\ requested = {} /\ reported = {} /\ assumed = {}
  /\ quiet_until = 0
-----------------------------------------------------------------------------
\* Faulty: a timer only after a request, none for what becomes due later.
RearmForgotten(again, later) ==
  /\ armed' = FALSE
  /\ IF again # {} THEN resend_delay' = now + resend_request_interval /\ quiet_until' = resend_delay'
     ELSE resend_delay' = Never /\ UNCHANGED quiet_until

\* The timer is set anew: one interval after a request, else when the first of
\* the times later comes.
Rearm(again, later) ==
  /\ armed' = FALSE
  /\ \/ again # {} /\ resend_delay' = now + resend_request_interval
        /\ quiet_until' = resend_delay'
     \/ again = {} /\ later # {}
        /\ resend_delay' \in later /\ \A t \in later : resend_delay' <= t
        /\ UNCHANGED quiet_until
     \/ again = {} /\ later = {} /\ resend_delay' = Never
        /\ UNCHANGED quiet_until

(***************************************************************************)
(* update_packet_resend_requests, run on the ring ts with head h and base  *)
(* b: lost are the ids pushed but not yet announced, told those an earlier *)
(* part of the same call announced, queue the events sent so far, fresh    *)
(* the ids the window has just reached.                                    *)
(***************************************************************************)
Scan(ts, h, b, lost, told, queue, fresh) ==
  LET At(k)   == ts[SlotAt(h, k, frame_size)]
      missing == MissingOffsets(ts, h)
      overdue == {k \in missing : At(k) <= now}
      expired == {k \in overdue : now - At(k) >= GiveUpAfter}
      later   == {At(k) : k \in missing \ overdue}
      gone    == lost \cup IdsOf(b, expired)
      again   == IdsOf(b, overdue \ expired)
  IN /\ pending_timestamps' =
          [s \in Slots |-> IF ts[s] # Arrived /\ ts[s] + GiveUpAfter <= now
                           THEN Arrived ELSE ts[s]]
     /\ events' = queue \o EventIf("PacketTimedOut", gone) \o EventIf("ResendPackets", again)
     /\ temp_lost_packets' = {}
     /\ reported' = (reported \ fresh) \cup told \cup gone
     /\ requested' = (requested \ fresh) \cup again
     /\ Rearm(again, later)

\* Faulty: a scan whenever a packet arrives, however recent the last request.
ScanAlways(ts, h, b, lost, told, queue, fresh) == Scan(ts, h, b, lost, told, queue, fresh)

\* The call returns at once while a resend timer is scheduled.
ScanUnlessScheduled(ts, h, b, lost, told, queue, fresh) ==
  \/ /\ resend_delay # Never
     /\ pending_timestamps' = ts /\ events' = queue /\ temp_lost_packets' = lost
     /\ reported' = (reported \ fresh) \cup told
     /\ requested' = requested \ fresh
     /\ UNCHANGED <<timer, quiet_until>>
  \/ /\ resend_delay = Never
     /\ Scan(ts, h, b, lost, told, queue, fresh)
-----------------------------------------------------------------------------
(***************************************************************************)
(* handle_packet_received(id).                                             *)
(***************************************************************************)
TimedOut == \/ last_packet_timestamp = Never
            \/ now - last_packet_timestamp > SequenceTimeout
TooOld(id) == ~ TimedOut /\ IsLess(id, pending_index, ClippingWindow)
Distance(id) == Difference(pending_index, id, ClippingWindow)
Gapped(id) == ~ TimedOut /\ ~ TooOld(id) /\ Distance(id) >= 2 * frame_size

Accept(id) ==
  /\ last_packet_id' = id
  /\ last_packet_timestamp' = now

\* PacketTooOld: nothing is recorded, not even that something arrived.  The
\* caller ignores the result and hands the packet out all the same.
IgnoreOld(id) ==
  /\ TooOld(id)
  /\ received' = received \cup {id}
  /\ UNCHANGED <<window, last, events, timer, temp_lost_packets,
                 requested, reported, assumed, quiet_until>>

\* A long silence or a jump: what is missing is announced as lost and the
\* window restarts with id as its newest member.
Restart(id) ==
  /\ TimedOut \/ Gapped(id)
  /\ LET gone == temp_lost_packets \cup Missing
         base == WrappingSub(WrappingAdd(id, 1), frame_size)
         kind == IF TimedOut THEN "SequenceTimedOut" ELSE "SequenceGapped"
     IN /\ events' = events \o EventIf("PacketTimedOut", gone)
                      \o (IF Missing = {} THEN << >> ELSE <<Event(kind, {})>>)
        /\ pending_index' = base
        /\ assumed' = IdsOf(base, Slots) \ {id}
  /\ pending_timestamps' = AllArrived(frame_size)
  /\ pending_timestamp_index' = 0
  /\ temp_lost_packets' = {}
  /\ received' = {id} /\ requested' = {} /\ reported' = {}
  /\ Accept(id)
  /\ UNCHANGED <<frame_size, timer, quiet_until>>

\* The id lies in the window, or up to one window ahead of it: the window
\* slides by Slide(id) until id is its newest member, to the base NewBase and
\* the head NewHead, and the ids it reaches, Fresh, are expected.

\* Faulty: one slot short.
SlideShort(id) == IF Distance(id) < frame_size THEN 0 ELSE Distance(id) - frame_size

Slide(id) == IF Distance(id) < frame_size THEN 0 ELSE Distance(id) - frame_size + 1
NewBase(id) == IdAt(pending_index, Slide(id))
NewHead(id) == SlotAt(pending_timestamp_index, Slide(id), frame_size)
Fresh(id) == IdsOf(NewBase(id), {k \in Slots : k >= frame_size - Slide(id)})

\* Faulty: the ids slid past are forgotten.
PassedForgotten(id) == {}

\* The ids the window still waited for when it slid past them.
Passed(id) ==
  IdsOf(pending_index,
        {k \in MissingOffsets(pending_timestamps, pending_timestamp_index) : k < Slide(id)})

\* The slots the slide reuses hold the expected arrival of the fresh ids; the
\* slot of id itself is marked as arrived.
Offset(s) == IF s >= pending_timestamp_index THEN s - pending_timestamp_index
             ELSE s - pending_timestamp_index + frame_size
OffsetIn(id) == IF Slide(id) = 0 THEN Distance(id) ELSE frame_size - 1

\* Faulty: the slot of the id that arrives stays as it was.
MarkedFreshOnly(id) ==
  [s \in Slots |-> IF Offset(s) < Slide(id) THEN now + nack_delay ELSE pending_timestamps[s]]

Marked(id) ==
  [s \in Slots |->
     IF s = SlotAt(NewHead(id), OffsetIn(id), frame_size) THEN Arrived
     ELSE IF Offset(s) < Slide(id) THEN now + nack_delay
     ELSE pending_timestamps[s]]

Advance(id) ==
  /\ ~ TimedOut /\ ~ TooOld(id) /\ ~ Gapped(id)
  /\ LET slides == Slide(id) # 0
         gone == IF slides THEN temp_lost_packets \cup Passed(id) ELSE {}
         kept == IF slides THEN {} ELSE temp_lost_packets
     IN ScanUnlessScheduled(Marked(id), NewHead(id), NewBase(id), kept, gone,
                            events \o EventIf("PacketTimedOut", gone), Fresh(id))
  /\ pending_index' = NewBase(id)
  /\ pending_timestamp_index' = NewHead(id)
  /\ received' = (received \ Fresh(id)) \cup {id}
  /\ assumed' = assumed \ Fresh(id)
  /\ Accept(id)
  /\ UNCHANGED frame_size

Arrivals == IF last_packet_timestamp = Never THEN FirstIds
            ELSE {WrappingAdd(last_packet_id, s) : s \in Steps}
-----------------------------------------------------------------------------
(***************************************************************************)
(* MediaReceiver::poll_next, return by return.                             *)
(***************************************************************************)

\* An event of the requester: a loss is returned as DataLost, a resend becomes
\* a NACK on the wire and the channel is read again.
TakeEvent ==
  /\ pc = "events" /\ events # << >>
  /\ events' = Tail(events)
  /\ pc' = IF Head(events).kind = "PacketTimedOut" THEN "app" ELSE "events"
  /\ UNCHANGED <<now, late, watch, arrivals, window, last, config, timer, temp_lost_packets, history>>

\* The tick of the bandwidth watcher is taken on the way to the packets.
WatchTaken == watch' = IF watch <= now THEN now + WatchInterval ELSE watch

\* The channel is empty and the resend timer fires.  The events this sends
\* wait in the channel while poll_next goes on to the packets.
TimerFires ==
  /\ pc = "events" /\ events = << >>
  /\ resend_delay # Never /\ resend_delay <= now
  /\ Scan(pending_timestamps, pending_timestamp_index, pending_index,
          temp_lost_packets, {}, events, {})
  /\ WatchTaken
  /\ pc' = "channel"
  /\ UNCHANGED <<now, late, arrivals, frame_size, pending_timestamp_index, pending_index, last, config,
                 received, assumed>>

\* The timer is absent or pending; polling it registers the task's waker.
TimerPending ==
  /\ pc = "events" /\ events = << >>
  /\ resend_delay = Never \/ resend_delay > now
  /\ armed' = (resend_delay # Never)
  /\ WatchTaken
  /\ pc' = "channel"
  /\ UNCHANGED <<now, late, arrivals, window, last, config, events, resend_delay, temp_lost_packets, history>>

\* A packet waits in the channel; it is handed out and the task polls again.
PacketReceived(id) ==
  /\ pc = "channel" /\ id \in Arrivals
  /\ arrivals < MaxPackets /\ arrivals' = arrivals + 1
  /\ pc' = "app"
  /\ IgnoreOld(id) \/ Restart(id) \/ Advance(id)
  /\ UNCHANGED <<now, late, watch, config>>

\* No packet waits: Pending.
Sleep ==
  /\ pc = "channel"
  /\ pc' = "idle"
  /\ UNCHANGED <<now, late, watch, arrivals, window, last, config, events, timer, temp_lost_packets, history>>

\* The channel is closed: the requester is reset and the stream ends.
ChannelClosed ==
  /\ pc = "channel" /\ "close" \in Commands
  /\ pc' = "ended"
  /\ frame_size' = frame_size
  /\ pending_timestamps' = AllArrived(frame_size)
  /\ pending_timestamp_index' = 0 /\ pending_index' = 0
  /\ last_packet_id' = 0 /\ last_packet_timestamp' = Never
  /\ resend_delay' = Never /\ armed' = FALSE
  /\ temp_lost_packets' = temp_lost_packets \cup Missing
  /\ received' = {} /\ requested' = {} /\ reported' = {} /\ assumed' = {}
  /\ quiet_until' = now
  /\ UNCHANGED <<now, late, watch, arrivals, config, events>>

\* What certainly wakes the sleeping task.
WakeDue == \/ events # << >>
           \/ armed /\ resend_delay <= now
           \/ watch <= now

\* poll_next is called: the application asks for the next item, or the
\* sleeping task wakes, because it must or because a packet was queued.
BeginPoll ==
  /\ pc \in {"app", "idle"}
  /\ pc' = "events"
  /\ UNCHANGED <<now, late, watch, arrivals, window, last, config, events, timer, temp_lost_packets, history>>

Tick ==
  /\ pc = "idle" /\ now < MaxTime
  /\ now' = now + 1
  /\ IF WakeDue THEN late < MaxLate /\ late' = late + 1 ELSE UNCHANGED late
  /\ UNCHANGED <<pc, watch, arrivals, window, last, config, events, timer, temp_lost_packets, history>>
-----------------------------------------------------------------------------
(***************************************************************************)
(* Calls of the application, between two polls.                            *)
(***************************************************************************)

\* Faulty: what was set aside as lost is still waited for.
ResetResendsKeepingSlots ==
  /\ pc \in {"app", "idle"} /\ "reset_resends" \in Commands
  /\ resend_delay' = Never /\ armed' = FALSE
  /\ temp_lost_packets' = temp_lost_packets \cup Missing
  /\ quiet_until' = now
  /\ UNCHANGED <<now, late, pc, watch, arrivals, window, last, config,
                 events, received, requested, reported, assumed>>

\* MediaReceiver::reset_pending_resends
ResetResends ==
  /\ pc \in {"app", "idle"} /\ "reset_resends" \in Commands
  /\ resend_delay' = Never /\ armed' = FALSE
  /\ temp_lost_packets' = temp_lost_packets \cup Missing
  /\ pending_timestamps' = AllArrived(frame_size)
  /\ quiet_until' = now
  /\ UNCHANGED <<now, late, pc, watch, arrivals, frame_size, pending_timestamp_index, pending_index, last, config,
                 events, received, requested, reported, assumed>>

SetFrameSize(n) ==
  /\ pc \in {"app", "idle"} /\ "set_frame_size" \in Commands
  /\ events' = events \o EventIf("PacketTimedOut", temp_lost_packets \cup Missing)
  /\ temp_lost_packets' = {}
  /\ pending_timestamps' = AllArrived(n)
  /\ frame_size' = n
  /\ resend_delay' = Never /\ armed' = FALSE
  /\ last_packet_id' = 0 /\ last_packet_timestamp' = Never
  /\ pc' = IF pending_timestamp_index < n THEN pc ELSE "panicked"
  /\ pending_timestamp_index' = 0 /\ pending_index' = 0
  /\ received' = {} /\ requested' = {} /\ reported' = {} /\ assumed' = {}
  /\ quiet_until' = now
  /\ UNCHANGED <<now, late, watch, arrivals, config>>

Configure(d, i) ==
  /\ pc \in {"app", "idle"} /\ "configure" \in Commands
  /\ nack_delay' = d /\ resend_request_interval' = i
  /\ UNCHANGED <<now, late, pc, watch, arrivals, window, last, events, timer, temp_lost_packets, history>>

Poll == BeginPoll \/ TakeEvent \/ TimerFires \/ TimerPending \/ Sleep
Application ==
  \/ ResetResends
  \/ \E n \in FrameSizes : SetFrameSize(n)
  \/ \E d \in NackDelays, i \in ResendIntervals : Configure(d, i)

Next ==
  \/ Poll \/ Tick \/ ChannelClosed
  \/ \E id \in Ids : PacketReceived(id)
  \/ Application

Spec == Init /\ [][Next]_vars
-----------------------------------------------------------------------------
Times == Nat \cup {Never}

\* Type invariant of the requester and of the loop that drives it.
TypeOK ==
  /\ now \in Nat /\ late \in 0 .. MaxLate /\ watch \in Nat /\ arrivals \in 0 .. MaxPackets
  /\ pc \in {"idle", "app", "events", "channel", "ended", "panicked"}
  /\ frame_size \in FrameSizes
  /\ pending_timestamps \in [Slots -> Nat \cup {Arrived}]
  /\ pending_timestamp_index \in Slots /\ pending_index \in Ids
  /\ last_packet_id \in Ids /\ last_packet_timestamp \in Times
  /\ nack_delay \in NackDelays /\ resend_request_interval \in ResendIntervals
  /\ events \in Seq(Events)
  /\ resend_delay \in Times /\ armed \in BOOLEAN
  /\ temp_lost_packets \subseteq Ids
  /\ received \subseteq Ids /\ requested \subseteq Ids
  /\ reported \subseteq Ids /\ assumed \subseteq Ids
  /\ quiet_until \in Nat

WindowHoldsLast ==
  \E k \in Slots :
    /\ IdAt(pending_index, k) = last_packet_id
    /\ pending_timestamps[SlotAt(pending_timestamp_index, k, frame_size)] = Arrived

Accounted ==
  IdsOf(pending_index, Slots) \subseteq
    received \cup Missing \cup reported \cup temp_lost_packets \cup assumed

\* The window holds the packet accepted last, at a slot marked as arrived, so the
\* distance handle_packet_received computes is that of the id to the window; and
\* no id of the window is forgotten: it has arrived, is waited for, has been
\* announced as lost or is about to be, or a restart of the window (which asks
\* for nothing older than the packet it starts at) counted it as arrived.
WindowConsistent == last_packet_timestamp # Never => WindowHoldsLast /\ Accounted

\* A missing packet is not waited for longer than the give-up time and one
\* period of the watcher that wakes the receiver when nothing else does, plus
\* what the executor was late.
MissingBounded ==
  \A s \in Slots :
    pending_timestamps[s] # Arrived =>
      now <= pending_timestamps[s] + GiveUpAfter + WatchInterval + late

\* An id has one fate: what the window waits for has neither arrived nor been
\* announced as lost nor been set aside for the next announcement, and what is
\* set aside belongs to the window and has not been announced before.
Tracking ==
  /\ Missing \cap (received \cup reported \cup temp_lost_packets) = {}
  /\ temp_lost_packets \cap reported = {}
  /\ pc # "ended" => temp_lost_packets \subseteq IdsOf(pending_index, Slots)

\* Indices of the events a step sends.
Sent(kind) == {i \in Len(events) + 1 .. Len(events') : events'[i].kind = kind}

\* Nothing the window waits for is dropped in silence, however the window slides,
\* restarts, is resized or closes: in the same step the id arrives, is announced
\* as lost, or is set aside for the next announcement.
NothingForgotten ==
  [][Missing \subseteq Missing' \cup received' \cup temp_lost_packets'
                     \cup UNION {events'[i].ids : i \in Sent("PacketTimedOut")}]_vars

\* The events tell the truth when they are queued: only ids that are missing are
\* requested, never one that has arrived or that was announced as lost ("We'll
\* not re-request these any more", DataLost); an id announced as lost has not
\* arrived, and is announced once while its number is not reused.
EventsTruthful ==
  [][/\ \A i \in Sent("ResendPackets") : events'[i].ids \cap (received' \cup reported') = {}
     /\ \A i \in Sent("PacketTimedOut") : events'[i].ids \cap (received \cup reported) = {}]_vars

\* Between two requests lies at least the resend interval, however many packets
\* arrive and whenever the task is polled; only a reset by the application
\* starts over.
RequestsPaced == [][Sent("ResendPackets") # {} => now >= quiet_until]_vars
=============================================================================
