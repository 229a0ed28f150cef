---------------------------- MODULE MediaReceiver ----------------------------
(***************************************************************************)
(* The receiver of one RTP stream (media/receiver.rs).  Its internal half  *)
(* lives in stream_receiver of the PeerConnection, which dispatches the    *)
(* packets of the transports to it (rtc.rs), and the MediaReceiver the     *)
(* application holds is polled by another task.  An unbounded channel      *)
(* leads from the one to the other, and a oneshot tells the peer that the  *)
(* other end is gone.                                                      *)
(*                                                                         *)
(* A poll of the PeerConnection is one step: it returns what is queued, or *)
(* replaces the receivers that are gone and handles what one transport     *)
(* received; a poll that handles several packets is several such steps.    *)
(* pc is the task of the application: app (it holds the receiver), idle    *)
(* (poll_next returned Pending), timers and channel (inside poll_next).    *)
(*                                                                         *)
(* A packet is its number among those of the stream.  The resend requester *)
(* is reduced to the DataLost it causes; it is modelled in                 *)
(* RtpResendRequester.                                                     *)
(***************************************************************************)
EXTENDS ReceiverStats, Integers, Sequences

CONSTANTS
  Payloads,      \* payload sizes of a packet, in bytes
  Limits,        \* bandwidth limits the application sets, in bits
  WatchInterval, \* 5 s
  MaxLate,       \* seconds, in all, the woken application leaves its receiver unpolled
  MaxTime,       \* bound of the clock
  MaxPackets,    \* bound of the RTP packets that arrive
  MaxControl,    \* bound of the RTCP packets and local descriptions
  MaxLost        \* bound of the DataLost events

ASSUME ReceiverAssumption ==
  /\ Payloads \subseteq Nat \ {0} /\ Limits \subseteq Nat
  /\ WatchInterval \in Nat \ {0} /\ MaxLate \in Nat
  /\ WatchInterval + MaxLate < Span
  /\ MaxTime \in Nat /\ MaxPackets \in Nat /\ MaxControl \in Nat /\ MaxLost \in Nat

NoLimit == -1
Foreign == 0    \* a packet of the stream that came in on another transport

VARIABLES
  now,              \* seconds since the receiver was created
  late,             \* seconds the woken application has been late
  wake,             \* the task of the PeerConnection has been woken
  half,             \* the entry of stream_receiver: none, active, void or removed
  fired,            \* close_channel_sender has been used
  channel,          \* InternalReceiverEvents under way
  handle,           \* the MediaReceiver: none, queued, held, ended or dropped
  pc,               \* the task of the application
  activated,
  bandwidth_limit,
  event_queue,
  statistics,
  watch,            \* next tick of timer_bandwidth_watcher, or NoLimit before the first poll
  event,            \* the last item poll_next returned
  \* history
  arrived,          \* packets of the stream that came in on its transport
  told,             \* packets handed to the application
  control,          \* RTCP packets and local descriptions so far
  lost,             \* DataLost events so far
  bytes             \* second -> payload received since the last announcement or bye

clock    == <<now, late>>
internal == <<half, fired>>
receiver == <<activated, bandwidth_limit, event_queue, statistics, watch>>
counts   == <<arrived, control, lost>>
vars == <<clock, wake, internal, channel, handle, pc, receiver, event, counts, told, bytes>>

Live == handle \in {"queued", "held"}

NothingMeasured == [second \in 0 .. MaxTime |-> 0]

Rtp(number, payload) == [kind |-> "RtpPacket", number |-> number, payload |-> payload]
Control(kind)        == [kind |-> kind]

NewReceiver ==
  /\ activated = FALSE /\ bandwidth_limit = NoLimit /\ event_queue = <<>>
  /\ statistics = NewStats /\ watch = NoLimit

Init ==
  /\ now = 0 /\ late = 0
  /\ wake = FALSE
  /\ half = "none" /\ fired = FALSE /\ channel = <<>>
  /\ handle = "none" /\ pc = "app"
  /\ NewReceiver
  /\ event = "none"
  /\ arrived = 0 /\ told = 0 /\ control = 0 /\ lost = 0 /\ bytes = NothingMeasured

-----------------------------------------------------------------------------
(* The internal half.                                                      *)

FaultySendControlPacket(packet) ==
  IF Live THEN channel' = Append(channel, packet) /\ UNCHANGED <<fired, wake>>
          ELSE fired' = TRUE /\ UNCHANGED <<channel, wake>>

\* send_control_packet: a receiver that is gone fires the oneshot, which wakes
\* the peer.
SendControlPacket(packet) ==
  IF Live THEN channel' = Append(channel, packet) /\ UNCHANGED <<fired, wake>>
          ELSE fired' = TRUE /\ wake' = TRUE /\ UNCHANGED channel

\* update_media_line_streams finds a new stream in a remote description.
AddStream ==
  /\ half = "none"
  /\ half' = "active" /\ handle' = "queued" /\ wake' = TRUE
  /\ UNCHANGED <<clock, fired, channel, pc, receiver, event, counts, told, bytes>>

\* The remote description no longer contains the stream: both halves of the
\* channel the peer has are dropped.
RemoveStream ==
  /\ half \in {"active", "void"}
  /\ half' = "removed"
  /\ UNCHANGED <<clock, wake, fired, channel, handle, pc, receiver, event, counts, told, bytes>>

\* A receiver that is gone is replaced by one that ignores everything.
Replaced(gone) == IF half = "active" /\ gone THEN "void" ELSE half

\* create_local_description asks every receiver whether it is still there and
\* replaces those that are not.
FlushControl ==
  /\ half = "active" /\ control < MaxControl
  /\ control' = control + 1
  /\ SendControlPacket(Control("FlushControl"))
  /\ half' = Replaced(~Live)
  /\ UNCHANGED <<clock, handle, pc, receiver, event, arrived, lost, told, bytes>>

\* PeerConnection::poll_next returns what is queued before anything else.
PollQueued ==
  /\ wake /\ handle = "queued"
  /\ handle' = "held"
  /\ UNCHANGED <<clock, wake, internal, channel, pc, receiver, event, counts, told, bytes>>

\* poll_stream_receiver replaces the receivers whose oneshot has fired.
Polled == Replaced(fired)

\* A poll that finds nothing to read on the transports.
PollStreamReceiver ==
  /\ wake /\ handle # "queued"
  /\ wake' = FALSE
  /\ half' = Polled
  /\ UNCHANGED <<clock, fired, channel, handle, pc, receiver, event, counts, told, bytes>>

\* A poll that goes on to handle_ice_event with one packet for the stream.  A
\* void half has no use for it.
Dispatch(packet) ==
  /\ handle # "queued" /\ half \in {"active", "void"}
  /\ half' = Polled
  /\ IF Polled = "active" THEN SendControlPacket(packet) ELSE UNCHANGED <<fired, wake, channel>>

\* An RTP packet counts only on the transport the receiver is registered to.
ReceiveRtp ==
  /\ arrived < MaxPackets /\ half \in {"active", "void"}
  /\ \E payload \in Payloads, own \in BOOLEAN :
       /\ arrived' = arrived + (IF own THEN 1 ELSE 0)
       /\ IF own THEN Dispatch(Rtp(arrived', payload))
                 ELSE half' = Polled /\ handle # "queued" /\ UNCHANGED <<fired, wake, channel>>
  /\ UNCHANGED <<clock, handle, pc, receiver, event, control, lost, told, bytes>>

ReceiveRtcp ==
  /\ control < MaxControl
  /\ control' = control + 1
  /\ \E kind \in {"RtcpSenderReport", "RtcpByeReceived"} : Dispatch(Control(kind))
  /\ UNCHANGED <<clock, handle, pc, receiver, event, arrived, lost, told, bytes>>

-----------------------------------------------------------------------------
(* The MediaReceiver.                                                      *)

\* send_remb: the announcement restarts the measurement.
SendRemb(stats) == statistics' = ResetBandwidth(stats) /\ bytes' = NothingMeasured

\* set_bandwidth_limit: a limit that is taken back is announced as 50 Mbit/s.
SetBandwidthLimit ==
  /\ handle = "held" /\ pc \in {"app", "idle"}
  /\ \E limit \in Limits \cup {NoLimit} :
       /\ limit # bandwidth_limit
       /\ bandwidth_limit' = limit
  /\ SendRemb(statistics)
  /\ UNCHANGED <<clock, wake, internal, channel, handle, pc, activated, event_queue, watch,
                 event, counts, told>>

DropReceiver ==
  /\ handle \in {"queued", "held", "ended"} /\ pc \in {"app", "idle"}
  /\ handle' = "dropped" /\ channel' = <<>> /\ event_queue' = <<>>
  /\ UNCHANGED <<clock, wake, internal, pc, activated, bandwidth_limit, statistics, watch,
                 event, counts, told, bytes>>

\* What wakes the sleeping task.
Woken == channel # <<>> \/ half # "active" \/ watch <= now

\* poll_next returns item.
Return(item) == pc' = "app" /\ event' = item

\* poll_next begins with the event that was put aside.
PollEventQueue ==
  /\ handle = "held" /\ pc = "app" /\ event_queue # <<>>
  /\ event_queue' = Tail(event_queue) /\ told' = Head(event_queue)
  /\ Return("DataReceived")
  /\ UNCHANGED <<clock, wake, internal, channel, handle, activated, bandwidth_limit,
                 statistics, watch, counts, bytes>>

\* The resend requester gives up some packets.
PollDataLost ==
  /\ handle = "held" /\ pc \in {"app", "idle"} /\ event_queue = <<>>
  /\ told > 0 /\ lost < MaxLost /\ lost' = lost + 1
  /\ Return("DataLost")
  /\ UNCHANGED <<clock, wake, internal, channel, handle, receiver, arrived, control, told, bytes>>

\* It has nothing to report; the watcher is created by the first poll.
PollTimers ==
  /\ handle = "held" /\ event_queue = <<>>
  /\ pc = "app" \/ (pc = "idle" /\ Woken)
  /\ pc' = "timers"
  /\ watch' = IF watch = NoLimit THEN now ELSE watch
  /\ UNCHANGED <<clock, wake, internal, channel, handle, activated, bandwidth_limit,
                 event_queue, statistics, event, counts, told, bytes>>

\* A tick of the watcher: a stream above its limit is reported, and the limit
\* announced again.
WatchBandwidth ==
  /\ pc = "timers" /\ watch <= now
  /\ watch' = watch + WatchInterval
  /\ LET ticked == AdvanceHistory(statistics, now)
     IN  IF bandwidth_limit # NoLimit /\ BandwidthMinute(ticked) * 8 > bandwidth_limit
         THEN SendRemb(ticked) /\ Return("BandwidthLimitViolation")
         ELSE statistics' = ticked /\ UNCHANGED <<pc, event, bytes>>
  /\ UNCHANGED <<clock, wake, internal, channel, handle, activated, bandwidth_limit,
                 event_queue, counts, told>>

PollChannel ==
  /\ pc = "timers" /\ watch > now
  /\ pc' = "channel"
  /\ UNCHANGED <<clock, wake, internal, channel, handle, receiver, event, counts, told, bytes>>

FaultyTakeRtp ==
  /\ pc = "channel" /\ channel # <<>> /\ Head(channel).kind = "RtpPacket"
  /\ channel' = Tail(channel)
  /\ LET packet     == Head(channel)
         registered == RegisterIncoming(statistics, now, packet.payload)
     IN  /\ statistics' = registered
         /\ bytes' = [bytes EXCEPT ![now] = @ + packet.payload]
         /\ IF activated
            THEN told' = packet.number /\ Return("DataReceived") /\ UNCHANGED <<event_queue, activated>>
            ELSE activated' = TRUE /\ Return("ReceiverActivated") /\ UNCHANGED <<told, event_queue>>
  /\ UNCHANGED <<clock, wake, internal, handle, bandwidth_limit, watch, counts>>

\* A packet is measured and handed out; the first one of an activity announces
\* the limit and waits behind ReceiverActivated.
TakeRtp ==
  /\ pc = "channel" /\ channel # <<>> /\ Head(channel).kind = "RtpPacket"
  /\ channel' = Tail(channel)
  /\ LET packet     == Head(channel)
         registered == RegisterIncoming(statistics, now, packet.payload)
         measured   == [bytes EXCEPT ![now] = @ + packet.payload]
     IN  IF activated
         THEN /\ statistics' = registered /\ bytes' = measured
              /\ told' = packet.number /\ Return("DataReceived")
              /\ UNCHANGED <<event_queue, activated>>
         ELSE /\ IF bandwidth_limit # NoLimit THEN SendRemb(registered)
                                              ELSE statistics' = registered /\ bytes' = measured
              /\ event_queue' = <<packet.number>> /\ activated' = TRUE
              /\ Return("ReceiverActivated")
              /\ UNCHANGED told
  /\ UNCHANGED <<clock, wake, internal, handle, bandwidth_limit, watch, counts>>

TakeBye ==
  /\ pc = "channel" /\ channel # <<>> /\ Head(channel).kind = "RtcpByeReceived"
  /\ channel' = Tail(channel)
  /\ activated' = FALSE
  /\ statistics' = ResetBandwidth(statistics) /\ bytes' = NothingMeasured
  /\ Return("ByeSignalReceived")
  /\ UNCHANGED <<clock, wake, internal, handle, bandwidth_limit, event_queue, watch, counts, told>>

\* Sender reports and flushes are consumed without an item.
SkipControl ==
  /\ pc = "channel" /\ channel # <<>> /\ Head(channel).kind \in {"RtcpSenderReport", "FlushControl"}
  /\ channel' = Tail(channel)
  /\ UNCHANGED <<clock, wake, internal, handle, pc, receiver, event, counts, told, bytes>>

\* The peer dropped its half: the stream ends behind what was queued.
TakeEnd ==
  /\ pc = "channel" /\ channel = <<>> /\ half # "active"
  /\ handle' = "ended" /\ Return("end")
  /\ UNCHANGED <<clock, wake, internal, channel, receiver, counts, told, bytes>>

ReceiverSleeps ==
  /\ pc = "channel" /\ channel = <<>> /\ half = "active"
  /\ pc' = "idle"
  /\ UNCHANGED <<clock, wake, internal, channel, handle, receiver, event, counts, told, bytes>>

-----------------------------------------------------------------------------

\* Time passes between two polls; a task that could go on is late.
Tick ==
  /\ handle # "none" /\ pc \in {"app", "idle"} /\ now < MaxTime
  /\ LET waiting == handle = "held" /\ (pc = "app" \/ Woken)
     IN  /\ waiting => late < MaxLate
         /\ late' = IF waiting THEN late + 1 ELSE late
  /\ now' = now + 1
  /\ UNCHANGED <<wake, internal, channel, handle, pc, receiver, event, counts, told, bytes>>

PeerSignals == AddStream \/ RemoveStream \/ FlushControl
PeerPoll    == PollQueued \/ PollStreamReceiver \/ ReceiveRtp \/ ReceiveRtcp
ReceiverPoll ==
  \/ PollEventQueue \/ PollDataLost \/ PollTimers \/ WatchBandwidth \/ PollChannel
  \/ TakeRtp \/ TakeBye \/ SkipControl \/ TakeEnd \/ ReceiverSleeps

Next == Tick \/ PeerSignals \/ PeerPoll \/ SetBandwidthLimit \/ DropReceiver \/ ReceiverPoll

\* A woken peer is polled, and the application goes on reading
\* a receiver it holds.
Fairness ==
  /\ WF_vars(PollQueued) /\ WF_vars(PollStreamReceiver)
  /\ WF_vars(ReceiverPoll)

Spec == Init /\ [][Next]_vars /\ Fairness

-----------------------------------------------------------------------------
(* Properties.                                                             *)

TypeOK ==
  /\ now \in 0 .. MaxTime /\ late \in 0 .. MaxLate
  /\ wake \in BOOLEAN
  /\ half \in {"none", "active", "void", "removed"} /\ fired \in BOOLEAN
  /\ handle \in {"none", "queued", "held", "ended", "dropped"}
  /\ pc \in {"app", "idle", "timers", "channel"}
  /\ activated \in BOOLEAN /\ bandwidth_limit \in Limits \cup {NoLimit}
  /\ statistics \in Stats /\ told \in 0 .. MaxPackets /\ arrived \in 0 .. MaxPackets

\* The packets handed out, put aside and under way are those that came in on
\* the stream's own transport, each once and in order, as long as the
\* application holds the receiver (rtc.rs:1047-1059, receiver.rs:180-183, 248-263).
Waiting ==
  LET queued[n \in 0 .. Len(channel)] ==
        IF n = 0 THEN event_queue
        ELSE IF channel[n].kind = "RtpPacket" THEN Append(queued[n - 1], channel[n].number)
             ELSE queued[n - 1]
  IN  queued[Len(channel)]

NothingMissed == Live => Waiting = [i \in 1 .. (arrived - told) |-> told + i]

\* The half that stays with the peer is given up only when the application
\* dropped the receiver, and then it is: the peer has been woken to replace it
\* (receiver.rs:374-383, rtc.rs:1078-1087).
HalvesAgree ==
  /\ half = "void" => ~Live
  /\ half = "active" /\ fired => wake

Halves == TypeOK /\ NothingMissed /\ HalvesAgree

\* A reported violation is real: in some second the history still covers, and
\* since the limit was last announced, more came in than the limit allows
\* (receiver.rs:225-239, receiver_stats.rs:38-68, 94-107).
Violated == pc = "timers" /\ pc' = "app" /\ event' = "BandwidthLimitViolation"

ViolationsTrue ==
  [][Violated =>
       \E second \in 0 .. now : now - second < Span /\ bytes[second] * 8 > bandwidth_limit]_vars

\* The receiver keeps the promise of MediaReceiverEvent.
Phase ==
  IF handle \in {"ended", "dropped"} THEN "over"
  ELSE IF event_queue # <<>> THEN "announced"
  ELSE IF activated THEN "active" ELSE "silent"

Promise == INSTANCE ReceiverPromise
             WITH phase <- Phase, backlog <- IF Live THEN arrived - told ELSE 0, event <- event

KeepsPromise == Promise!PromiseSpec
=============================================================================
