----------------------------- MODULE RtpSender -----------------------------
(***************************************************************************)
(* The sending side of one media stream: the MediaSender handle of the     *)
(* application (media/sender.rs), the control channel that leads to        *)
(* InternalMediaSender, the RtpSender behind it (transport/sender.rs) and  *)
(* its RtpPacketHistory (transport/packet_history.rs), from which the      *)
(* generic NACKs of the peer are answered.                                 *)
(*                                                                         *)
(* A packet is a sequence number and a size; nr counts the packets the     *)
(* application sent and exists in the model only, like log and failures.   *)
(***************************************************************************)
EXTENDS SequenceNumber, Sequences

CONSTANTS
  MaxSavedPackets,    \* max_saved_packets, 1000
  MaxSavedBytes,      \* max_saved_bytes, 1_000_000
  MaxPacketAge,       \* max_packet_age, 10 s
  MinResendInterval,  \* min_resend_interval, 50 ms
  CleanupInterval,    \* period of cleanup_interval, 1 s
  Sizes,              \* sizes of a protected packet
  Renumbers,          \* values current_sequence_no_mut is set to; usually none
  MaxFailures,        \* bound: packets srtp refuses to protect
  MaxSends,           \* bound: packets the application sends
  MaxQueued,          \* bound: messages in the control channel
  MaxTime             \* bound of the clock

Never == -1

ASSUME SenderAssumption ==
  /\ MaxSavedPackets \in Nat \ {0} /\ MaxSavedBytes \in Nat \ {0}
  /\ MaxPacketAge \in Nat /\ MinResendInterval \in Nat /\ CleanupInterval \in Nat \ {0}
  /\ Sizes \subseteq Nat /\ Renumbers \subseteq Ids
  /\ MaxFailures \in Nat /\ MaxSends \in Nat /\ MaxQueued \in Nat /\ MaxTime \in Nat

VARIABLES
  now,
  next,                 \* the number of the packet the application sends next
  current_sequence_number,
  control,              \* the control channel: [nr, sequence] per SendRtpData
  dropped,              \* the MediaSender has been dropped
  pc,                   \* where InternalMediaSender::poll is
  backend,              \* the shared SenderBackend: "absent", "present", "gone"
  packets,              \* the history, oldest first
  current_byte_count,
  cleanup_at,           \* next tick of cleanup_interval, Never before the first poll
  failures,             \* packets lost between the control channel and the history
  renumbered,           \* the application has set the sequence number itself
  log                   \* every packet that entered the history

handle  == <<next, current_sequence_number, renumbered, dropped>>
history == <<packets, current_byte_count>>
vars == <<now, handle, control, pc, backend, history, cleanup_at, failures, log>>

Packets == [nr : Nat, sequence : Ids, size : Sizes, last_send : Nat]

Init ==
  /\ now = 0 /\ next = 0 /\ current_sequence_number = 0
  /\ control = << >> /\ dropped = FALSE
  /\ pc = "idle" /\ backend = "absent"
  /\ packets = << >> /\ current_byte_count = 0
  /\ cleanup_at = Never /\ failures = 0 /\ renumbered = FALSE /\ log = << >>
-----------------------------------------------------------------------------
(***************************************************************************)
(* RtpPacketHistory.  The loops of cleanup each pop from the front for as  *)
(* long as their condition holds; a history without a packet left that     *)
(* still counts too many bytes would panic, which is no outcome here and   *)
(* is excluded by HistoryKeeps.                                            *)
(***************************************************************************)
TotalSize(s) ==
  LET sum[n \in 0 .. Len(s)] == IF n = 0 THEN 0 ELSE sum[n - 1] + s[n].size
  IN  sum[Len(s)]

\* Faulty: the bytes of what is popped stay counted.
PoppedUncounted(h, k) ==
  [packets |-> SubSeq(h.packets, k + 1, Len(h.packets)), bytes |-> h.bytes]

Popped(h, k) ==
  [packets |-> SubSeq(h.packets, k + 1, Len(h.packets)),
   bytes   |-> h.bytes - TotalSize(SubSeq(h.packets, 1, k))]

TooManyBytes(h) == h.bytes > MaxSavedBytes
FrontTooOld(h) == h.packets # << >> /\ h.packets[1].last_send <= now - MaxPacketAge

\* Faulty: one packet too many is kept.
OneTooManyPackets(h) == Len(h.packets) > MaxSavedPackets + 1

TooManyPackets(h) == Len(h.packets) > MaxSavedPackets

\* What a loop leaves that pops while More holds.
After(h, More(_)) ==
  {Popped(h, k) : k \in {k \in 0 .. Len(h.packets) :
                           /\ ~ More(Popped(h, k))
                           /\ \A j \in 0 .. k - 1 : More(Popped(h, j))}}

Cleanup(h) ==
  \E a \in After(h, TooManyBytes) : \E b \in After(a, FrontTooOld) :
  \E c \in After(b, TooManyPackets) :
    packets' = c.packets /\ current_byte_count' = c.bytes

History == [packets |-> packets, bytes |-> current_byte_count]

\* enqueue_send_packet
Enqueue(nr, sequence, size) ==
  LET packet == [nr |-> nr, sequence |-> sequence, size |-> size, last_send |-> now]
  IN /\ Cleanup([packets |-> Append(packets, packet), bytes |-> current_byte_count + size])
     /\ log' = Append(log, [nr |-> nr, size |-> size, first |-> now, latest |-> now])

\* resend_packet: the oldest packet with the number, unless sent too recently.
Found(sequence) == {i \in DOMAIN packets : /\ packets[i].sequence = sequence
                                           /\ \A j \in 1 .. i - 1 : packets[j].sequence # sequence}

\* Faulty: a resent packet keeps the time it was first sent at.
ResendKeepingTime(i) == UNCHANGED packets

Resend(i) == packets' = [packets EXCEPT ![i].last_send = now]
-----------------------------------------------------------------------------
(***************************************************************************)
(* The application: send, current_sequence_no_mut, and drop.               *)
(***************************************************************************)
Send ==
  /\ ~ dropped /\ next < MaxSends /\ Len(control) < MaxQueued
  /\ control' = Append(control, [nr |-> next, sequence |-> current_sequence_number])
  /\ next' = next + 1
  /\ current_sequence_number' = WrappingAdd(current_sequence_number, 1)
  /\ UNCHANGED <<now, renumbered, dropped, pc, backend, history, cleanup_at, failures, log>>

Renumber(sequence) ==
  /\ ~ dropped
  /\ current_sequence_number' = sequence /\ renumbered' = TRUE
  /\ UNCHANGED <<now, next, dropped, control, pc, backend, history, cleanup_at, failures, log>>

Drop ==
  /\ ~ dropped /\ dropped' = TRUE
  /\ UNCHANGED <<now, next, current_sequence_number, renumbered, control, pc, backend, history,
                 cleanup_at, failures, log>>
-----------------------------------------------------------------------------
(***************************************************************************)
(* InternalMediaSender::poll: the history first, then the control channel  *)
(* until it is empty.                                                      *)
(***************************************************************************)

\* The first tick of the interval comes at once, the following ones a period
\* after the one before, however late they are taken.
CleanupDue == cleanup_at = Never \/ cleanup_at <= now
PollHistory ==
  /\ pc = "idle" /\ pc' = "control"
  /\ \/ /\ CleanupDue
        /\ cleanup_at' = (IF cleanup_at = Never THEN now ELSE cleanup_at) + CleanupInterval
        /\ Cleanup(History)
     \/ ~ CleanupDue /\ UNCHANGED <<cleanup_at, history>>
  /\ UNCHANGED <<now, handle, control, backend, failures, log>>

TakeMessage == pc = "control" /\ control # << >> /\ control' = Tail(control)

\* send_rtp: protected, saved and written.
SendRtp(size) ==
  /\ TakeMessage /\ backend = "present"
  /\ Enqueue(Head(control).nr, Head(control).sequence, size)
  /\ UNCHANGED <<now, handle, pc, backend, cleanup_at, failures>>

\* send_rtp: srtp reports an error.  The packet is only logged.
SendRtpFails ==
  /\ TakeMessage /\ backend = "present"
  /\ failures < MaxFailures /\ failures' = failures + 1
  /\ UNCHANGED <<now, handle, pc, backend, history, cleanup_at, log>>

\* send_rtp: there is no backend, not yet or not any more.
SendRtpUnconnected ==
  /\ TakeMessage /\ backend # "present"
  /\ UNCHANGED <<now, handle, pc, backend, history, cleanup_at, failures, log>>

\* The channel is empty: Pending, or the end (and an RTCP Bye) of a sender
\* whose handle is gone.
PollEnds ==
  /\ pc = "control" /\ control = << >>
  /\ pc' = IF dropped THEN "ended" ELSE "idle"
  /\ UNCHANGED <<now, handle, control, backend, history, cleanup_at, failures, log>>

\* handle_transport_feedback, for one number of the NACK: retransmit_rtp.
Retransmit(i) ==
  /\ packets[i].last_send + MinResendInterval < now
  /\ Resend(i)
  /\ log' = [k \in DOMAIN log |->
               IF log[k].nr = packets[i].nr /\ backend = "present"
               THEN [log[k] EXCEPT !.latest = now] ELSE log[k]]
  /\ UNCHANGED current_byte_count

ProcessNack(sequence) ==
  /\ pc = "idle"
  /\ \E i \in Found(sequence) : Retransmit(i)
  /\ UNCHANGED <<now, handle, control, pc, backend, cleanup_at, failures>>
-----------------------------------------------------------------------------
\* In the task that polls the sender, so between two polls of it: the
\* transport sets the backend when DTLS is connected and takes it away
\* when it is torn down, for good.
TransportConnected ==
  /\ pc = "idle" /\ backend = "absent" /\ backend' = "present"
  /\ UNCHANGED <<now, handle, control, pc, history, cleanup_at, failures, log>>

TransportTornDown ==
  /\ pc = "idle" /\ backend # "gone" /\ backend' = "gone"
  /\ UNCHANGED <<now, handle, control, pc, history, cleanup_at, failures, log>>

Tick ==
  /\ pc # "ended" /\ now < MaxTime /\ now' = now + 1
  /\ UNCHANGED <<handle, control, pc, backend, history, cleanup_at, failures, log>>

Application == Send \/ Drop \/ \E s \in Renumbers : Renumber(s)
Poll == \/ PollHistory \/ SendRtpFails \/ SendRtpUnconnected \/ PollEnds
        \/ \E size \in Sizes : SendRtp(size)
Environment == TransportConnected \/ TransportTornDown \/ Tick

Next == \/ Application \/ Poll \/ Environment
        \/ \E s \in Ids : ProcessNack(s)

Spec == Init /\ [][Next]_vars
-----------------------------------------------------------------------------
\* Type invariant of the sender; the byte count is the subject of HistoryKeeps.
TypeOK ==
  /\ now \in Nat /\ next \in Nat /\ current_sequence_number \in Ids
  /\ control \in Seq([nr : Nat, sequence : Ids]) /\ dropped \in BOOLEAN
  /\ pc \in {"idle", "control", "ended"}
  /\ backend \in {"absent", "present", "gone"}
  /\ packets \in Seq(Packets)
  /\ cleanup_at \in Nat \cup {Never}
  /\ failures \in 0 .. MaxFailures /\ renumbered \in BOOLEAN
  /\ log \in Seq([nr : Nat, size : Sizes, first : Nat, latest : Nat])

BytesCounted == current_byte_count = TotalSize(packets)

Retained ==
  \A i \in DOMAIN log :
    \/ \E j \in DOMAIN packets : packets[j].nr = log[i].nr
    \/ now - log[i].first >= MaxPacketAge
    \/ Len(log) - i + 1 > MaxSavedPackets
    \/ TotalSize(SubSeq(log, i, Len(log))) > MaxSavedBytes

\* The history drops what it has to and nothing else.  The counter that decides is
\* the size of what is saved: one too small underflows, one too large empties the
\* history and panics ("having saved bytes but no packet?!"); and a packet the
\* application sent recently can be retransmitted: the history has it unless it
\* is too old, or too many packets or bytes were sent since.
HistoryKeeps == BytesCounted /\ Retained

\* A NACK names one packet: no two packets of the history have the same number,
\* for as long as the application leaves the numbering alone and the numbers
\* wrap later than the history does, counting those srtp refused.
Unambiguous ==
  ~ renumbered /\ MaxSavedPackets + MaxFailures <= Modulus =>
    \A i, j \in DOMAIN packets : packets[i].sequence = packets[j].sequence => i = j

\* The same packet is put on the wire again only after min_resend_interval,
\* however many NACKs ask for it.
RetransmitPaced ==
  [][\A i \in DOMAIN log :
       log'[i].latest # log[i].latest => log'[i].latest - log[i].latest > MinResendInterval]_vars
=============================================================================
