----------------------------- MODULE SctpSession -----------------------------
(***************************************************************************)
(* UsrSctpSession (sctp/mod.rs) between usrsctp and the ChannelApplication *)
(* that polls it (application.rs).  usrsctp calls back with the packets to *)
(* send and the messages received: on the thread that called it, or on its *)
(* own timer thread.  A callback finds its session in a table under a      *)
(* mutex and puts an event in the session's channel.  Packets then go      *)
(* through write_queue to the transport; datagrams of the transport wait   *)
(* in read_queue until a poll hands them to usrsctp.                       *)
(*                                                                         *)
(* The task that polls a session is in                                     *)
(*   idle        between two polls                                         *)
(*   session     UsrSctpSession::poll_next takes the callbacks' events     *)
(*   input       it hands what was received to usrsctp                     *)
(*   output      ChannelApplication sends what the session wrote           *)
(*   actions     it executes what the data channels asked for              *)
(*   transports  the PeerConnection goes on to its transports              *)
(*                                                                         *)
(* usrsctp itself is external: what it does with a datagram is any of      *)
(* nothing, a message up, a packet out or both, and usrsctp_close returns  *)
(* only when no callback of that socket is running.                        *)
(***************************************************************************)
EXTENDS Naturals, Sequences, SequencesExt, FiniteSetsExt

CONSTANTS
  Sessions,     \* sessions the program creates, in the order of their socket ids
  TimerKinds,   \* the callbacks the timer thread of usrsctp makes
  MaxPackets,   \* bound of the packets usrsctp sends, all sessions together
  MaxDatagrams  \* bound of the datagrams that arrive

ASSUME SessionAssumption ==
  /\ TimerKinds \subseteq {"MessageSend", "MessageReceived"}
  /\ MaxPackets \in Nat /\ MaxDatagrams \in Nat

VARIABLES
  address_ids,       \* the instance table: socket ids ...
  address_instances, \* ... and what they stand for
  stage,   \* session -> none, live, destroyed (off the table), closed, gone (channel dropped)
  timer,   \* the callback the timer thread is in, or Idle
  aborted, \* a callback panicked, which aborts the process
  pc, wake, \* session -> where its task is, and whether it has been woken
  channel, \* session -> callback events not yet taken
  listening, \* the channel holds the waker of the task
  poll_waker, \* ChannelApplication holds it
  read_queue, write_queue,
  \* history: counts per session
  produced, \* packets usrsctp sent
  sent,     \* packets given to the transport
  arrived,  \* datagrams from the transport
  fed,      \* datagrams given to usrsctp
  raised,   \* messages usrsctp delivered
  handed    \* messages the channels got

table   == <<address_ids, address_instances>>
task    == <<pc, wake, poll_waker>>
queues  == <<read_queue, write_queue>>
counts  == <<produced, sent, arrived, fed, raised, handed>>
vars    == <<table, stage, timer, aborted, task, channel, listening, queues, counts>>

Nobody == "nobody"
Idle   == [kind |-> "none", of |-> Nobody]

Each(value) == [s \in Sessions |-> value]

EmptyTable == address_ids = <<>> /\ address_instances = <<>>

Init ==
  /\ EmptyTable
  /\ stage = Each("none") /\ timer = Idle /\ aborted = FALSE
  /\ pc = Each("idle") /\ wake = Each(FALSE) /\ poll_waker = Each(FALSE)
  /\ channel = Each(<<>>) /\ listening = Each(FALSE)
  /\ read_queue = Each(<<>>) /\ write_queue = Each(<<>>)
  /\ produced = Each(0) /\ sent = Each(0) /\ arrived = Each(0)
  /\ fed = Each(0) /\ raised = Each(0) /\ handed = Each(0)

Total(count) == MapThenSumSet(LAMBDA s : count[s], Sessions)

-----------------------------------------------------------------------------
(* The instance table and the callbacks.                                   *)

FindAddress(s) ==
  IF s \in ToSet(address_ids)
  THEN address_instances[CHOOSE i \in DOMAIN address_ids : address_ids[i] = s]
  ELSE Nobody

FaultyDestroyAddress(s) ==
  LET position == CHOOSE i \in DOMAIN address_ids : address_ids[i] = s
  IN  /\ address_ids' = RemoveAt(address_ids, position)
      /\ address_instances' = Front(address_instances)

DestroyAddress(s) ==
  LET position == CHOOSE i \in DOMAIN address_ids : address_ids[i] = s
  IN  /\ address_ids' = RemoveAt(address_ids, position)
      /\ address_instances' = RemoveAt(address_instances, position)

CreateAddress(s) ==
  /\ address_ids' = Append(address_ids, s)
  /\ address_instances' = Append(address_instances, s)

\* create_address, and the socket, which usrsctp may refuse: the session is not
\* made then and its address stays behind.
CreateSession(s) ==
  /\ stage[s] = "none"
  /\ CreateAddress(s)
  /\ \E created \in BOOLEAN :
       /\ stage' = [stage EXCEPT ![s] = IF created THEN "live" ELSE "failed"]
       /\ wake' = [wake EXCEPT ![s] = created]
  /\ UNCHANGED <<timer, aborted, pc, poll_waker, channel, listening, queues, counts>>

Packet(s, number)  == [kind |-> "MessageSend", of |-> s, number |-> number]
Message(s, number) == [kind |-> "MessageReceived", of |-> s, number |-> number]

\* The sends of the callbacks into the channel of one session wake its task.
Send(s, events) ==
  /\ channel' = [channel EXCEPT ![s] = @ \o events]
  /\ wake' = [wake EXCEPT ![s] = @ \/ (events # <<>> /\ listening[s])]
  /\ listening' = [listening EXCEPT ![s] = @ /\ events = <<>>]

\* Callbacks made while the owner of the session is in usrsctp: the session is
\* on the table.
Upcalls(s, out, up) ==
  /\ out = 1 => Total(produced) < MaxPackets
  /\ produced' = [produced EXCEPT ![s] = @ + out]
  /\ raised' = [raised EXCEPT ![s] = @ + up]
  /\ Send(FindAddress(s), (IF up = 1 THEN <<Message(s, raised[s] + 1)>> ELSE <<>>)
                          \o (IF out = 1 THEN <<Packet(s, produced[s] + 1)>> ELSE <<>>))

\* The timer thread enters a callback and looks its session up.
TimerFind(s) ==
  /\ timer = Idle /\ stage[s] \in {"live", "destroyed"}
  /\ Total(produced) < MaxPackets
  /\ \E kind \in TimerKinds :
       timer' = [kind |-> kind, of |-> s, target |-> FindAddress(s)]
  /\ UNCHANGED <<table, stage, aborted, task, channel, listening, queues, counts>>

\* It sends to the session it found: unwrap panics if the receiver is gone.  A
\* packet without a session is dropped, a message without one panics.
TimerSend ==
  /\ timer # Idle
  /\ timer' = Idle
  /\ LET s == timer.of
         t == timer.target
         up == timer.kind = "MessageReceived"
     IN  IF t = Nobody \/ stage[t] = "gone"
         THEN /\ aborted' = (aborted \/ t # Nobody \/ up)
              /\ UNCHANGED <<channel, listening, wake, produced, raised>>
         ELSE /\ IF up THEN raised' = [raised EXCEPT ![s] = @ + 1] /\ UNCHANGED produced
                       ELSE produced' = [produced EXCEPT ![s] = @ + 1] /\ UNCHANGED raised
              /\ Send(t, <<IF up THEN Message(s, raised[s] + 1) ELSE Packet(s, produced[s] + 1)>>)
              /\ UNCHANGED aborted
  /\ UNCHANGED <<table, stage, pc, poll_waker, queues, sent, arrived, fed, handed>>

-----------------------------------------------------------------------------
(* Dropping a session: first the table, then the fields in their order.    *)

DropSession(s) ==
  /\ stage[s] = "live" /\ pc[s] = "idle"
  /\ stage' = [stage EXCEPT ![s] = "destroyed"]
  /\ DestroyAddress(s)
  /\ UNCHANGED <<timer, aborted, task, channel, listening, queues, counts>>

\* usrsctp_close: the packets it still sends find nobody.
CloseSocket(s) ==
  /\ stage[s] = "destroyed"
  /\ timer.of # s
  /\ stage' = [stage EXCEPT ![s] = "closed"]
  /\ UNCHANGED <<table, timer, aborted, task, channel, listening, queues, counts>>

FaultyDropChannel(s) ==
  /\ stage[s] = "destroyed"
  /\ stage' = [stage EXCEPT ![s] = "gone"]
  /\ channel' = [channel EXCEPT ![s] = <<>>]
  /\ UNCHANGED <<table, timer, aborted, task, listening, queues, counts>>

DropChannel(s) ==
  /\ stage[s] = "closed"
  /\ stage' = [stage EXCEPT ![s] = "gone"]
  /\ channel' = [channel EXCEPT ![s] = <<>>]
  /\ UNCHANGED <<table, timer, aborted, task, listening, queues, counts>>

-----------------------------------------------------------------------------
(* A poll.                                                                 *)

At(s, step) == stage[s] = "live" /\ pc[s] = step
Go(s, step) == pc' = [pc EXCEPT ![s] = step]

PollBegin(s) ==
  /\ At(s, "idle") /\ wake[s]
  /\ Go(s, "session")
  /\ wake' = [wake EXCEPT ![s] = FALSE]
  /\ poll_waker' = [poll_waker EXCEPT ![s] = FALSE]
  /\ UNCHANGED <<table, stage, timer, aborted, channel, listening, queues, counts>>

\* SctpStream is where the session writes packets and reads datagrams.
Write(s, packet) == write_queue' = [write_queue EXCEPT ![s] = Append(@, packet)]

Read(s) == read_queue[s] # <<>> /\ read_queue' = [read_queue EXCEPT ![s] = Tail(@)]

TakePacket(s) ==
  /\ At(s, "session") /\ channel[s] # <<>> /\ Head(channel[s]).kind = "MessageSend"
  /\ channel' = [channel EXCEPT ![s] = Tail(@)]
  /\ Write(s, Head(channel[s]))
  /\ UNCHANGED <<table, stage, timer, aborted, task, listening, read_queue, counts>>

\* A message may give the application something: poll_next returns it and is
\* called again.  It may also be answered at once (an open is acknowledged).
TakeMessage(s) ==
  /\ At(s, "session") /\ channel[s] # <<>> /\ Head(channel[s]).kind = "MessageReceived"
  /\ handed' = [handed EXCEPT ![s] = @ + 1]
  /\ \E item, answer \in BOOLEAN :
       /\ answer => Total(produced) < MaxPackets
       /\ produced' = [produced EXCEPT ![s] = @ + (IF answer THEN 1 ELSE 0)]
       /\ channel' = [channel EXCEPT ![s] =
                        Tail(@) \o (IF answer THEN <<Packet(s, produced[s] + 1)>> ELSE <<>>)]
       /\ Go(s, IF item THEN "idle" ELSE "session")
       /\ wake' = [wake EXCEPT ![s] = @ \/ item]
  /\ UNCHANGED <<table, stage, timer, aborted, poll_waker, listening, queues, sent, arrived, fed, raised>>

\* The channel is empty and keeps the waker.
ChannelPending(s) ==
  /\ At(s, "session") /\ channel[s] = <<>>
  /\ Go(s, "input")
  /\ listening' = [listening EXCEPT ![s] = TRUE]
  /\ UNCHANGED <<table, stage, timer, aborted, wake, poll_waker, channel, queues, counts>>

\* usrsctp_conninput: usrsctp reacts before it returns.
FeedDatagram(s) ==
  /\ At(s, "input")
  /\ Read(s)
  /\ fed' = [fed EXCEPT ![s] = @ + 1]
  /\ \E out, up \in 0 .. 1 : Upcalls(s, out, up)
  /\ UNCHANGED <<table, stage, timer, aborted, pc, poll_waker, write_queue, sent, arrived, handed>>

ReadBlocks(s) ==
  /\ At(s, "input") /\ read_queue[s] = <<>>
  /\ Go(s, "output")
  /\ UNCHANGED <<table, stage, timer, aborted, wake, poll_waker, channel, listening, queues, counts>>

\* Everything the session wrote goes to the transport.
WritePackets(s) ==
  /\ At(s, "output")
  /\ Go(s, "actions")
  /\ sent' = [sent EXCEPT ![s] = @ + Len(write_queue[s])]
  /\ write_queue' = [write_queue EXCEPT ![s] = <<>>]
  /\ UNCHANGED <<table, stage, timer, aborted, wake, poll_waker, channel, listening, read_queue,
                 produced, arrived, fed, raised, handed>>

\* A data channel sends: usrsctp_sendv may call back with a packet.
ExecuteAction(s) ==
  /\ At(s, "actions")
  /\ Upcalls(s, 1, 0)
  /\ UNCHANGED <<table, stage, timer, aborted, pc, poll_waker, queues, sent, arrived, fed, handed>>

ActionsPending(s) ==
  /\ At(s, "actions")
  /\ Go(s, "transports")
  /\ poll_waker' = [poll_waker EXCEPT ![s] = TRUE]
  /\ UNCHANGED <<table, stage, timer, aborted, wake, channel, listening, queues, counts>>

FaultyHandleData(s) ==
  /\ At(s, "transports") /\ Total(arrived) < MaxDatagrams
  /\ arrived' = [arrived EXCEPT ![s] = @ + 1]
  /\ read_queue' = [read_queue EXCEPT ![s] = Append(@, arrived[s] + 1)]
  /\ UNCHANGED <<table, stage, timer, aborted, task, channel, listening, write_queue,
                 produced, sent, fed, raised, handed>>

\* handle_data comes after the poll of the channels, in the same poll of the
\* PeerConnection: the task has to be woken for the next one.
HandleData(s) ==
  /\ At(s, "transports") /\ Total(arrived) < MaxDatagrams
  /\ arrived' = [arrived EXCEPT ![s] = @ + 1]
  /\ read_queue' = [read_queue EXCEPT ![s] = Append(@, arrived[s] + 1)]
  /\ wake' = [wake EXCEPT ![s] = @ \/ poll_waker[s]]
  /\ UNCHANGED <<table, stage, timer, aborted, pc, poll_waker, channel, listening, write_queue,
                 produced, sent, fed, raised, handed>>

TaskSleeps(s) ==
  /\ At(s, "transports")
  /\ Go(s, "idle")
  /\ UNCHANGED <<table, stage, timer, aborted, wake, poll_waker, channel, listening, queues, counts>>

\* A transport or the application wakes the task.
Notify(s) ==
  /\ At(s, "idle") /\ ~wake[s]
  /\ wake' = [wake EXCEPT ![s] = TRUE]
  /\ UNCHANGED <<table, stage, timer, aborted, pc, poll_waker, channel, listening, queues, counts>>

-----------------------------------------------------------------------------

Poll(s) ==
  \/ PollBegin(s) \/ TakePacket(s) \/ TakeMessage(s) \/ ChannelPending(s)
  \/ FeedDatagram(s) \/ ReadBlocks(s) \/ WritePackets(s)
  \/ ExecuteAction(s) \/ ActionsPending(s) \/ HandleData(s) \/ TaskSleeps(s)

Drop(s) == DropSession(s) \/ CloseSocket(s) \/ DropChannel(s)

Next ==
  \/ \E s \in Sessions : CreateSession(s) \/ Poll(s) \/ Notify(s) \/ Drop(s) \/ TimerFind(s)
  \/ TimerSend

\* A woken task is polled and a poll comes to its end.
Fairness == \A s \in Sessions : WF_vars(Poll(s))

Spec == Init /\ [][Next]_vars /\ Fairness

-----------------------------------------------------------------------------
(* Properties.                                                             *)

TypeOK ==
  /\ stage \in [Sessions -> {"none", "failed", "live", "destroyed", "closed", "gone"}]
  /\ pc \in [Sessions -> {"idle", "session", "input", "output", "actions", "transports"}]
  /\ wake \in [Sessions -> BOOLEAN] /\ aborted \in BOOLEAN
  /\ Len(address_ids) = Len(address_instances)

Numbers(events, kind) ==
  LET chosen[n \in 0 .. Len(events)] ==
        IF n = 0 THEN <<>>
        ELSE IF events[n].kind = kind
             THEN Append(chosen[n - 1], <<events[n].of, events[n].number>>)
             ELSE chosen[n - 1]
  IN  chosen[Len(events)]

Rest(s, from, to) == [i \in 1 .. (to - from) |-> <<s, from + i>>]

\* Between usrsctp, the session and the transport every packet, message and
\* datagram of a session is in one place: none is lost, doubled or overtaken,
\* and none belongs to another session (sctp/mod.rs:186-200, 522-574).
Conveyed ==
  /\ TypeOK
  /\ \A s \in Sessions : stage[s] = "live" =>
       /\ Numbers(write_queue[s] \o channel[s], "MessageSend") = Rest(s, sent[s], produced[s])
       /\ Numbers(channel[s], "MessageReceived") = Rest(s, handed[s], raised[s])
       /\ read_queue[s] = [i \in 1 .. (arrived[s] - fed[s]) |-> fed[s] + i]

\* No callback panics: a session found on the table still has its receiver
\* when the event is sent (sctp/mod.rs:142-151, 207-268, 513-517).
NoAbort == ~aborted

\* What waits for a poll gets one: no packet, message or datagram stays behind
\* because its task was not woken (application.rs:540, 546-610).
Waits(s) == stage[s] = "live" /\ (channel[s] # <<>> \/ write_queue[s] # <<>> \/ read_queue[s] # <<>>)

Flows == \A s \in Sessions : Waits(s) ~> ~Waits(s)
=============================================================================
