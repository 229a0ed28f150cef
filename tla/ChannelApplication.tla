------------------------- MODULE ChannelApplication -------------------------
(***************************************************************************)
(* Data channels (application.rs): the ChannelApplication of two peers     *)
(* that talk over one SCTP association.  Each keeps the channels it knows  *)
(* by stream id; the DataChannel handles given to the application reach it *)
(* through an action queue and are told about their channel by events.     *)
(* Labels, protocols, priorities and payloads are left out: a message is   *)
(* the handle that sent it.                                                *)
(***************************************************************************)
EXTENDS SctpAssociation

CONSTANTS
  Orderings,   \* is_ordered() of the channel types the application uses
  Early,       \* channels may be created before the association is up
  MaxOpened,   \* bound of the channels opened, by both sides together
  MaxMessages, \* bound of the messages the applications send
  MaxCloses    \* bound of the handles they close or drop

ASSUME ChannelAssumption ==
  /\ Orderings \subseteq BOOLEAN /\ Early \in BOOLEAN
  /\ MaxOpened \in Nat /\ MaxMessages \in Nat /\ MaxCloses \in Nat

VARIABLES
  assoc,      \* endpoint -> state: Disconnected, Connecting or Connected
  described,  \* endpoint -> remote_config is known
  client,     \* endpoint -> dtls_role_client
  channels,   \* endpoint -> internal_channels: id -> [state, handle]
  pending,    \* endpoint -> pending_stream_resets
  actions,    \* endpoint -> queue of DataChannelActions of its handles
  handles,    \* the DataChannels given out, oldest first
  \* history: what the events of a handle reported, in order
  stage,      \* handle -> last state reported
  inbox,      \* handle -> handles whose messages it received
  messages,   \* messages sent so far
  closes      \* handles closed or dropped so far

endpointVars == <<assoc, described, client, channels, pending, actions>>
handleVars   == <<handles, stage, inbox, messages, closes>>
vars         == <<association, endpointVars, handleVars>>

Handles == 1 .. Len(handles)

\* The DTLS server of the two, once the descriptions are exchanged.
Server == "b"

Holds(e, s) == s \in DOMAIN channels[e]
Put(f, k, v) == [x \in DOMAIN f \cup {k} |-> IF x = k THEN v ELSE f[x]]

\* Stream ids an endpoint opens channels on: even for the DTLS client.
OwnParity(e) == IF client[e] THEN 0 ELSE 1

Channel(state, h) == [state |-> state, handle |-> h]

\* held tells what the application did with the handle; state is the field
\* copied when the handle was made.
Handle(e, s, state, ordered, opener) ==
  [at |-> e, id |-> s, state |-> state, ordered |-> ordered, held |-> "held", opener |-> opener]

Init ==
  /\ AssociationInit
  /\ assoc = [e \in Endpoints |-> "Disconnected"]
  /\ described = [e \in Endpoints |-> FALSE]
  /\ client = [e \in Endpoints |-> TRUE]
  /\ channels = [e \in Endpoints |-> << >>]
  /\ pending = [e \in Endpoints |-> {}]
  /\ actions = [e \in Endpoints |-> << >>]
  /\ handles = << >> /\ stage = << >> /\ inbox = << >> /\ messages = 0 /\ closes = 0
-----------------------------------------------------------------------------
(***************************************************************************)
(* send_outgoing_stream_resets with the streams P pending: the messages it *)
(* puts on the wire and what it leaves pending.  A refused request waits   *)
(* for the next call.                                                      *)
(***************************************************************************)
ResetRequest(e, P) == IF P = {} \/ Refuses(e) THEN << >> ELSE <<Reset(P)>>

\* Faulty: what was refused is forgotten.
ForgetRefused(e, P) == {}

StillPending(e, P) == IF Refuses(e) THEN P ELSE {}
NowResetting(e, P) == IF Refuses(e) THEN resetting[e] ELSE P

SendResets(e, P) ==
  /\ pending' = [pending EXCEPT ![e] = StillPending(e, P)]
  /\ resetting' = [resetting EXCEPT ![e] = NowResetting(e, P)]

\* What e sends while the rest of the wire stays.
Transmit(e, queue) == wire' = [wire EXCEPT ![Peer(e)] = @ \o queue]

\* close_datachannel_locally: only a channel that connects or is open closes.
Closable(e, s) == Holds(e, s) /\ channels[e][s].state \in {"Connecting", "Open"}
ClosedChannels(e, s) == [channels EXCEPT ![e][s].state = "Closing"]
-----------------------------------------------------------------------------
(***************************************************************************)
(* The session: descriptions, transport, association.                      *)
(***************************************************************************)

\* set_remote_description: the first one fixes the DTLS role.
SetRemoteDescription(e) ==
  /\ ~ described[e]
  /\ described' = [described EXCEPT ![e] = TRUE]
  /\ client' = [client EXCEPT ![e] = (e # Server)]
  /\ UNCHANGED <<association, assoc, channels, pending, actions, handleVars>>

HandleTransportConnected(e) ==
  /\ described[e] /\ assoc[e] = "Disconnected"
  /\ assoc' = [assoc EXCEPT ![e] = "Connecting"]
  /\ UNCHANGED <<association, described, client, channels, pending, actions, handleVars>>

\* The notification CommUp: the handshake needs both sides to connect.
AssocChange(e) ==
  /\ assoc[e] = "Connecting" /\ assoc[Peer(e)] # "Disconnected"
  /\ assoc' = [assoc EXCEPT ![e] = "Connected"]
  /\ UNCHANGED <<association, described, client, channels, pending, actions, handleVars>>
-----------------------------------------------------------------------------
(***************************************************************************)
(* Calls of the application.                                               *)
(***************************************************************************)

\* The smallest id of the own parity that no channel has; none when all of
\* them are taken, and the call is an error.

\* Faulty: one id too many.
FreeIdsOneMore(e) == {s \in 0 .. 2 * MaxOutgoing : s % 2 = OwnParity(e) /\ ~ Holds(e, s)}

FreeIds(e) == {s \in Streams : s % 2 = OwnParity(e) /\ ~ Holds(e, s)}

CreateDataChannel(e, ordered) ==
  /\ Cardinality({h \in Handles : handles[h].opener = h}) < MaxOpened
  /\ Early \/ assoc[e] = "Connected"
  /\ \E s \in FreeIds(e) :
       /\ \A t \in FreeIds(e) : s <= t
       /\ LET h     == Len(handles) + 1
              up    == assoc[e] = "Connected"
              state == IF up THEN "Connecting" ELSE "Closed"
          IN /\ handles' = Append(handles, Handle(e, s, state, ordered, h))
             /\ stage' = Append(stage, state) /\ inbox' = Append(inbox, << >>)
             /\ channels' = [channels EXCEPT ![e] = Put(@, s, Channel(state, h))]
             /\ IF up THEN Transmit(e, Sent(e, Control("Open", s, h))) ELSE UNCHANGED wire
  /\ UNCHANGED <<resetting, answered, assoc, described, client, pending, actions, messages, closes>>

Enqueue(e, kind, s, h) ==
  actions' = [actions EXCEPT ![e] = Append(@, [kind |-> kind, id |-> s, handle |-> h])]

\* send_text_message, send_binary_message
SendMessage(h) ==
  /\ handles[h].held # "dropped" /\ handles[h].state = "Open"
  /\ messages < MaxMessages /\ messages' = messages + 1
  /\ Enqueue(handles[h].at, "SendMessage", handles[h].id, h)
  /\ UNCHANGED <<association, assoc, described, client, channels, pending, handles, stage, inbox, closes>>

\* close(), called once.
Close(h) ==
  /\ handles[h].held = "held" /\ handles[h].state \notin {"Closed", "Closing"}
  /\ closes < MaxCloses /\ closes' = closes + 1
  /\ handles' = [handles EXCEPT ![h].held = "closed"]
  /\ Enqueue(handles[h].at, "Close", handles[h].id, h)
  /\ UNCHANGED <<association, assoc, described, client, channels, pending, stage, inbox, messages>>

\* Drop for DataChannel
Drop(h) ==
  /\ handles[h].held # "dropped"
  /\ closes < MaxCloses /\ closes' = closes + 1
  /\ handles' = [handles EXCEPT ![h].held = "dropped"]
  /\ IF handles[h].state \in {"Connecting", "Open"}
     THEN Enqueue(handles[h].at, "Close", handles[h].id, h)
     ELSE UNCHANGED actions
  /\ UNCHANGED <<association, assoc, described, client, channels, pending, stage, inbox, messages>>
-----------------------------------------------------------------------------
(***************************************************************************)
(* ChannelApplication::poll_next.                                          *)
(***************************************************************************)

\* Faulty: the id is free at once.
CloseAndForget(e, s, w) ==
  /\ channels' = [channels EXCEPT ![e] = [t \in DOMAIN @ \ {s} |-> @[t]]]
  /\ stage' = [stage EXCEPT ![channels[e][s].handle] = "Closed"]
  /\ SendResets(e, pending[e] \cup {s})
  /\ wire' = [w EXCEPT ![Peer(e)] = @ \o ResetRequest(e, pending[e] \cup {s})]

\* close_datachannel_locally for a channel that can close, and the wire after
\* it when the message taken has left the queue w.
CloseLocally(e, s, w) ==
  /\ channels' = ClosedChannels(e, s)
  /\ stage' = [stage EXCEPT ![channels[e][s].handle] = "Closing"]
  /\ SendResets(e, pending[e] \cup {s})
  /\ wire' = [w EXCEPT ![Peer(e)] = @ \o ResetRequest(e, pending[e] \cup {s})]

\* An action of a handle; the state of the channel is not asked before a
\* message is sent.
ProcessAction(e) ==
  /\ actions[e] # << >>
  /\ actions' = [actions EXCEPT ![e] = Tail(@)]
  /\ LET a == Head(actions[e]) IN
     \/ /\ a.kind = "Close" /\ Closable(e, a.id)
        /\ CloseLocally(e, a.id, wire)
     \/ /\ a.kind = "Close" /\ ~ Closable(e, a.id)
        /\ UNCHANGED <<wire, resetting, channels, pending, stage>>
     \/ /\ a.kind = "SendMessage"
        /\ IF Holds(e, a.id)
           THEN LET c       == channels[e][a.id]
                    ordered == c.state = "Open" => handles[c.handle].ordered
                IN Transmit(e, Sent(e, Data(a.id, a.handle, ordered, stage[a.handle] = "Open")))
           ELSE UNCHANGED wire
        /\ UNCHANGED <<resetting, channels, pending, stage>>
  /\ UNCHANGED <<answered, assoc, described, client, handles, inbox, messages, closes>>

\* What an accepted open does on the stream s.
Accept(e, m, s, w) ==
  LET h == Len(handles) + 1 IN
  /\ handles' = Append(handles, Handle(e, s, "Open", handles[m.from].ordered, m.from))
  /\ stage' = Append(stage, "Open") /\ inbox' = Append(inbox, << >>)
  /\ channels' = [channels EXCEPT ![e] = Put(@, s, Channel("Open", h))]
  /\ wire' = [w EXCEPT ![Peer(e)] = @ \o Sent(e, Control("Ack", s, m.from))]
  /\ UNCHANGED <<resetting, pending>>

\* Faulty: whatever has the id, the open is acknowledged.
AckAnyOpen(e, m, w) ==
  \E s \in m.streams :
    \/ /\ Holds(e, s)
       /\ wire' = [w EXCEPT ![Peer(e)] = @ \o Sent(e, Control("Ack", s, m.from))]
       /\ UNCHANGED <<resetting, channels, pending, handles, stage, inbox>>
    \/ ~ Holds(e, s) /\ Accept(e, m, s, w)

\* Faulty: a channel that has the id is opened again.
ReviveOnOpen(e, m, w) ==
  \E s \in m.streams :
    \/ /\ Holds(e, s)
       /\ channels' = [channels EXCEPT ![e][s].state = "Open"]
       /\ wire' = [w EXCEPT ![Peer(e)] = @ \o Sent(e, Control("Ack", s, m.from))]
       /\ UNCHANGED <<resetting, pending, handles, stage, inbox>>
    \/ ~ Holds(e, s) /\ Accept(e, m, s, w)

\* DATA_CHANNEL_OPEN: on an id of the own parity it is answered by a reset, on
\* one that is taken it closes the channel there, else a channel appears.
ReceiveOpen(e, m, w) ==
  \E s \in m.streams :
    \/ /\ s % 2 = OwnParity(e)
       /\ SendResets(e, pending[e] \cup {s})
       /\ wire' = [w EXCEPT ![Peer(e)] = @ \o ResetRequest(e, pending[e] \cup {s})]
       /\ UNCHANGED <<channels, handles, stage, inbox>>
    \/ /\ s % 2 # OwnParity(e) /\ Closable(e, s)
       /\ CloseLocally(e, s, w)
       /\ UNCHANGED <<handles, inbox>>
    \/ /\ s % 2 # OwnParity(e) /\ Holds(e, s) /\ ~ Closable(e, s)
       /\ wire' = w
       /\ UNCHANGED <<resetting, channels, pending, handles, stage, inbox>>
    \/ /\ s % 2 # OwnParity(e) /\ ~ Holds(e, s)
       /\ Accept(e, m, s, w)

\* Faulty: an acknowledgement opens a channel in any state.
OpenAckReopens(e, m, w) ==
  /\ wire' = w
  /\ \E s \in m.streams :
       \/ /\ Holds(e, s)
          /\ channels' = [channels EXCEPT ![e][s].state = "Open"]
          /\ stage' = [stage EXCEPT ![channels[e][s].handle] = "Open"]
       \/ /\ ~ Holds(e, s)
          /\ UNCHANGED <<channels, stage>>
  /\ UNCHANGED <<resetting, pending, handles, inbox>>

\* DATA_CHANNEL_ACK
ReceiveOpenAck(e, m, w) ==
  /\ wire' = w
  /\ \E s \in m.streams :
       \/ /\ Holds(e, s) /\ channels[e][s].state = "Connecting"
          /\ channels' = [channels EXCEPT ![e][s].state = "Open"]
          /\ stage' = [stage EXCEPT ![channels[e][s].handle] = "Open"]
       \/ /\ ~ (Holds(e, s) /\ channels[e][s].state = "Connecting")
          /\ UNCHANGED <<channels, stage>>
  /\ UNCHANGED <<resetting, pending, handles, inbox>>

ReceiveData(e, m, w) ==
  /\ wire' = w
  /\ \E s \in m.streams :
       IF Closable(e, s)
       THEN inbox' = [inbox EXCEPT ![channels[e][s].handle] = Append(@, [from |-> m.from, open |-> m.open])]
       ELSE UNCHANGED inbox
  /\ UNCHANGED <<resetting, channels, pending, handles, stage>>

\* The peer resets its outgoing streams: the channels on them are gone.  The
\* own side of the streams is not reset; requests refused before are retried.
ReceiveReset(e, m, w) ==
  LET gone == m.streams \cap DOMAIN channels[e]
      told == {channels[e][s].handle : s \in gone}
  IN /\ channels' = [channels EXCEPT ![e] = [s \in DOMAIN @ \ gone |-> @[s]]]
     /\ stage' = [h \in Handles |-> IF h \in told THEN "Closed" ELSE stage[h]]
     /\ SendResets(e, pending[e])
     /\ wire' = [w EXCEPT ![Peer(e)] = @ \o ResetRequest(e, pending[e])]
     /\ UNCHANGED <<handles, inbox>>

Receive(e) ==
  /\ assoc[e] = "Connected"
  /\ \E i \in 1 .. Len(wire[e]) :
       /\ Deliverable(e, i)
       /\ LET m == wire[e][i]
              w == [wire EXCEPT ![e] = RemoveAt(@, i)]
          IN /\ \/ m.kind = "Open" /\ ReceiveOpen(e, m, w)
                \/ m.kind = "Ack" /\ ReceiveOpenAck(e, m, w)
                \/ m.kind = "Data" /\ ReceiveData(e, m, w)
                \/ m.kind = "Reset" /\ ReceiveReset(e, m, w)
             /\ answered' = IF m.kind = "Reset" THEN [answered EXCEPT ![Peer(e)] = TRUE]
                            ELSE answered
  /\ UNCHANGED <<assoc, described, client, actions, messages, closes>>

\* The peer has carried out the reset request: the notification, which does
\* not carry the incoming flag, only retries what was refused before.

\* Faulty: nothing is retried.
ResetAnsweredOnly(e) ==
  /\ answered[e]
  /\ answered' = [answered EXCEPT ![e] = FALSE]
  /\ resetting' = [resetting EXCEPT ![e] = {}]
  /\ UNCHANGED <<wire, assoc, described, client, channels, pending, actions, handleVars>>

ResetAnswered(e) ==
  /\ answered[e]
  /\ answered' = [answered EXCEPT ![e] = FALSE]
  /\ pending' = [pending EXCEPT ![e] = {}]
  /\ resetting' = [resetting EXCEPT ![e] = pending[e]]
  /\ Transmit(e, IF pending[e] = {} THEN << >> ELSE <<Reset(pending[e])>>)
  /\ UNCHANGED <<assoc, described, client, channels, actions, handleVars>>
-----------------------------------------------------------------------------
Session(e) == SetRemoteDescription(e) \/ HandleTransportConnected(e) \/ AssocChange(e)
Poll(e) == ProcessAction(e) \/ Receive(e) \/ ResetAnswered(e)
Application ==
  \/ \E e \in Endpoints, ordered \in Orderings : CreateDataChannel(e, ordered)
  \/ \E h \in Handles : SendMessage(h) \/ Close(h) \/ Drop(h)

Next == (\E e \in Endpoints : Session(e) \/ Poll(e)) \/ Application

\* The executor polls the task when it is woken: by a message of the session,
\* a notification or an action.  Applications and the session may stop.
Fairness == \A e \in Endpoints : WF_vars(ProcessAction(e)) /\ WF_vars(Receive(e)) /\ WF_vars(ResetAnswered(e))

Spec == Init /\ [][Next]_vars
FairSpec == Spec /\ Fairness
-----------------------------------------------------------------------------
States == {"Connecting", "Open", "Closing", "Closed"}
Messages == [kind : {"Open", "Ack", "Data", "Reset"}, streams : SUBSET Streams,
             from : 0 .. 2 * MaxOpened, ordered : BOOLEAN, open : BOOLEAN]

\* Type invariant of both endpoints, their handles and the association.
TypeOK ==
  /\ wire \in [Endpoints -> Seq(Messages)]
  /\ resetting \in [Endpoints -> SUBSET Streams] /\ answered \in [Endpoints -> BOOLEAN]
  /\ assoc \in [Endpoints -> {"Disconnected", "Connecting", "Connected"}]
  /\ described \in [Endpoints -> BOOLEAN] /\ client \in [Endpoints -> BOOLEAN]
  /\ \A e \in Endpoints :
       /\ DOMAIN channels[e] \subseteq Streams
       /\ \A s \in DOMAIN channels[e] :
            channels[e][s].state \in States /\ channels[e][s].handle \in Handles
  /\ pending \in [Endpoints -> SUBSET Streams]
  /\ actions \in [Endpoints -> Seq([kind : {"SendMessage", "Close"}, id : Streams, handle : Handles])]
  /\ handles \in Seq([at : Endpoints, id : Streams, state : States, ordered : BOOLEAN,
                      held : {"held", "closed", "dropped"}, opener : Handles])
  /\ stage \in Seq(States) /\ inbox \in Seq(Seq([from : Handles, open : BOOLEAN]))
  /\ Len(stage) = Len(handles) /\ Len(inbox) = Len(handles)
  /\ messages \in 0 .. MaxMessages /\ closes \in 0 .. MaxCloses

\* An id that is open on both sides carries the same channel: no late open or
\* acknowledgement of a closed channel ever opens the one that took its id.
OpenTogether ==
  \A s \in DOMAIN channels["a"] \cap DOMAIN channels["b"] :
    channels["a"][s].state = "Open" /\ channels["b"][s].state = "Open" =>
      handles[channels["a"][s].handle].opener = handles[channels["b"][s].handle].opener

\* A channel its side opened is open only if the peer accepted that very one.
AckedIsAccepted ==
  \A e \in Endpoints : \A s \in DOMAIN channels[e] :
    LET h == channels[e][s].handle IN
    handles[h].opener = h /\ channels[e][s].state = "Open" =>
      \E g \in Handles : g # h /\ handles[g].opener = h

\* What was sent on an open channel is received on that channel or not at all,
\* whoever takes over its id.
RightChannel ==
  \A h \in Handles : \A i \in 1 .. Len(inbox[h]) :
    inbox[h][i].open => handles[inbox[h][i].from].opener = handles[h].opener

\* What the events of a handle promise its user.
Lifecycle == INSTANCE DataChannelLifecycle WITH stage <- stage, inbox <- inbox
LifecyclePromise == Lifecycle!LifecycleSpec

\* A stream reset that was refused while another one was under way is requested
\* again: no channel waits in pending_stream_resets for good.
ResetsRequested == \A e \in Endpoints : pending[e] # {} ~> pending[e] = {}

\* A channel closed on one side closes on the other one as well.
Closes(h) == h \in Handles /\ stage[h] \in {"Closing", "Closed"}
CloseReachesPeer ==
  \A h \in 1 .. 2 * MaxOpened :
    Closes(h) ~> h \in Handles /\ \A g \in Handles : handles[g].opener = handles[h].opener => Closes(g)
=============================================================================
