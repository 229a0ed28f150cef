---------------------------- MODULE Negotiation -----------------------------
(***************************************************************************)
(* Signalling of two PeerConnections (rtc.rs) with their media lines       *)
(* (media/media_line.rs) and senders (media/sender.rs).                    *)
(*                                                                         *)
(* A PeerConnection is called and polled by one task at a time, so each of *)
(* its methods is one action, create_local_description excepted: other     *)
(* tasks own the MediaSender handles and may change a property between the *)
(* moment a sender is written to the description and the moment it is      *)
(* promoted.  The applications carry descriptions in order (wire).         *)
(*                                                                         *)
(* A description is a sequence of media, as in SDP, and the index of a     *)
(* line is its position there, counted from 1; NoIndex is None.  Both      *)
(* peers bundle everything on the first transport they have, of which only *)
(* the owner matters here.                                                 *)
(***************************************************************************)
EXTENDS Naturals, Sequences, Functions, FiniteSetsExt

CONSTANTS
  Peer,
  Media,         \* media types with codecs
  Ssrc,          \* ssrcs a peer gives to its senders: Ssrc[p]
  ChannelsAllow, \* peers with allow_application_channel
  Initiators     \* peers whose application makes the first offer

ASSUME NegotiationAssumption ==
  /\ IsFiniteSet(Peer) /\ Cardinality(Peer) = 2
  /\ "application" \notin Media
  /\ ChannelsAllow \subseteq Peer /\ Initiators \subseteq Peer
  /\ DOMAIN Ssrc = Peer
  /\ \A p, q \in Peer : p # q => Ssrc[p] \cap Ssrc[q] = {}

VARIABLES
  peer,        \* the fields of each PeerConnection, see NewPeer
  describing,  \* the description being written: <<>> or <<description>>
  wire,        \* descriptions on their way to a peer
  used,        \* ssrcs given away so far
  failed,      \* an offer failed before anything was negotiated
  refused      \* set_remote_description returned an error

vars == <<peer, describing, wire, used, failed, refused>>

Application == "application"
NoIndex == 0
NoOwner == 0
Other(p) == CHOOSE q \in Peer : q # p
Streams == UNION {Ssrc[p] : p \in Peer}

SignallingState ==
  {"None", "HaveLocalOffer", "HaveRemoteOffer", "Negotiated", "NegotiationRequired"}
NegotiationState == {"None", "Changed", "Propagated", "Negotiated"}
Pending(state) == state \in {"None", "Changed"}

-----------------------------------------------------------------------------
(* Media lines and senders                                                 *)

\* allow_setting_change and try_change(true), whose result is state # "Propagated"
FaultyTouched(state) == state
Touched(state) == IF state = "Negotiated" THEN "Changed" ELSE state

NewLine(id, type) ==
  [id |-> id, type |-> type, index |-> NoIndex, state |-> "None",
   codecs |-> FALSE, local |-> {}, remote |-> {}]

\* stale: a property changed since write_sdp; open: the handle exists
NewSender(line) == [line |-> line, state |-> "None", stale |-> FALSE, open |-> TRUE]

Registered(pc) == {l \in Range(pc.lines) : l.index # NoIndex}
Indexes(pc) == {l.index : l \in Registered(pc)}
LineOf(pc, s) == CHOOSE l \in Range(pc.lines) : l.id = pc.senders[s].line

AppendLine(pc, line) ==
  [pc EXCEPT !.lines = Append(@, line), !.made = @ + 1,
             !.owner = IF @ = NoOwner THEN line.id ELSE @]

\* allocate_media_line, the position of its result
FreeLine(pc, type) ==
  {i \in DOMAIN pc.lines : pc.lines[i].type = type /\ pc.lines[i].local = {}}
Allocate(pc, type) ==
  IF FreeLine(pc, type) # {} THEN pc ELSE AppendLine(pc, NewLine(pc.made + 1, type))

\* poll_stream_sender: the senders whose handle is gone
Gone(pc) == {s \in DOMAIN pc.senders : ~pc.senders[s].open}

Loses(pc, line) == line.local \cap Gone(pc) # {}
FaultyKept(pc, line) == Loses(pc, line) => line.local \ Gone(pc) # {} \/ line.remote # {}
Kept(pc, line) ==
  Loses(pc, line) => \/ line.local \ Gone(pc) # {} \/ line.remote # {}
                     \/ line.index # NoIndex
Bereft(pc, line) ==
  IF ~Loses(pc, line) THEN line
  ELSE [line EXCEPT !.local = @ \ Gone(pc),
                    !.state = IF @ # "None" THEN "Changed" ELSE @]

RemoveClosed(pc) ==
  LET kept[n \in 0 .. Len(pc.lines)] ==
        IF n = 0 THEN <<>>
        ELSE IF Kept(pc, pc.lines[n]) THEN Append(kept[n - 1], Bereft(pc, pc.lines[n]))
             ELSE kept[n - 1]
  IN [pc EXCEPT !.senders = Restrict(@, DOMAIN @ \ Gone(pc)), !.lines = kept[Len(pc.lines)]]

-----------------------------------------------------------------------------
(* set_remote_description                                                  *)
\* update_media_line_streams: the receivers of the line follow its remote streams.
FollowStreams(pc, line) ==
  LET left == {s \in DOMAIN pc.receivers : pc.receivers[s] # line.id \/ s \in line.remote}
  IN [pc EXCEPT !.receivers =
        [s \in left \cup line.remote |-> IF s \in left THEN @[s] ELSE line.id]]

\* A line of this peer for the media at index k: the one registered there, or
\* the first one of the type that is not registered yet.
LineFor(pc, k, media) ==
  LET here == {i \in DOMAIN pc.lines : pc.lines[i].index = k}
      free == {i \in DOMAIN pc.lines : pc.lines[i].index = NoIndex /\ pc.lines[i].type = media.type}
  IN IF here # {} THEN here ELSE IF free # {} THEN {Min(free)} ELSE {}

\* new_from_sdp and update_from_sdp: a line without senders was described as
\* recvonly, without streams.
FromSdp(line, k, media) == [line EXCEPT !.index = k, !.remote = media.streams]

\* The type of a registered line is not compared with the one of the media; only
\* the payload types of an application have no codec a media line could parse.
UpdateLine(pc, i, k, media) ==
  LET line == FromSdp(pc.lines[i], k, media)
      updated == [pc EXCEPT !.lines[i] = line]
      fits == IF line.type = Application THEN pc.channel ELSE media.type # Application
  IN IF fits THEN [ok |-> TRUE, pc |-> FollowStreams(updated, line)]
             ELSE [ok |-> FALSE, pc |-> updated]

AddLine(p, pc, k, media) ==
  LET line == FromSdp(NewLine(pc.made + 1, media.type), k, media)
      added == AppendLine(pc, line)
  IN IF media.type # Application
     THEN [ok |-> TRUE, pc |-> FollowStreams(added, line)]
     ELSE IF pc.channel \/ p \in ChannelsAllow
          THEN [ok |-> TRUE, pc |-> [added EXCEPT !.channel = TRUE]]
          ELSE [ok |-> FALSE, pc |-> [added EXCEPT !.lines = pc.lines]]

\* The media one after the other, up to the first error.
ApplyMedia(p, pc, description) ==
  LET applied[k \in 0 .. Len(description)] ==
        IF k = 0 THEN [ok |-> TRUE, pc |-> pc]
        ELSE LET acc   == applied[k - 1]
                 media == description[k]
             IN IF ~acc.ok THEN acc
                ELSE IF LineFor(acc.pc, k, media) = {} THEN AddLine(p, acc.pc, k, media)
                     ELSE UpdateLine(acc.pc, Min(LineFor(acc.pc, k, media)), k, media)
  IN applied[Len(description)]

\* Lines and senders whose negotiation state is one of `from` become `state`.
Promoted(pc, ids, from, state) ==
  [pc EXCEPT
     !.lines = [i \in DOMAIN @ |->
       IF @[i].id \in ids /\ @[i].state \in from THEN [@[i] EXCEPT !.state = state] ELSE @[i]],
     !.senders = [s \in DOMAIN @ |->
       IF @[s].state \in from THEN [@[s] EXCEPT !.state = state] ELSE @[s]]]
LineIds(lines) == {l.id : l \in lines}

\* An answer settles what was propagated; an offer waits for the answer.
FaultyApplied(pc) ==
  IF pc.signalling_state = "HaveLocalOffer"
  THEN [Promoted(pc, LineIds(Range(pc.lines)), NegotiationState, "Negotiated")
          EXCEPT !.signalling_state = "Negotiated"]
  ELSE [pc EXCEPT !.signalling_state = "HaveRemoteOffer"]
FaultyAnswered(pc) ==
  IF pc.signalling_state = "HaveLocalOffer"
  THEN [Promoted(pc, LineIds(Range(pc.lines)), {"Propagated"}, "Negotiated")
          EXCEPT !.signalling_state =
            IF \E l \in Range(pc.lines) : Pending(l.state) THEN @ ELSE "Negotiated"]
  ELSE [pc EXCEPT !.signalling_state = "HaveRemoteOffer"]
Applied(pc) ==
  IF pc.signalling_state = "HaveLocalOffer"
  THEN [Promoted(pc, LineIds(Range(pc.lines)), {"Propagated"}, "Negotiated")
          EXCEPT !.signalling_state = "Negotiated"]
  ELSE [pc EXCEPT !.signalling_state = "HaveRemoteOffer"]

Accepts(signalling_state, mode) ==
  IF mode = "offer" THEN signalling_state \in {"None", "Negotiated"}
                    ELSE signalling_state = "HaveLocalOffer"

\* The application hands over the next description.
Delivered(p) ==
  /\ wire[p] # <<>> /\ describing[p] = <<>>
  /\ wire' = [wire EXCEPT ![p] = Tail(@)]

SetRemoteDescription(p) ==
  /\ Delivered(p)
  /\ LET d == Head(wire[p])
         accepted == Accepts(peer[p].signalling_state, d.mode)
     IN \E result \in {ApplyMedia(p, peer[p], d.media)} :
          /\ peer' = [peer EXCEPT ![p] = IF ~accepted THEN @
                                        ELSE IF result.ok THEN Applied(result.pc) ELSE result.pc]
          /\ refused' = (refused \/ ~accepted \/ ~result.ok)
  /\ UNCHANGED <<describing, used, failed>>

-----------------------------------------------------------------------------
(* create_local_description                                                *)

\* Lines without an index get the next ones, in their order.
AssignFrom(pc, first) ==
  LET next[i \in 0 .. Len(pc.lines)] ==
        IF i = 0 THEN first
        ELSE IF pc.lines[i].index = NoIndex THEN next[i - 1] + 1 ELSE next[i - 1]
  IN [pc EXCEPT !.lines = [i \in DOMAIN @ |->
        IF @[i].index = NoIndex THEN [@[i] EXCEPT !.index = next[i - 1]] ELSE @[i]]]
FaultyAssignIndexes(pc) == AssignFrom(pc, Max(Indexes(pc) \cup {1}))
AssignIndexes(pc) == AssignFrom(pc, 1 + Max(Indexes(pc) \cup {NoIndex}))

Describable(pc, line) == IF line.type = Application THEN pc.channel ELSE line.codecs

\* The registered lines in the order of their indexes, which are 1 .. n, each once
\* (IndexesInOrder), with their senders.
MediaOf(pc) ==
  LET at(k)      == CHOOSE l \in Registered(pc) : l.index = k
      streams(l) == {s \in DOMAIN pc.senders : pc.senders[s].line = l.id}
  IN [k \in Indexes(pc) |-> [type |-> at(k).type, streams |-> streams(at(k))]]

Written(pc) ==
  [pc EXCEPT !.senders = [s \in DOMAIN @ |->
     IF \E l \in Registered(pc) : l.id = @[s].line
     THEN [@[s] EXCEPT !.stale = FALSE] ELSE @[s]]]

FaultyMayDescribe(signalling_state) == signalling_state # "Negotiated"
MayDescribe(signalling_state) == signalling_state \notin {"HaveLocalOffer", "Negotiated"}

\* Everything up to the description is complete, or DescribeError.  What was
\* assigned and flushed on the way stays so.
CreateLocalDescription(p) ==
  LET offer == peer[p].signalling_state # "HaveRemoteOffer"
  IN /\ describing[p] = <<>>
     /\ MayDescribe(peer[p].signalling_state)
     /\ peer[p].signalling_state = "None" => p \in Initiators
     /\ \E pc \in {RemoveClosed(IF offer THEN AssignIndexes(peer[p]) ELSE peer[p])} :
          \/ /\ \A l \in Registered(pc) : Describable(pc, l)
             /\ describing' = [describing EXCEPT ![p] =
                  <<[mode |-> IF offer THEN "offer" ELSE "answer", media |-> MediaOf(pc)]>>]
             /\ peer' = [peer EXCEPT ![p] = Written(pc)]
             /\ UNCHANGED failed
          \/ /\ \E l \in Registered(pc) : ~Describable(pc, l)
             /\ peer' = [peer EXCEPT ![p] = pc]
             /\ failed' = (failed \/ peer[p].signalling_state = "None")
             /\ UNCHANGED describing
     /\ UNCHANGED <<wire, used, refused>>

\* promote_negotiation, and the application sends the description.  Senders are
\* promoted whether or not their line is registered: the Option that is asked for
\* is whether the line exists.
PromoteNegotiation(p) ==
  LET d == Head(describing[p])
      ids == LineIds(Registered(peer[p]))
  IN /\ describing[p] # <<>>
     /\ peer' = [peer EXCEPT ![p] =
          IF d.mode = "offer"
          THEN [Promoted(@, ids, {"None", "Changed"}, "Propagated") EXCEPT !.signalling_state = "HaveLocalOffer"]
          ELSE [Promoted(@, ids, NegotiationState, "Negotiated") EXCEPT !.signalling_state = "Negotiated"]]
     /\ describing' = [describing EXCEPT ![p] = <<>>]
     /\ wire' = [wire EXCEPT ![Other(p)] = Append(@, d)]
     /\ UNCHANGED <<used, failed, refused>>

-----------------------------------------------------------------------------
(* What the application does                                               *)

CreateMediaSender(p, s, type) ==
  /\ describing[p] = <<>> /\ s \in Ssrc[p] \ used
  /\ LET pc == Allocate(peer[p], type)
         i == Min(FreeLine(pc, type))
     IN peer' = [peer EXCEPT ![p] =
          [pc EXCEPT !.lines[i].local = @ \cup {s},
                     !.senders = [r \in DOMAIN @ \cup {s} |->
                        IF r = s THEN NewSender(pc.lines[i].id) ELSE @[r]]]]
  /\ used' = used \cup {s}
  /\ UNCHANGED <<describing, wire, failed, refused>>

\* application_channel(true, None): the line comes with the channel
CreateDataChannel(p) ==
  /\ describing[p] = <<>> /\ p \in ChannelsAllow /\ ~peer[p].channel
  /\ peer' = [peer EXCEPT ![p] = [Allocate(@, Application) EXCEPT !.channel = TRUE]]
  /\ UNCHANGED <<describing, wire, used, failed, refused>>

\* register_local_codec, on a line that is not Propagated
RegisterLocalCodec(p, i) ==
  /\ describing[p] = <<>> /\ i \in DOMAIN peer[p].lines
  /\ peer[p].lines[i].type # Application
  /\ peer[p].lines[i].state # "Propagated"
  /\ peer' = [peer EXCEPT ![p].lines[i].codecs = TRUE, ![p].lines[i].state = Touched(@)]
  /\ UNCHANGED <<describing, wire, used, failed, refused>>

\* register_property and unset_property, by the task that owns the handle.  stale
\* records a change that was not made while the description was being written.
ChangeProperty(p, s) ==
  /\ s \in DOMAIN peer[p].senders /\ peer[p].senders[s].open
  /\ peer[p].senders[s].state # "Propagated"
  /\ peer' = [peer EXCEPT ![p].senders[s].state = Touched(@),
                          ![p].senders[s].stale = @ \/ describing[p] = <<>>]
  /\ UNCHANGED <<describing, wire, used, failed, refused>>

DropSender(p, s) ==
  /\ s \in DOMAIN peer[p].senders /\ peer[p].senders[s].open
  /\ peer' = [peer EXCEPT ![p].senders[s].open = FALSE]
  /\ UNCHANGED <<describing, wire, used, failed, refused>>

-----------------------------------------------------------------------------
(* poll_next                                                               *)

NegotiationNeeded(pc) ==
  \/ \E l \in Range(pc.lines) : Pending(l.state)
  \/ \E s \in DOMAIN pc.senders : Pending(pc.senders[s].state)

\* An event of the data channels or the transport may end the poll early.
Poll(p) ==
  /\ describing[p] = <<>>
  /\ LET pc == RemoveClosed(peer[p])
     IN \/ peer' = [peer EXCEPT ![p] = pc]
        \/ /\ pc.signalling_state = "Negotiated" /\ NegotiationNeeded(pc)
           /\ peer' = [peer EXCEPT ![p] = [pc EXCEPT !.signalling_state = "NegotiationRequired"]]
  /\ UNCHANGED <<describing, wire, used, failed, refused>>

-----------------------------------------------------------------------------
NewPeer ==
  [signalling_state |-> "None", lines |-> <<>>, senders |-> <<>>, receivers |-> <<>>,
   channel |-> FALSE, owner |-> NoOwner, made |-> 0]

Init ==
  /\ peer = [p \in Peer |-> NewPeer]
  /\ describing = [p \in Peer |-> <<>>]
  /\ wire = [p \in Peer |-> <<>>]
  /\ used = {} /\ failed = FALSE /\ refused = FALSE

Next ==
  \E p \in Peer :
    \/ \E s \in Streams : \/ \E type \in Media : CreateMediaSender(p, s, type)
                          \/ ChangeProperty(p, s)
                          \/ DropSender(p, s)
    \/ CreateDataChannel(p)
    \/ \E i \in DOMAIN peer[p].lines : RegisterLocalCodec(p, i)
    \/ CreateLocalDescription(p)
    \/ PromoteNegotiation(p)
    \/ SetRemoteDescription(p)
    \/ Poll(p)

Spec == Init /\ [][Next]_vars

\* The applications answer NegotiationNeeded and offers with a description, register
\* codecs for lines without one first, and carry descriptions, as the examples do
\* (group_chat_server.rs 393, 434; echo_server.rs 279).  Nothing is asked of the poll.
Fairness ==
  \A p \in Peer :
    /\ WF_vars(\E i \in DOMAIN peer[p].lines :
                 ~peer[p].lines[i].codecs /\ RegisterLocalCodec(p, i))
    /\ WF_vars(peer[p].signalling_state # "None" /\ CreateLocalDescription(p))
    /\ WF_vars(PromoteNegotiation(p))
    /\ WF_wire(Delivered(p)) \* a step of SetRemoteDescription, the only one to shorten wire
FairSpec == Spec /\ Fairness

-----------------------------------------------------------------------------
Line == [id : Nat \ {NoOwner}, type : Media \cup {Application}, index : Nat,
         state : NegotiationState, codecs : BOOLEAN,
         local : SUBSET Streams, remote : SUBSET Streams]
Sender == [line : Nat, state : NegotiationState, stale : BOOLEAN, open : BOOLEAN]
Description == [mode : {"offer", "answer"},
                media : Seq([type : Media \cup {Application}, streams : SUBSET Streams])]

\* The fields have their types, a sender is on a line that exists and lists it, and
\* a peer receives the streams of the other one only.
TypeOK ==
  /\ \A p \in Peer :
       /\ peer[p].signalling_state \in SignallingState
       /\ peer[p].lines \in Seq(Line)
       /\ \A s \in DOMAIN peer[p].senders :
            /\ s \in Ssrc[p] /\ peer[p].senders[s] \in Sender
            /\ \E l \in Range(peer[p].lines) : l.id = peer[p].senders[s].line /\ s \in l.local
       /\ DOMAIN peer[p].receivers \subseteq Ssrc[Other(p)]
       /\ peer[p].owner \in 0 .. peer[p].made
       /\ describing[p] \in Seq(Description) /\ Len(describing[p]) <= 1
       /\ wire[p] \in Seq(Description)
  /\ used \subseteq Streams /\ failed \in BOOLEAN /\ refused \in BOOLEAN

IndexesInOrder ==
  \A p \in Peer : /\ Indexes(peer[p]) = 1 .. Cardinality(Registered(peer[p]))
                 /\ \A l, m \in Registered(peer[p]) : l.index = m.index => l.id = m.id

ReceiversFollow ==
  \A p \in Peer :
    /\ DOMAIN peer[p].receivers = UNION {l.remote : l \in Range(peer[p].lines)}
    /\ \A s \in DOMAIN peer[p].receivers : \A l \in Range(peer[p].lines) :
         s \in l.remote <=> peer[p].receivers[s] = l.id

ChannelHasLine ==
  \A p \in Peer :
    peer[p].channel <=> \E l \in Range(peer[p].lines) : l.type = Application

\* The lines, the receivers and the application channel of a peer fit together,
\* whatever was adopted, added, removed, refused or assigned by an offer that
\* failed.  The registered lines have the indexes 1 .. n, each once, as the media
\* of a description are numbered by their position (rtc.rs 445, 633); a stream is
\* received by exactly one receiver, on the line that names it (575-605); and the
\* application channel exists exactly with its line: else application_channel
\* unwraps None (386), a description fails (685) or is refused (497).
LinesConsistent == TypeOK /\ IndexesInOrder /\ ReceiversFollow /\ ChannelHasLine

\* An offer that was accepted, or its answer, finds the other peer waiting for it,
\* so an answer is never refused for the state (rtc.rs 438) and never two peers
\* answer each other.
OfferAwaited ==
  \A p \in Peer :
    LET answers == {i \in DOMAIN wire[p] : wire[p][i].mode = "answer"}
    IN /\ Cardinality(answers) <= 1
       /\ answers # {} \/ peer[Other(p)].signalling_state = "HaveRemoteOffer"
            => peer[p].signalling_state = "HaveLocalOffer"
       /\ answers # {} => peer[Other(p)].signalling_state # "HaveRemoteOffer"

Settled(pc, line) ==
  /\ line.state = "Negotiated"
  /\ \A s \in line.local : pc.senders[s].state = "Negotiated"

\* Once both are Negotiated, they have the same lines, and what one of them sends
\* on a line that did not change since is what the other one receives there.  An offer
\* that failed before has given indexes to lines the other peer knows nothing of.
Agreement ==
  (/\ ~failed
   /\ \A p \in Peer : /\ peer[p].signalling_state = "Negotiated"
                      /\ describing[p] = <<>> /\ wire[p] = <<>>)
    => \A p \in Peer : \A l \in Registered(peer[p]) :
         \E m \in Registered(peer[Other(p)]) :
           /\ m.index = l.index /\ m.type = l.type
           /\ Settled(peer[p], l) => m.remote = l.local

\* A property changed while no description is being written is not taken for
\* negotiated before it was described: its sender or the line of it is pending.
ChangesPending ==
  \A p \in Peer : \A s \in DOMAIN peer[p].senders :
    peer[p].senders[s].stale =>
      Pending(peer[p].senders[s].state) \/ Pending(LineOf(peer[p], s).state)

\* A line that has an index keeps it, with its type, for good (a line of a session
\* description is never removed or reused for another type).
LinesKeepTheirPlace ==
  [][\A p \in Peer : \A l \in Registered(peer[p]) :
       \E m \in Registered(peer'[p]) : m.id = l.id /\ m.index = l.index /\ m.type = l.type]_vars

\* A peer that needs to negotiate gets to Negotiated, unless a description is
\* refused on the way (both offer at once, or no data channels are allowed).
Renegotiates ==
  \A p \in Peer :
    peer[p].signalling_state = "NegotiationRequired"
      ~> (peer[p].signalling_state = "Negotiated" \/ refused)

\* "fully remove that media line, no need to keep it" (rtc.rs 1111): a peer with
\* lines has the one that owns its transport, or the candidates are dropped (894).
OwnerIsLine ==
  \A p \in Peer :
    peer[p].lines # <<>> => \E l \in Range(peer[p].lines) : l.id = peer[p].owner
=============================================================================
