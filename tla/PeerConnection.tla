---------------------------- MODULE PeerConnection ----------------------------
(***************************************************************************)
(* The transports of a PeerConnection (rtc.rs), the media lines that use   *)
(* them and the application channel that is put on one of them: which      *)
(* transport a line gets, when one is made, which needs a certificate of   *)
(* CertificateCache, and what the channel is told of them.  The            *)
(* negotiation of the lines is modelled in Negotiation, one transport in   *)
(* Transport, the channel in ChannelApplication.                           *)
(*                                                                         *)
(* The peer exists once initialize_webrtc has returned.  A description     *)
(* names for every line its type and the credentials of the other side;    *)
(* lines that have an index keep it and their type.  A panic ends the      *)
(* program, and crashed names it.                                          *)
(***************************************************************************)
EXTENDS CertificateCache, Sequences, FiniteSetsExt

CONSTANTS
  Credentials,   \* ICE credentials the other side uses
  MaxLines,      \* bound of the media lines
  MaxTransports, \* bound of the transports that are made
  MaxExchanges   \* bound of the descriptions, sessions and senders

NoChannel == [transport |-> 0, configured |-> FALSE, state |-> "none"]
NoIndex == 0
Unknown == "none"    \* the other side's credentials are not known

VARIABLES
  signalling_state,
  media_lines,         \* [media_type, index, transport_id, sends]
  transport,           \* transport id -> [credentials, described, state, unread]
  made,                \* transports made so far: ids are never used again
  application_channel,
  crashed,
  exchanges

peerVars == <<signalling_state, media_lines, transport, made, application_channel, crashed, exchanges>>
allVars  == <<cacheVars, peerVars>>

Available == crashed = "no" /\ \E i \in Initializers : step[i] = "done"

Init ==
  /\ CacheInit
  /\ signalling_state = "None" /\ media_lines = <<>>
  /\ transport = [id \in {} |-> 0] /\ made = 0
  /\ application_channel = NoChannel
  /\ crashed = "no" /\ exchanges = 0

-----------------------------------------------------------------------------
(* Making a transport.                                                     *)

NewTransport == [credentials |-> Unknown, described |-> FALSE, state |-> "New", unread |-> FALSE]

With(transports, id, t) == [k \in DOMAIN transports \cup {id} |-> IF k = id THEN t ELSE transports[k]]

\* generate_session_ssl needs the lock of the cache and a certificate.
CanCreate == cache_lock = Free /\ current_context.ok

\* allocate_media_line: a line of that type nobody sends on, or a new one on
\* the first transport, which is made if there is none.
FreeLine(type) ==
  \E i \in DOMAIN media_lines : media_lines[i].media_type = type /\ ~media_lines[i].sends

FirstTransport == IF transport = [id \in {} |-> 0] THEN made + 1 ELSE Min(DOMAIN transport)

NewLine(type, index, id, sends) ==
  [media_type |-> type, index |-> index, transport_id |-> id, sends |-> sends]

MakeFirst ==
  IF DOMAIN transport # {} THEN UNCHANGED <<transport, made, crashed>>
  ELSE IF CanCreate
  THEN transport' = With(transport, made + 1, NewTransport) /\ made' = made + 1 /\ UNCHANGED crashed
  ELSE crashed' = "transport not created" /\ UNCHANGED <<transport, made>>

CreateMediaSender ==
  /\ Available /\ cache_lock = Free
  /\ exchanges < MaxExchanges /\ exchanges' = exchanges + 1
  /\ IF FreeLine("audio")
     THEN /\ LET i == CHOOSE i \in DOMAIN media_lines :
                        media_lines[i].media_type = "audio" /\ ~media_lines[i].sends
             IN  media_lines' = [media_lines EXCEPT ![i].sends = TRUE]
          /\ UNCHANGED <<transport, made, crashed>>
     ELSE /\ Len(media_lines) < MaxLines /\ made < MaxTransports
          /\ MakeFirst
          /\ media_lines' = Append(media_lines, NewLine("audio", NoIndex, FirstTransport, TRUE))
  /\ UNCHANGED <<cacheVars, signalling_state, application_channel>>

Applications == {i \in DOMAIN media_lines : media_lines[i].media_type = "application"}

ChannelOn(id) == [transport |-> id, configured |-> FALSE, state |-> "Disconnected"]

\* create_data_channel makes the application channel, with its line, once.
CreateDataChannel ==
  /\ Available /\ cache_lock = Free
  /\ application_channel = NoChannel
  /\ Applications = {}
  /\ Len(media_lines) < MaxLines /\ made < MaxTransports
  /\ MakeFirst
  /\ media_lines' = Append(media_lines, NewLine("application", NoIndex, FirstTransport, FALSE))
  /\ application_channel' = ChannelOn(FirstTransport)
  /\ UNCHANGED <<cacheVars, signalling_state, exchanges>>

-----------------------------------------------------------------------------
(* Descriptions.                                                           *)

\* An exchange is complete: both sides have described the transports in use.
Described(transports) ==
  [id \in DOMAIN transports |->
     [transports[id] EXCEPT !.described = transports[id].credentials # Unknown]]

Indexed == {i \in DOMAIN media_lines : media_lines[i].index # NoIndex}

CreateLocalDescription ==
  /\ Available
  /\ signalling_state \in {"None", "NegotiationRequired", "HaveRemoteOffer"}
  /\ exchanges < MaxExchanges /\ exchanges' = exchanges + 1
  /\ LET Pending(i) == Cardinality({j \in 1 .. i : media_lines[j].index = NoIndex})
     IN  media_lines' =
           IF signalling_state = "HaveRemoteOffer" THEN media_lines
           ELSE [i \in DOMAIN media_lines |->
                   IF media_lines[i].index # NoIndex THEN media_lines[i]
                   ELSE [media_lines[i] EXCEPT !.index = Cardinality(Indexed) + Pending(i)]]
  /\ IF signalling_state = "HaveRemoteOffer"
     THEN signalling_state' = "Negotiated" /\ transport' = Described(transport)
     ELSE signalling_state' = "HaveLocalOffer" /\ UNCHANGED transport
  /\ UNCHANGED <<cacheVars, made, application_channel, crashed>>

\* What the other side may say: every line it knows, and in an offer one more.
Descriptions(offer) ==
  LET known == Cardinality(Indexed)
      TypeAt(n) == media_lines[CHOOSE i \in Indexed : media_lines[i].index = n].media_type
      Media == [media_type : {"audio", "application"}, credentials : Credentials]
  IN  {d \in UNION {[1 .. n -> Media] : n \in known .. (IF offer /\ known < MaxLines THEN known + 1 ELSE known)} :
         /\ \A n \in 1 .. known : d[n].media_type = TypeAt(n)
         /\ Cardinality({n \in DOMAIN d : d[n].media_type = "application"}) <= 1}

\* The line a media section belongs to: by its index, or one of its type that
\* has none yet; 0 if a line has to be made.
LineFor(lines, n, media) ==
  LET at == {i \in DOMAIN lines : lines[i].index = n}
      waiting == {i \in DOMAIN lines : lines[i].index = NoIndex /\ lines[i].media_type = media.media_type}
  IN  IF at # {} THEN Min(at) ELSE IF waiting # {} THEN Min(waiting) ELSE 0

\* A new line shares the transport with its credentials, or takes one that has
\* none yet.
SharedTransport(transports, media) ==
  LET same == {k \in DOMAIN transports : transports[k].credentials = media.credentials}
      open == {k \in DOMAIN transports : transports[k].credentials = Unknown}
  IN  IF same # {} THEN Min(same) ELSE IF open # {} THEN Min(open) ELSE 0

\* The first description of a transport stays.
Learn(transports, id, media) ==
  [transports EXCEPT ![id].credentials = IF @ = Unknown THEN media.credentials ELSE @]

Configured(channel, id, media) ==
  IF media.media_type # "application" THEN channel
  ELSE [(IF channel = NoChannel THEN ChannelOn(id) ELSE channel) EXCEPT !.configured = TRUE]

\* One media section applied to s = [lines, transports, made, channel, failed];
\* without a certificate no transport is made and the description fails there.
ApplyMedia(s, n, media) ==
  LET i  == LineFor(s.lines, n, media)
      id == IF i # 0 THEN s.lines[i].transport_id
            ELSE IF SharedTransport(s.transports, media) # 0 THEN SharedTransport(s.transports, media)
            ELSE s.made + 1
      new == id \notin DOMAIN s.transports
      there == IF new THEN With(s.transports, id, NewTransport) ELSE s.transports
  IN  IF s.failed \/ (new /\ ~CanCreate) THEN [s EXCEPT !.failed = TRUE]
      ELSE [lines      |-> IF i # 0 THEN [s.lines EXCEPT ![i].index = n]
                           ELSE Append(s.lines, NewLine(media.media_type, n, id, FALSE)),
            transports |-> Learn(there, id, media),
            made       |-> IF new THEN s.made + 1 ELSE s.made,
            channel    |-> Configured(s.channel, id, media),
            failed     |-> FALSE]

\* The sections of a description, one after the other.
Applied(d) ==
  LET applied[n \in 0 .. Len(d)] ==
        IF n = 0 THEN [lines |-> media_lines, transports |-> transport, made |-> made,
                       channel |-> application_channel, failed |-> FALSE]
        ELSE ApplyMedia(applied[n - 1], n, d[n])
  IN applied[Len(d)]

\* set_remote_description; what was applied before a failure stays.
SetRemoteDescription(offer) ==
  /\ Available /\ cache_lock = Free
  /\ signalling_state \in IF offer THEN {"None", "Negotiated"} ELSE {"HaveLocalOffer"}
  /\ exchanges < MaxExchanges /\ exchanges' = exchanges + 1
  /\ \E d \in Descriptions(offer) :
       LET end == Applied(d)
       IN  /\ end.made <= MaxTransports /\ Len(end.lines) <= MaxLines
           /\ media_lines' = end.lines /\ made' = end.made
           /\ transport' = IF end.failed \/ offer THEN end.transports ELSE Described(end.transports)
           /\ application_channel' = end.channel
           /\ signalling_state' = IF end.failed THEN signalling_state
                                  ELSE IF offer THEN "HaveRemoteOffer" ELSE "Negotiated"
  /\ UNCHANGED <<cacheVars, crashed>>

FaultyReset ==
  /\ Available
  /\ exchanges < MaxExchanges /\ exchanges' = exchanges + 1
  /\ signalling_state' = "None" /\ media_lines' = <<>>
  /\ transport' = [id \in {} |-> 0]
  /\ UNCHANGED <<cacheVars, made, application_channel, crashed>>

\* reset forgets the session.
Reset ==
  /\ Available
  /\ exchanges < MaxExchanges /\ exchanges' = exchanges + 1
  /\ signalling_state' = "None" /\ media_lines' = <<>>
  /\ transport' = [id \in {} |-> 0]
  /\ application_channel' = NoChannel
  /\ UNCHANGED <<cacheVars, made, crashed>>

-----------------------------------------------------------------------------
(* The poll.                                                               *)

\* ICE and DTLS come up once both sides have been described.
TransportConnects(id) ==
  /\ Available
  /\ id \in DOMAIN transport
  /\ transport[id].described /\ transport[id].state = "New"
  /\ transport' = [transport EXCEPT ![id].state = "Connected", ![id].unread = TRUE]
  /\ UNCHANGED <<cacheVars, signalling_state, media_lines, made, application_channel, crashed, exchanges>>

\* handle_transport_connected expects the channel to be configured.
StartChannel ==
  IF application_channel.state # "Disconnected" THEN UNCHANGED <<application_channel, crashed>>
  ELSE /\ application_channel' = [application_channel EXCEPT !.state = "Connecting"]
       /\ crashed' = IF application_channel.configured THEN crashed ELSE "missing remote config"

\* handle_ice_event: any transport's connecting starts the channel.
HandleTransportConnected(id) ==
  /\ Available
  /\ id \in DOMAIN transport /\ transport[id].unread
  /\ transport' = [transport EXCEPT ![id].unread = FALSE]
  /\ StartChannel
  /\ UNCHANGED <<cacheVars, signalling_state, media_lines, made, exchanges>>

\* poll_next asks for a negotiation when a line has none.
NegotiationNeeded ==
  /\ Available
  /\ signalling_state = "Negotiated"
  /\ \E i \in DOMAIN media_lines : media_lines[i].index = NoIndex
  /\ signalling_state' = "NegotiationRequired"
  /\ UNCHANGED <<cacheVars, media_lines, transport, made, application_channel, crashed, exchanges>>

PeerNext ==
  \/ CreateMediaSender \/ CreateDataChannel \/ CreateLocalDescription \/ Reset \/ NegotiationNeeded
  \/ \E offer \in BOOLEAN : SetRemoteDescription(offer)
  \/ \E id \in 1 .. MaxTransports : TransportConnects(id) \/ HandleTransportConnected(id)

Next == (CacheNext /\ UNCHANGED peerVars) \/ PeerNext

Spec == Init /\ [][Next]_allVars /\ CacheFairness

-----------------------------------------------------------------------------
(* Properties.                                                             *)

TypeOK ==
  /\ CacheTypeOK
  /\ signalling_state \in {"None", "HaveLocalOffer", "HaveRemoteOffer", "Negotiated", "NegotiationRequired"}
  /\ DOMAIN transport \subseteq 1 .. made
  /\ \A i \in DOMAIN media_lines : media_lines[i].media_type \in {"audio", "application"}

\* While the program runs, every line is on a transport the peer has, and there
\* is an application channel exactly if there is a line for it, on the same
\* transport: what create_data_channel and the descriptions unwrap is there
\* (rtc.rs:376-398, 414-427, 502-543, 762-783).
WellPlaced ==
  /\ TypeOK
  /\ crashed = "no" =>
       /\ \A i \in DOMAIN media_lines : media_lines[i].transport_id \in DOMAIN transport
       /\ {media_lines[i].transport_id : i \in Applications} =
            (IF application_channel = NoChannel THEN {} ELSE {application_channel.transport})

\* The connecting of a transport meets a channel that knows the other side's
\* port: "missing remote config" (application.rs:517).
RemoteConfigKnown == crashed # "missing remote config"
=============================================================================
