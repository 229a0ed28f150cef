--------------------------- MODULE SctpAssociation ---------------------------
(***************************************************************************)
(* The SCTP association between two peers as application.rs uses usrsctp   *)
(* through sctp/mod.rs: reliable, ordered per stream unless a message is   *)
(* sent unordered, with one outgoing stream reset request at a time        *)
(* (RFC 6525).  External: the library itself is not part of the            *)
(* repository.                                                             *)
(***************************************************************************)
EXTENDS Naturals, Sequences, FiniteSets, SequencesExt

CONSTANT MaxOutgoing   \* max_outgoing_channel, 1024 in ChannelApplication::new

ASSUME AssociationAssumption == MaxOutgoing \in Nat \ {0}

VARIABLES
  wire,      \* endpoint -> messages on their way to it, oldest first
  resetting, \* endpoint -> streams of its outgoing reset request
  answered   \* endpoint -> its request has been carried out by the peer

association == <<wire, resetting, answered>>

Endpoints == {"a", "b"}
Peer(e) == IF e = "a" THEN "b" ELSE "a"

\* Ids a data channel may have: create_data_channel refuses the others.
Streams == 0 .. 2 * MaxOutgoing - 1

\* A control message of one stream, the data of the handle from, and an outgoing
\* reset of several streams.  open is history: the channel of the handle was open.
Control(kind, s, from) ==
  [kind |-> kind, streams |-> {s}, from |-> from, ordered |-> TRUE, open |-> TRUE]
Data(s, from, ordered, open) ==
  [kind |-> "Data", streams |-> {s}, from |-> from, ordered |-> ordered, open |-> open]
Reset(S) == [kind |-> "Reset", streams |-> S, from |-> 0, ordered |-> TRUE, open |-> TRUE]

AssociationInit ==
  /\ wire = [e \in Endpoints |-> << >>]
  /\ resetting = [e \in Endpoints |-> {}]
  /\ answered = [e \in Endpoints |-> FALSE]

\* A reset takes effect after all that was sent before it; any other message
\* waits for what precedes it on its stream, an unordered one for resets only.
Deliverable(e, i) ==
  LET m == wire[e][i] IN
  IF m.kind = "Reset" THEN i = 1
  ELSE \A j \in 1 .. i - 1 :
         \/ wire[e][j].streams \cap m.streams = {}
         \/ ~ m.ordered /\ wire[e][j].kind # "Reset"

\* usrsctp takes no data for a stream whose reset is under way, and no second
\* reset request before the first is answered.
Refuses(e) == resetting[e] # {}
Sent(e, m) == IF m.streams \cap resetting[e] = {} THEN <<m>> ELSE << >>
=============================================================================
