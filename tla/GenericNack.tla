---------------------------- MODULE GenericNack ----------------------------
(***************************************************************************)
(* The generic NACK (utils/rtcp/packets/transport_feedback.rs) between a   *)
(* MediaReceiver that asks for lost packets and an InternalMediaSender     *)
(* that looks them up in its history, both of this crate.  A feedback is a *)
(* first packet id and the set of the bits of its mask.                    *)
(***************************************************************************)
EXTENDS SequenceNumber, Sequences

LOCAL INSTANCE SequencesExt

CONSTANTS
  MaskBits,         \* bits of bitmask_lost_packets, 16
  ClippingWindow,   \* 256 in create_generic_nack
  FirstIds,         \* ids the lost packets start at
  MaxAsked          \* bound: ids asked for, from the first one on

VARIABLES
  asked,       \* the packets a ResendPackets event names, in the order of the window
  feedbacks,   \* the feedbacks made of them
  answered     \* the ids the sender retransmits, empty before the NACK arrives

vars == <<asked, feedbacks, answered>>

\* flush_pending_packets names the missing ids in the order of the window.
InOrder(K) == SetToSortSeq(K, LAMBDA k, l : k < l)
Asked(first, K) ==
  LET ks == InOrder(K) IN [i \in DOMAIN ks |-> WrappingAdd(first, ks[i])]

Init ==
  /\ \E first \in FirstIds, K \in SUBSET (0 .. MaxAsked - 1) :
       K # {} /\ asked = Asked(first, K)
  /\ feedbacks = << >> /\ answered = {}

\* The next packet sets a bit of the last feedback, or starts another one.
AddPacket(fs, id) ==
  LET head == Last(fs).packet_id
      bit  == Difference(id, head, ClippingWindow)
  IN IF fs = << >> \/ bit >= MaskBits
     THEN Append(fs, [packet_id |-> id, mask |-> {}])
     ELSE [fs EXCEPT ![Len(fs)].mask = @ \cup {bit}]

\* NackPacketIterator: the index is advanced before the id is computed.
LostPackets(f) == {f.packet_id} \cup {WrappingAdd(f.packet_id, b + 2) : b \in f.mask}

CreateGenericNack ==
  /\ feedbacks = << >>
  /\ feedbacks' = FoldLeft(AddPacket, << >>, asked)
  /\ UNCHANGED <<asked, answered>>

ProcessGenericNack ==
  /\ feedbacks # << >> /\ answered = {}
  /\ answered' = UNION {LostPackets(feedbacks[i]) : i \in DOMAIN feedbacks}
  /\ UNCHANGED <<asked, feedbacks>>

Next == CreateGenericNack \/ ProcessGenericNack
Spec == Init /\ [][Next]_vars

\* A NACK that arrives asks the sender for the packets that were lost, and for
\* no others.
LostAreRequested ==
  answered # {} => answered = {asked[i] : i \in DOMAIN asked}
=============================================================================
