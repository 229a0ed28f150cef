--------------------------- MODULE TransportLife ---------------------------
(***************************************************************************)
(* What an RTCTransport promises to those around it: to the peer           *)
(* connection, which reads state() whenever it is told of a change         *)
(* (told), and to the senders of RTP and RTCP, which share its             *)
(* SenderBackend (backend).  A transport is secured at most once; it never *)
(* reports Connected without a backend; what is torn down stays so, and is *)
(* never reported before the backend is taken away.                        *)
(***************************************************************************)
VARIABLES told, backend

States == {"Disconnected", "Connecting", "Connected", "Failed"}

Init == told = "Disconnected" /\ backend = "absent"

\* DTLS is up; the change of state may be reported with it or not at all.
Secured ==
  /\ backend = "absent" /\ backend' = "present"
  /\ told' \in {told, "Connected"}

Reported ==
  /\ told # "Failed" /\ told' \in States \ {"Failed"}
  /\ told' = "Connected" => backend = "present"
  /\ UNCHANGED backend

\* A panic in the middle tears down without a report.
TornDown ==
  /\ backend # "gone" /\ backend' = "gone"
  /\ told # "Failed" /\ told' \in {told, "Failed"}

Next == Secured \/ Reported \/ TornDown

Spec == Init /\ [][Next]_<<told, backend>>
=============================================================================
