--------------------------- MODULE ReceiverPromise ---------------------------
(***************************************************************************)
(* What an application may rely on that reads a MediaReceiver: the events  *)
(* of MediaReceiverEvent (media/receiver.rs) as documented there.  Data    *)
(* comes after ReceiverActivated, which is announced once per activity and *)
(* followed by its packet; a bye makes the stream silent again; bandwidth  *)
(* violations are only reported of an active stream; and every packet that *)
(* reached the receiver is handed out before the stream ends.              *)
(***************************************************************************)
EXTENDS Naturals

VARIABLES
  phase,    \* silent, announced, active or over
  backlog,  \* packets received and not yet handed out
  event     \* what the application was given last

ReceiverVars == <<phase, backlog, event>>

PromiseInit == phase = "silent" /\ backlog = 0 /\ event = "none"

Receive == phase # "over" /\ backlog' = backlog + 1 /\ UNCHANGED <<phase, event>>

Activate ==
  /\ phase = "silent" /\ backlog > 0
  /\ phase' = "announced" /\ event' = "ReceiverActivated"
  /\ UNCHANGED backlog

Deliver ==
  /\ phase \in {"announced", "active"} /\ backlog > 0
  /\ phase' = "active" /\ event' = "DataReceived" /\ backlog' = backlog - 1

Silence ==
  /\ phase \in {"silent", "active"}
  /\ phase' = "silent" /\ event' = "ByeSignalReceived"
  /\ UNCHANGED backlog

ReportLoss == phase \in {"silent", "active"} /\ event' = "DataLost" /\ UNCHANGED <<phase, backlog>>

ReportViolation ==
  phase = "active" /\ event' = "BandwidthLimitViolation" /\ UNCHANGED <<phase, backlog>>

Finish ==
  /\ phase \in {"silent", "active"} /\ backlog = 0
  /\ phase' = "over" /\ event' = "end" /\ UNCHANGED backlog

\* The application drops the receiver with whatever it holds.
GiveUp == phase # "over" /\ phase' = "over" /\ backlog' = 0 /\ UNCHANGED event

PromiseNext ==
  Receive \/ Activate \/ Deliver \/ Silence \/ ReportLoss \/ ReportViolation \/ Finish \/ GiveUp

PromiseSteps == PromiseInit /\ [][PromiseNext]_ReceiverVars

PromiseSpec == PromiseSteps /\ WF_ReceiverVars(Activate \/ Deliver)
=============================================================================
