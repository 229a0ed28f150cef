----------------------- MODULE MCRtpResendRequester -----------------------
(***************************************************************************)
(* Instances of RtpResendRequester for TLC.                                *)
(***************************************************************************)
EXTENDS RtpResendRequester
=============================================================================
