------------------------ MODULE DataChannelLifecycle ------------------------
(***************************************************************************)
(* What the user of a DataChannel is promised: the states the event stream *)
(* of a handle reports only move forward, from Connecting over Open and    *)
(* Closing to Closed, and no message is received once it reports that the  *)
(* channel closes.                                                         *)
(***************************************************************************)
EXTENDS Naturals, Sequences

VARIABLES
  stage,  \* handle -> the state its events report
  inbox   \* handle -> the messages its events delivered

States == {"Connecting", "Open", "Closing", "Closed"}
Rank == [s \in States |-> CASE s = "Connecting" -> 1 [] s = "Open" -> 2
                            [] s = "Closing" -> 3 [] s = "Closed" -> 4]

LifecycleInit == stage = << >> /\ inbox = << >>

\* A handle appears: the application opened a channel, or the peer did.
Appear(s) ==
  /\ stage' = Append(stage, s)
  /\ inbox' = Append(inbox, << >>)

\* The handles of H, whose channels may end together, report the state s.
Advance(H, s) ==
  /\ \A h \in H : Rank[stage[h]] < Rank[s]
  /\ stage' = [h \in DOMAIN stage |-> IF h \in H THEN s ELSE stage[h]]
  /\ UNCHANGED inbox

Receives(h, m) ==
  /\ stage[h] \in {"Connecting", "Open"}
  /\ inbox' = [inbox EXCEPT ![h] = Append(@, m)]
  /\ UNCHANGED stage

LifecycleNext ==
  \/ \E s \in States : Appear(s)
  \/ \E H \in SUBSET DOMAIN stage, s \in States : Advance(H, s)
  \/ \E h, g \in DOMAIN stage, open \in BOOLEAN : Receives(h, [from |-> g, open |-> open])

LifecycleSpec == LifecycleInit /\ [][LifecycleNext]_<<stage, inbox>>
=============================================================================
