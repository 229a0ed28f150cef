--------------------------- MODULE MCNegotiation ----------------------------
(***************************************************************************)
(* Instances of Negotiation for TLC: two peers a and b.                    *)
(***************************************************************************)
EXTENDS Negotiation, TLC

CONSTANTS a, b, a1, a2, b1

\* one each
OneEach == (a :> {a1}) @@ (b :> {b1})
TwoAndNone == (a :> {a1, a2}) @@ (b :> {})
=============================================================================
