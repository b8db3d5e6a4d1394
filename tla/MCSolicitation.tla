--------------------------- MODULE MCSolicitation --------------------------
(***************************************************************************)
(* An instance of Solicitation: a node that moves between the overlapping  *)
(* entries of its cycle, and one that stays where it hears both of them.   *)
(***************************************************************************)
EXTENDS Solicitation, TLC

CONSTANTS a, b, mobile, peer

MCNodes    == {mobile, peer}
MCLocators == {a, b}

MCCycle == (mobile :> <<{a, b}, {b}>>) @@ (peer :> <<{b}>>)
=============================================================================
