---------------------------- MODULE MCTransport ----------------------------
(***************************************************************************)
(* Instances of Transport for TLC: one application that blocks and one     *)
(* that polls, or a blocking one alone.                                    *)
(***************************************************************************)
EXTENDS Transport

CONSTANTS port1, port2

OnePort  == {port1}
TwoPorts == {port1, port2}
=============================================================================
