----------------------------- MODULE MCSession -----------------------------
(***************************************************************************)
(* An instance of Session: three locators, one after the other.            *)
(***************************************************************************)
EXTENDS Session

CONSTANTS a, b, c

MCCycle == <<a, b, c>>
=============================================================================
