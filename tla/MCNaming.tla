----------------------------- MODULE MCNaming ------------------------------
(***************************************************************************)
(* Instances of Naming for TLC: hosts that announce themselves and move    *)
(* between the locators a and b.                                           *)
(***************************************************************************)
EXTENDS Naming, TLC

CONSTANTS bob, clare, a, b

OneHost   == {bob}
TwoHosts  == {bob, clare}
\* Hosts are interchangeable: their identifiers are their names.
HostSymmetry == Permutations({bob, clare})

NidOfHost == [h \in {bob, clare} |-> h]

TwoLocators == {a, b}

\* A move to b, and a move to a and b in this order.
MCUpdates == {<<b>>, <<a, b>>}

\* Two hosts: a move that brings both locators.
PairUpdate == {<<a, b>>}
=============================================================================
