---------------------------- MODULE SoftHandoff ----------------------------
(***************************************************************************)
(* What a soft handoff promises about the multicast groups a mobile node   *)
(* is attached to, whatever happens to the rest of the move:               *)
(*                                                                         *)
(*   - the node retargets to the next entry of its locator cycle;          *)
(*   - it attaches only to groups of the entry it is heading for;          *)
(*   - it detaches only from groups of the entry it is coming from, and    *)
(*     only once every group the move brings has been attached             *)
(*     (make before break).                                                *)
(*                                                                         *)
(* A move may be given up at any point, so Retarget is never blocked.      *)
(***************************************************************************)
EXTENDS Integers, Sequences

CONSTANTS
    Locators,   \* the locators of the deployment
    LocCycle    \* loc_cycle: the sets of locators the node moves through

VARIABLES
    attached,   \* the groups the node receives from and may send on
    leg,        \* the position in the cycle, counted from 0
    origin,     \* the groups of the previous entry of the cycle
    target      \* the groups of the current entry of the cycle

vars == <<attached, leg, origin, target>>

NextLeg(i) == (i + 1) % Len(LocCycle)

Init ==
    /\ attached = LocCycle[1]
    /\ leg = 0
    /\ origin = {}
    /\ target = LocCycle[1]

Retarget ==
    /\ leg' = NextLeg(leg)
    /\ origin' = target
    /\ target' = LocCycle[NextLeg(leg) + 1]
    /\ UNCHANGED attached

Attach(loc) ==
    /\ loc \in (target \ origin) \ attached
    /\ attached' = attached \cup {loc}
    /\ UNCHANGED <<leg, origin, target>>

Detach(loc) ==
    /\ loc \in (origin \ target) \cap attached
    /\ target \ origin \subseteq attached
    /\ attached' = attached \ {loc}
    /\ UNCHANGED <<leg, origin, target>>

Next ==
    \/ Retarget
    \/ \E loc \in Locators : Attach(loc) \/ Detach(loc)

Spec == Init /\ [][Next]_vars

-----------------------------------------------------------------------------
\* Every move of the cycle brings at least one locator that the entry before
\* it does not have.  A cycle of pairwise disjoint entries is of this kind.
EveryMoveJoins ==
    \A i \in 0 .. Len(LocCycle) - 1 :
        LocCycle[NextLeg(i) + 1] \ LocCycle[i + 1] # {}

TypeOK ==
    /\ attached \subseteq Locators
    /\ leg \in 0 .. Len(LocCycle) - 1
    /\ target = LocCycle[leg + 1]
    /\ origin \subseteq Locators

\* The node never falls off the network: it is always attached to a group.
NeverIsolated == attached # {}
=============================================================================
