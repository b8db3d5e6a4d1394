--------------------------- MODULE MCForwarding ----------------------------
(***************************************************************************)
(* Instances of Forwarding.  In the ring, a node moves from one link to    *)
(* the next one that two routers connect it with; in the pair, from one    *)
(* link of a router to its other one, where its correspondent is.          *)
(***************************************************************************)
EXTENDS Forwarding, TLC

CONSTANTS a, b, c, mobile, peer, router, far, gone

MCAbsent == {gone}

RingNodes    == {mobile, peer, router, far}
RingLocators == {a, b, c}

Ring(m) == (mobile :> m) @@ (peer :> {a}) @@ (router :> {a, c}) @@ (far :> {b, c})
RingAgeing == {mobile, router, far}
RingOld == Ring({a})
RingNew == Ring({b})

PairNodes    == {mobile, peer, router}
PairLocators == {a, b}

Pair(m) == (mobile :> m) @@ (peer :> {b}) @@ (router :> {a, b})
PairAgeing == {}
PairOld == Pair({a})
PairNew == Pair({b})

\* In both networks the node that moves is the only one that closes a circle.
ASSUME OneWayAssumption == OneWayToMovers
=============================================================================
