----------------------------- MODULE MCHandoff -----------------------------
(***************************************************************************)
(* Instances of Handoff for TLC.  The mobile node moves through a cycle of *)
(* locators; bob is a correspondent, at locator c or at one of the         *)
(* locators the node moves through.  The instances differ in the packets   *)
(* bob may send, in the sessions the application opens, and in what ages.  *)
(***************************************************************************)
EXTENDS Handoff

CONSTANTS a, b, c, bob

MCLocators == {a, b, c}
MCNids     == {bob}

\* locators = a,b-c: as in the README, one entry has two locators.
PairCycle == <<{a, b}, {c}>>

\* locators = a,b-b,c-c,a: every move joins one group and leaves another one,
\* and there is no group that the node is to be in all the time.
TurnCycle == <<{a, b}, {b, c}, {c, a}>>

BobAt(loc) == <<loc, bob>>

Pkt(kind, interface, src_loc, dst_loc, hop_limit) ==
    [kind |-> kind, interface |-> interface, src |-> BobAt(src_loc),
     dst_loc |-> dst_loc, new_loc |-> c, hop_limit |-> hop_limit]

\* Bob sends from c, and is heard on b: data for a, which passes by, transit to
\* a, and one of each kind of control message.  In the cycle, the node comes to
\* c while it is still on b.
SomeOfEach == {Pkt("data", b, c, a, 1), Pkt("transit", b, c, a, 1),
               Pkt("ack", b, c, b, 1), Pkt("update", b, c, b, 1),
               Pkt("solicitation", b, c, None, 1)}

DataOnly  == {Pkt("data", a, c, a, 1)}
NoPackets == {}

NoSessions  == {}
OneSession  == {BobAt(c)}
TwoSessions == {BobAt(b), BobAt(c)}
=============================================================================
