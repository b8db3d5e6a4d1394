---------------------------- MODULE Forwarding -----------------------------
(***************************************************************************)
(* Packets on their way between the nodes of an overlay network.  A        *)
(* locator is a multicast group: what is sent on it is heard by every node *)
(* that has joined it, and every node is a router for what it hears.       *)
(* Routes are learned backwards from source locators and dropped when a    *)
(* look-up finds them expired, and the hop limit is all that ends the way  *)
(* of a packet that goes round in circles.                                 *)
(*                                                                         *)
(* A node may go through one soft handoff, of which the steps of Handoff   *)
(* that matter to the other nodes are kept: both sets of groups joined at  *)
(* the beginning, the old ones left at the end.                            *)
(***************************************************************************)
EXTENDS Integers, Sequences, Dicts

CONSTANTS
    Nodes,          \* the nodes, by their nid
    Absent,         \* nids that packets are still sent to, but no node has
    Locators,
    AllNodes,       \* ALL_NODES_LOC
    None,           \* Python's None
    OldLocs,        \* node -> the locators it starts with
    NewLocs,        \* node -> those it moves to, the same for most nodes
    Ageing,         \* the nodes where backwards_learning_ttl runs out in a run
    default_hop_limit,
    MaxPackets      \* bound: how many packets nodes send of their own accord

ASSUME ForwardingAssumption ==
    /\ OldLocs \in [Nodes -> SUBSET Locators]
    /\ NewLocs \in [Nodes -> SUBSET Locators]
    /\ AllNodes \notin Locators /\ None \notin Locators
    /\ default_hop_limit \in Nat
    /\ MaxPackets \in Nat

VARIABLES
    joined,             \* node -> link.joined_mcast_grps
    locs_joined,        \* node -> network.locs_joined
    loc_to_interface,   \* node -> its table: locator -> interface or None
    timed,              \* node -> the locators whose mapping has a timestamp
    net,                \* the copies that are in flight or in socket buffers
    packets,            \* the packets sent so far, in this order
    handed,             \* node -> packet -> how often transport was given it
    echoed,             \* the packets sent again on the link they came from
    forgot              \* node -> the locators it has had a route for and lost

places == <<joined, locs_joined>>
tables == <<loc_to_interface, timed, forgot>>
vars   == <<places, tables, net, packets, handed, echoed>>

Ids    == 1 .. MaxPackets
Packet == [id : Ids \cup {0}, src_loc : Locators,
           dst_loc : Locators \cup {AllNodes},
           dst_nid : Nodes \cup Absent \cup {AllNodes},
           hop_limit : 0 .. default_hop_limit]
Copy   == [pkt : Packet, from : Nodes, to : Nodes, interface : Locators]

Init ==
    /\ joined = OldLocs
    /\ locs_joined = OldLocs
    /\ loc_to_interface = [n \in Nodes |-> [loc \in OldLocs[n] |-> loc]]
    /\ net = {}
    /\ packets = << >>
    /\ handed = [n \in Nodes |-> [id \in Ids |-> 0]]
    /\ echoed = {}
    /\ timed = [n \in Nodes |-> {}]
    /\ forgot = [n \in Nodes |-> {}]

-----------------------------------------------------------------------------
(***************************************************************************)
(* Sending                                                                 *)
(***************************************************************************)

\* link.send: everyone else in the group gets a copy.  What a node hears back
\* from itself changes nothing here.
Multicast(groups, n, interface, pkt) ==
    {[pkt |-> pkt, from |-> n, to |-> m, interface |-> interface] :
        m \in {m \in Nodes \ {n} : interface \in groups[m]}}

NewPacket(id, interface, loc, nid) ==
    [id |-> id, src_loc |-> interface, dst_loc |-> loc, dst_nid |-> nid,
     hop_limit |-> default_hop_limit]

HasRoute(n, loc) ==
    /\ loc \in DOMAIN loc_to_interface[n]
    /\ loc_to_interface[n][loc] # None

\* The interface to loc is a group that n has joined.  Otherwise there is a
\* NetworkException or an IOError, and no packet.
CanSend(n, loc) ==
    /\ loc \in DOMAIN loc_to_interface[n]
    /\ loc_to_interface[n][loc] \in joined[n]

\* An application sends data to d, at a locator where d is or has been.
Send(n, loc, d) ==
    /\ Len(packets) < MaxPackets
    /\ d # n
    /\ d \in Nodes => loc \in OldLocs[d] \cup joined[d]
    /\ CanSend(n, loc)
    /\ LET interface == loc_to_interface[n][loc]
           pkt == NewPacket(Len(packets) + 1, interface, loc, d)
       IN  /\ net' = net \cup Multicast(joined, n, interface, pkt)
           /\ packets' = Append(packets, pkt)
    /\ UNCHANGED <<places, tables, handed, echoed>>

\* A discovery message on one of the locators.
Discovery(interface) == NewPacket(0, interface, AllNodes, AllNodes)

Announce(n, loc) ==
    /\ Len(packets) < MaxPackets
    /\ loc \in locs_joined[n]
    /\ net' = net \cup Multicast(joined, n, loc, Discovery(loc))
    /\ packets' = Append(packets, Discovery(loc))
    /\ UNCHANGED <<places, tables, handed, echoed>>

-----------------------------------------------------------------------------
(***************************************************************************)
(* _receive, for a copy c                                                  *)
(***************************************************************************)

\* Mutant of Wanted: no filter.
WantedAlways(c) == TRUE

\* Heard on a locator of the node, or on the one it is addressed to, which is
\* a locator that the node is leaving.
Wanted(c) ==
    \/ c.interface \in locs_joined[c.to]
    \/ c.pkt.dst_loc = c.interface

\* Mutant of Learned: nothing is learned from a packet that goes on.
LearnedAtTheEnd(c) ==
    IF \/ c.pkt.src_loc \in locs_joined[c.to]
       \/ c.pkt.hop_limit > 0 /\ locs_joined[c.to] # {c.interface}
    THEN loc_to_interface
    ELSE [loc_to_interface EXCEPT ![c.to] =
             Put(@, c.pkt.src_loc, c.interface)]

\* The table after backwards learning.
Learned(c) ==
    IF c.pkt.src_loc \in locs_joined[c.to]
    THEN loc_to_interface
    ELSE [loc_to_interface EXCEPT ![c.to] =
             Put(@, c.pkt.src_loc, c.interface)]

Learn(c) ==
    /\ loc_to_interface' = Learned(c)
    /\ timed' = IF c.pkt.src_loc \in locs_joined[c.to]
                THEN timed
                ELSE [timed EXCEPT ![c.to] = @ \cup {c.pkt.src_loc}]
    /\ UNCHANGED forgot

ForAll(c)  == c.pkt.dst_loc = AllNodes
ForNode(c) == c.pkt.dst_nid = c.to /\ ~ForAll(c)

\* Mutant of Decremented: the hop limit stays as it is.
NotDecremented(pkt) == pkt

Decremented(pkt) == [pkt EXCEPT !.hop_limit = @ - 1]

\* The copy is dropped or lost.
Discard(c) ==
    /\ net' = net \ {c}
    /\ UNCHANGED <<places, tables, packets, handed, echoed>>

Ignore(c) == ~Wanted(c) /\ Discard(c)

HandOver(c) ==
    /\ Wanted(c)
    /\ ForNode(c)
    /\ Learn(c)
    /\ handed' = [handed EXCEPT ![c.to][c.pkt.id] = @ + 1]
    /\ net' = net \ {c}
    /\ UNCHANGED <<places, packets, echoed>>

\* Mutant of Onward: the hop limit is not looked at.
OnwardAlways(c) ==
    LET table == Learned(c)[c.to] IN
    IF ForAll(c)
    THEN {table[loc] : loc \in locs_joined[c.to] \ {c.interface}}
    ELSE {table[loc] : loc \in ({c.pkt.dst_loc} \ {c.interface})
                                   \cap DOMAIN table}

\* Mutant of Onward: a packet also goes on where it has been heard at its
\* destination.
OnwardAtDestination(c) ==
    LET table == Learned(c)[c.to] IN
    IF c.pkt.hop_limit = 0 THEN {}
    ELSE IF ForAll(c)
    THEN {table[loc] : loc \in locs_joined[c.to] \ {c.interface}}
    ELSE {table[loc] : loc \in {c.pkt.dst_loc} \cap DOMAIN table}

\* The interfaces a copy goes on to: for a discovery message those of the
\* other locators of the node; for another packet the one to its destination,
\* unless it has been heard at its destination.
Onward(c) ==
    LET table == Learned(c)[c.to] IN
    IF c.pkt.hop_limit = 0 THEN {}
    ELSE IF ForAll(c)
    THEN {table[loc] : loc \in locs_joined[c.to] \ {c.interface}}
    ELSE {table[loc] : loc \in ({c.pkt.dst_loc} \ {c.interface})
                                   \cap DOMAIN table}

\* link.send raises for a group that has not been joined.
Forward(c) ==
    /\ Wanted(c)
    /\ ~ForNode(c)
    /\ Learn(c)
    /\ net' = (net \ {c}) \cup
              UNION {Multicast(joined, c.to, i, Decremented(c.pkt)) :
                        i \in Onward(c) \cap joined[c.to]}
    /\ echoed' = echoed \cup
                 (IF c.interface \in Onward(c) THEN {c.pkt.id} ELSE {})
    /\ UNCHANGED <<places, packets, handed>>

Receive(c) == Ignore(c) \/ HandOver(c) \/ Forward(c)

-----------------------------------------------------------------------------
(***************************************************************************)
(* The soft handoff of MoveThread.run                                      *)
(***************************************************************************)

\* The new groups are joined, pinned in the table and announced on.
BeginHandoff(n) ==
    /\ locs_joined[n] # NewLocs[n]
    /\ LET new == NewLocs[n] \ OldLocs[n]
           table == loc_to_interface[n]
       IN  /\ joined' = [joined EXCEPT ![n] = @ \cup NewLocs[n]]
           /\ loc_to_interface' =
                  [loc_to_interface EXCEPT ![n] =
                      [loc \in DOMAIN table \cup new |->
                          IF loc \in new THEN loc ELSE table[loc]]]
           /\ net' = net \cup UNION {Multicast(joined, n, loc, Discovery(loc)) :
                                        loc \in new}
    /\ locs_joined' = [locs_joined EXCEPT ![n] = NewLocs[n]]
    /\ timed' = [timed EXCEPT ![n] = @ \ (NewLocs[n] \ OldLocs[n])]
    /\ UNCHANGED <<packets, handed, echoed, forgot>>

\* The table is reset, and the old groups are left.  With an entry that has
\* been set to None the reset raises instead, and the groups are kept.
EndHandoff(n) ==
    /\ locs_joined[n] = NewLocs[n]
    /\ joined[n] # NewLocs[n]
    /\ \A loc \in DOMAIN loc_to_interface[n] : HasRoute(n, loc)
    /\ joined' = [joined EXCEPT ![n] = NewLocs[n]]
    /\ LET table == loc_to_interface[n]
           kept  == {loc \in DOMAIN table : table[loc] \in NewLocs[n]}
       IN  /\ loc_to_interface' =
                  [loc_to_interface EXCEPT ![n] = [loc \in kept |-> table[loc]]]
           /\ timed' = [timed EXCEPT ![n] = @ \cap kept]
           /\ forgot' = [forgot EXCEPT ![n] = @ \cup (DOMAIN table \ kept)]
    /\ UNCHANGED <<locs_joined, net, packets, handed, echoed>>

-----------------------------------------------------------------------------
\* map_locator_to_interface(loc), for an application or for a packet that is to
\* go on, finds a mapping that is older than backwards_learning_ttl.
RouteExpires(n, loc) ==
    /\ n \in Ageing
    /\ loc \in timed[n]
    /\ loc_to_interface' = [loc_to_interface EXCEPT ![n] = Put(@, loc, None)]
    /\ timed' = [timed EXCEPT ![n] = @ \ {loc}]
    /\ forgot' = [forgot EXCEPT ![n] = @ \cup {loc}]
    /\ UNCHANGED <<places, net, packets, handed, echoed>>

Deliver == \E c \in net : Receive(c)
Lose    == \E c \in net : Discard(c)

Next ==
    \/ Deliver \/ Lose
    \/ \E n \in Nodes :
          \/ \E loc \in Locators, d \in Nodes \cup Absent : Send(n, loc, d)
          \/ \E loc \in Locators : Announce(n, loc)
          \/ \E loc \in Locators : RouteExpires(n, loc)
          \/ BeginHandoff(n) \/ EndHandoff(n)

Spec == Init /\ [][Next]_vars

\* Every node goes on receiving.
FairSpec == Spec /\ WF_vars(Deliver)

-----------------------------------------------------------------------------
(***************************************************************************)
(* Properties                                                              *)
(***************************************************************************)
\* The values of the variables.  In particular no hop limit is ever decremented
\* below zero, which its field in the header cannot hold, and what goes into the
\* table of a node as an interface is a locator, never ALL_NODES_LOC.
TypeOK ==
    /\ joined \in [Nodes -> SUBSET Locators]
    /\ locs_joined \in [Nodes -> SUBSET Locators]
    /\ DOMAIN loc_to_interface = Nodes
    /\ \A n \in Nodes :
          IsDict(loc_to_interface[n], Locators, Locators \cup {None})
    /\ timed \in [Nodes -> SUBSET Locators]
    /\ forgot \in [Nodes -> SUBSET Locators]
    /\ net \subseteq Copy
    /\ packets \in Seq(Packet) /\ Len(packets) <= MaxPackets
    /\ handed \in [Nodes -> [Ids -> Nat]]
    /\ echoed \subseteq Ids \cup {0}

\* The network falls silent: whatever routes the nodes have learned from each
\* other, even in a circle, no packet goes on for ever.
NetworkQuiets == <>[](net = {})

\* The links that n has been on so far.
Visited(n) == OldLocs[n] \cup locs_joined[n]

\* What n has a route for and is not a locator it hears itself, another node on
\* the link it leads to has a route for as well: packets that follow routes
\* learned backwards are passed on from node to node.  Where one ends for lack
\* of a route, the node has had that route, and has lost it since: it found it
\* expired, or reset its table in a move.
RoutesLeadOn ==
    \A n \in Nodes : \A loc \in DOMAIN loc_to_interface[n] :
        LET interface == loc_to_interface[n][loc] IN
        \/ interface \in {loc, None}
        \/ \E r \in Nodes \ {n} :
              /\ interface \in Visited(r)
              /\ HasRoute(r, loc) \/ loc \in forgot[r]

\* The packet is addressed to one locator of n and passes by one that n keeps.
PassesBy(n, pkt) == NewLocs[n] \ {pkt.dst_loc} # {}

\* A packet that is sent on the link it is addressed to is handed over at most
\* once by each node: the nodes on that link leave it alone, so that whichever
\* nodes move and whatever they hear, nobody hears the packet a second time.
DirectOnce ==
    \A n \in Nodes, id \in Ids :
        handed[n][id] > 1 => packets[id].src_loc # packets[id].dst_loc

\* A node that moves is handed a packet twice only when
\*  - the packet was sent again on a link by a node that had heard it there, or
\*  - it passes by another locator that the node keeps.
\* In particular, the filter keeps a packet from being heard twice that is
\* addressed to the locator a node moves to and passes by the one it leaves.
DuplicatesExplained ==
    \A n \in {n \in Nodes : OldLocs[n] # NewLocs[n]}, id \in Ids :
        handed[n][id] > 1 => id \in echoed \/ PassesBy(n, packets[id])

\* The links of n, before and after its move.
Links(n) == OldLocs[n] \cup NewLocs[n]

\* The nodes but for n, and their links, form a tree with s at its root: each
\* node has one link up[m] that leads to s, and on a link there is one node at
\* most whose way to s is by another one.
TreeWithout(n, s, up) ==
    \A m \in Nodes \ {n} :
        /\ s \in Links(m) => up[m] = s
        /\ \A p \in Nodes \ {n, m} : \A loc \in Links(m) \cap Links(p) :
              up[m] = loc \/ up[p] = loc

\* The nodes in way are those on the way from s to n, n itself included.
OnTheWayTo(n, up, way) ==
    /\ n \in way
    /\ \A m \in way, p \in Nodes \ {n} :
          up[m] \in Links(p) /\ up[p] # up[m] => p \in way
    /\ \A m, p \in way : up[m] = up[p] => m = p

\* What DuplicatesExplained needs in general.  A node that moves keeps none of
\* its locators, and if it moves to a single one there is a single way to it:
\* only the node itself may close a circle.
OneWayToMovers ==
    \A n \in {n \in Nodes : OldLocs[n] # NewLocs[n]} :
        /\ NewLocs[n] # {} /\ OldLocs[n] \cap NewLocs[n] = {}
        /\ \A d \in Locators, s \in Locators :
              NewLocs[n] = {d} =>
                  \E up \in [Nodes -> Locators], way \in SUBSET Nodes :
                      up[n] = d /\ TreeWithout(n, s, up)
                                /\ OnTheWayTo(n, up, way)

\* The comment in _receive: the filter is there for not receiving duplicate
\* messages during the soft handoff.
NoDuplicates ==
    \A n \in Nodes, id \in Ids :
        OldLocs[n] # NewLocs[n] => handed[n][id] <= 1
=============================================================================
