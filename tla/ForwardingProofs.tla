-------------------------- MODULE ForwardingProofs --------------------------
(***************************************************************************)
(* Proofs about Forwarding, for any nodes, locators, moves, hop limit and  *)
(* number of packets.                                                      *)
(*                                                                         *)
(* RoutesLeadOn is not inductive: a route is learned from a copy, so the   *)
(* invariant says of a copy in flight that the node it was heard from is   *)
(* or was on the link it was heard on, and knows or knew the way back.     *)
(***************************************************************************)
EXTENDS Forwarding, TLAPS

\* n has a route for loc, or has had one.
Knows(n, loc) == HasRoute(n, loc) \/ loc \in forgot[n]

CopyOK(c) ==
    /\ c.from # c.to
    /\ c.interface \in Visited(c.from)
    /\ c.interface = c.pkt.src_loc \/ Knows(c.from, c.pkt.src_loc)

\* The mapping of a locator that the node is at leads to itself, and stays.
Pinned(n, loc) ==
    /\ loc \in DOMAIN loc_to_interface[n]
    /\ loc_to_interface[n][loc] = loc
    /\ loc \notin timed[n]

NodeOK(n) ==
    /\ locs_joined[n] \in {OldLocs[n], NewLocs[n]}
    /\ joined[n] \subseteq Visited(n)
    /\ \A loc \in locs_joined[n] : Pinned(n, loc)

RouteOK(n, loc) ==
    \/ loc_to_interface[n][loc] \in {loc, None}
    \/ \E r \in Nodes \ {n} :
          loc_to_interface[n][loc] \in Visited(r) /\ Knows(r, loc)

Inv ==
    /\ TypeOK
    /\ \A n \in Nodes : NodeOK(n)
    /\ \A c \in net : CopyOK(c)
    /\ \A n \in Nodes : \A loc \in DOMAIN loc_to_interface[n] : RouteOK(n, loc)

-----------------------------------------------------------------------------
LEMMA InitInv == Init => Inv
<1> SUFFICES ASSUME Init PROVE Inv
  OBVIOUS
<1> USE ForwardingAssumption
<1>1. TypeOK
  <2>1. \A n \in Nodes :
           IsDict(loc_to_interface[n], Locators, Locators \cup {None})
    BY DEF Init, IsDict
  <2>2. packets \in Seq(Packet) /\ Len(packets) = 0
    BY DEF Init
  <2>3. handed \in [Nodes -> [Ids -> Nat]]
    BY DEF Init
  <2>4. /\ timed \in [Nodes -> SUBSET Locators]
        /\ forgot \in [Nodes -> SUBSET Locators]
    BY DEF Init
  <2>5. /\ joined \in [Nodes -> SUBSET Locators]
        /\ locs_joined \in [Nodes -> SUBSET Locators]
        /\ DOMAIN loc_to_interface = Nodes
        /\ net \subseteq Copy /\ echoed \subseteq Ids \cup {0}
        /\ Len(packets) <= MaxPackets
    BY <2>2 DEF Init
  <2> QED
    BY <2>1, <2>2, <2>3, <2>4, <2>5 DEF TypeOK
<1>2. ASSUME NEW n \in Nodes
      PROVE  /\ NodeOK(n)
             /\ \A loc \in DOMAIN loc_to_interface[n] : RouteOK(n, loc)
  BY DEF Init, NodeOK, Visited, Pinned, RouteOK
<1> QED
  BY <1>1, <1>2 DEF Init, Inv

-----------------------------------------------------------------------------
(***************************************************************************)
(* Packets and copies                                                      *)
(***************************************************************************)

\* What is sent on a link goes to the other nodes that have joined it.
LEMMA Multicasts ==
    ASSUME TypeOK, NEW n \in Nodes, NEW i \in Locators, NEW pkt \in Packet,
           NEW groups \in [Nodes -> SUBSET Locators]
    PROVE  /\ Multicast(groups, n, i, pkt) \subseteq Copy
           /\ \A c \in Multicast(groups, n, i, pkt) :
                 /\ c.pkt = pkt /\ c.from = n /\ c.interface = i
                 /\ c.to \in Nodes \ {n}
BY DEF Multicast, Copy

LEMMA NewPackets ==
    ASSUME NEW id \in Ids \cup {0}, NEW i \in Locators,
           NEW loc \in Locators \cup {AllNodes},
           NEW nid \in Nodes \cup Absent \cup {AllNodes}
    PROVE  /\ NewPacket(id, i, loc, nid) \in Packet
           /\ NewPacket(id, i, loc, nid).src_loc = i
BY ForwardingAssumption DEF NewPacket, Packet

LEMMA Copies ==
    ASSUME TypeOK, NEW c \in net
    PROVE  /\ c \in Copy /\ c.pkt \in Packet
           /\ c.from \in Nodes /\ c.to \in Nodes
           /\ c.interface \in Locators /\ c.pkt.src_loc \in Locators
           /\ c.pkt.id \in Ids \cup {0}
           /\ c.pkt.hop_limit \in 0 .. default_hop_limit
BY DEF TypeOK, Copy, Packet

\* The table of a node, after what it learns from a copy.
LEMMA Learns ==
    ASSUME TypeOK, NEW c \in net, NEW n \in Nodes
    PROVE  /\ DOMAIN Learned(c) = Nodes
           /\ IsDict(Learned(c)[n], Locators, Locators \cup {None})
           /\ DOMAIN loc_to_interface[n] \subseteq DOMAIN Learned(c)[n]
           /\ \A loc \in DOMAIN Learned(c)[n] :
                 \/ /\ loc \in DOMAIN loc_to_interface[n]
                    /\ Learned(c)[n][loc] = loc_to_interface[n][loc]
                 \/ /\ n = c.to /\ loc = c.pkt.src_loc
                    /\ Learned(c)[n][loc] = c.interface
           /\ \/ c.pkt.src_loc \in DOMAIN Learned(c)[c.to]
              \/ c.pkt.src_loc \in locs_joined[c.to]
<1>1. /\ c.to \in Nodes /\ c.interface \in Locators
      /\ c.pkt.src_loc \in Locators
  BY Copies
<1>2. CASE c.pkt.src_loc \in locs_joined[c.to]
  BY <1>1, <1>2 DEF Learned, TypeOK
<1>3. CASE c.pkt.src_loc \notin locs_joined[c.to]
  <2>1. Learned(c) = [loc_to_interface EXCEPT ![c.to] =
                         Put(loc_to_interface[c.to], c.pkt.src_loc, c.interface)]
    BY <1>3 DEF Learned
  <2>2. CASE n = c.to
    <3>1. Learned(c)[n] =
             Put(loc_to_interface[n], c.pkt.src_loc, c.interface)
      BY <1>1, <2>1, <2>2 DEF TypeOK
    <3>2. IsDict(loc_to_interface[n], Locators, Locators \cup {None})
      BY DEF TypeOK
    <3>3. DOMAIN Learned(c) = Nodes
      BY <2>1 DEF TypeOK
    <3> QED
      BY <1>1, <2>2, <3>1, <3>2, <3>3 DEF Put, IsDict
  <2>3. CASE n # c.to
    <3>1. Learned(c)[n] = loc_to_interface[n] /\ DOMAIN Learned(c) = Nodes
      BY <2>1, <2>3 DEF TypeOK
    <3>2. c.pkt.src_loc \in DOMAIN Learned(c)[c.to]
      BY <1>1, <2>1 DEF TypeOK, Put
    <3> QED
      BY <3>1, <3>2 DEF TypeOK
  <2> QED
    BY <2>2, <2>3
<1> QED
  BY <1>2, <1>3

-----------------------------------------------------------------------------
(***************************************************************************)
(* Types                                                                   *)
(***************************************************************************)
LEMMA TypeSend ==
    ASSUME TypeOK, NEW n \in Nodes, NEW loc \in Locators,
           NEW d \in Nodes \cup Absent, Send(n, loc, d)
    PROVE  TypeOK'
<1> DEFINE i == loc_to_interface[n][loc]
           pkt == NewPacket(Len(packets) + 1, i, loc, d)
<1>1. i \in Locators
  BY DEF Send, CanSend, TypeOK, IsDict
<1>2. Len(packets) + 1 \in Ids /\ Len(packets) < MaxPackets
  BY ForwardingAssumption DEF Send, Ids, TypeOK
<1>3. pkt \in Packet
  BY <1>1, <1>2, NewPackets
<1>4. Multicast(joined, n, i, pkt) \subseteq Copy
  BY <1>1, <1>3, Multicasts DEF TypeOK
<1>5. net' \subseteq Copy
  BY <1>4 DEF Send, places, tables, TypeOK
<1>6. packets' \in Seq(Packet) /\ Len(packets') <= MaxPackets
  <2>1. packets' = Append(packets, pkt)
    BY DEF Send
  <2> HIDE DEF pkt
  <2> QED
    BY <1>2, <1>3, <2>1, ForwardingAssumption DEF TypeOK
<1> QED
  BY <1>5, <1>6 DEF Send, places, tables, TypeOK

\* What a node announces on one of its locators.
LEMMA Discoveries ==
    ASSUME TypeOK, NEW n \in Nodes, NEW loc \in Locators,
           NEW groups \in [Nodes -> SUBSET Locators]
    PROVE  /\ Discovery(loc) \in Packet /\ Discovery(loc).src_loc = loc
           /\ Multicast(groups, n, loc, Discovery(loc)) \subseteq Copy
<1>1. Discovery(loc) \in Packet /\ Discovery(loc).src_loc = loc
  BY NewPackets DEF Discovery
<1> QED
  BY <1>1, Multicasts

LEMMA TypeAnnounce ==
    ASSUME TypeOK, NEW n \in Nodes, NEW loc \in Locators, Announce(n, loc)
    PROVE  TypeOK'
<1>1. joined \in [Nodes -> SUBSET Locators]
  BY DEF TypeOK
<1>2. Discovery(loc) \in Packet
      /\ Multicast(joined, n, loc, Discovery(loc)) \subseteq Copy
  BY <1>1, Discoveries
<1>3. packets' \in Seq(Packet) /\ Len(packets') <= MaxPackets
  BY <1>2, ForwardingAssumption DEF Announce, places, tables, TypeOK
<1> QED
  BY <1>2, <1>3 DEF Announce, places, tables, TypeOK

LEMMA TypeDiscard ==
    ASSUME TypeOK, NEW c \in net, Discard(c)
    PROVE  TypeOK'
BY DEF Discard, places, tables, TypeOK

\* One more of one, if it is counted.
LEMMA Increments ==
    ASSUME NEW S, NEW f \in [S -> Nat], NEW x
    PROVE  [f EXCEPT ![x] = @ + 1] \in [S -> Nat]
<1>1. CASE x \in S
  BY <1>1
<1>2. CASE x \notin S
  BY <1>2
<1> QED
  BY <1>1, <1>2

\* What is learned is a mapping with a timestamp.
LEMMA TypeLearn ==
    ASSUME TypeOK, NEW c \in net, Learn(c)
    PROVE  /\ DOMAIN loc_to_interface' = Nodes
           /\ \A n \in Nodes :
                 IsDict(loc_to_interface'[n], Locators, Locators \cup {None})
           /\ timed' \in [Nodes -> SUBSET Locators]
           /\ UNCHANGED forgot
<1>1. c.to \in Nodes /\ c.pkt.src_loc \in Locators
  BY Copies
<1>2. timed' \in [Nodes -> SUBSET Locators]
  BY <1>1 DEF Learn, TypeOK
<1> QED
  BY <1>1, <1>2, Learns DEF Learn

LEMMA TypeHandOver ==
    ASSUME TypeOK, NEW c \in net, HandOver(c)
    PROVE  TypeOK'
<1>1. /\ DOMAIN loc_to_interface' = Nodes
      /\ \A n \in Nodes :
            IsDict(loc_to_interface'[n], Locators, Locators \cup {None})
      /\ timed' \in [Nodes -> SUBSET Locators]
      /\ UNCHANGED forgot
  BY TypeLearn DEF HandOver
<1>2. handed' \in [Nodes -> [Ids -> Nat]]
  <2>1. handed[c.to] \in [Ids -> Nat] /\ c.to \in Nodes
    BY Copies DEF TypeOK
  <2> DEFINE counts == [handed[c.to] EXCEPT ![c.pkt.id] = @ + 1]
  <2>2. counts \in [Ids -> Nat]
    BY <2>1, Increments
  <2>3. handed' = [handed EXCEPT ![c.to] = counts]
    BY DEF HandOver
  <2> HIDE DEF counts
  <2> QED
    BY <2>2, <2>3 DEF TypeOK
<1> QED
  BY <1>1, <1>2 DEF HandOver, places, tables, TypeOK

\* A copy that goes on has one hop less, which is not less than none.
LEMMA Decrements ==
    ASSUME TypeOK, NEW c \in net, Onward(c) # {}
    PROVE  /\ Decremented(c.pkt) \in Packet
           /\ Decremented(c.pkt).src_loc = c.pkt.src_loc
<1>1. c.pkt.hop_limit # 0
  BY DEF Onward
<1>2. c.pkt.hop_limit - 1 \in 0 .. default_hop_limit
  BY <1>1, Copies, ForwardingAssumption
<1> QED
  BY <1>2, Copies DEF Decremented, Packet

\* The copies sent on are on links of the node that sends them on.
LEMMA Forwards ==
    ASSUME TypeOK, NEW c \in net, Forward(c), NEW d \in net' \ net
    PROVE  /\ d \in Copy /\ d.from = c.to /\ d.to # c.to
           /\ d.interface \in joined[c.to]
           /\ d.pkt.src_loc = c.pkt.src_loc
<1>1. PICK i \in Onward(c) \cap joined[c.to] :
         d \in Multicast(joined, c.to, i, Decremented(c.pkt))
  BY DEF Forward
<1>2. i \in Locators /\ c.to \in Nodes
  BY <1>1, Copies DEF TypeOK
<1>3. /\ Decremented(c.pkt) \in Packet
      /\ Decremented(c.pkt).src_loc = c.pkt.src_loc
  BY <1>1, Decrements
<1>4. joined \in [Nodes -> SUBSET Locators]
  BY DEF TypeOK
<1>5. /\ d \in Copy /\ d.pkt = Decremented(c.pkt) /\ d.from = c.to
      /\ d.interface = i /\ d.to \in Nodes \ {c.to}
  BY <1>1, <1>2, <1>3, <1>4, Multicasts
<1> QED
  BY <1>1, <1>3, <1>5

LEMMA TypeForward ==
    ASSUME TypeOK, NEW c \in net, Forward(c)
    PROVE  TypeOK'
<1>1. /\ DOMAIN loc_to_interface' = Nodes
      /\ \A n \in Nodes :
            IsDict(loc_to_interface'[n], Locators, Locators \cup {None})
      /\ timed' \in [Nodes -> SUBSET Locators]
      /\ UNCHANGED forgot
  BY TypeLearn DEF Forward
<1>2. net' \subseteq Copy
  BY Forwards DEF TypeOK
<1>3. echoed' \subseteq Ids \cup {0}
  BY Copies DEF Forward, places, tables, TypeOK
<1> QED
  BY <1>1, <1>2, <1>3 DEF Forward, places, tables, TypeOK

LEMMA TypeHandoff ==
    ASSUME TypeOK, NEW n \in Nodes, BeginHandoff(n) \/ EndHandoff(n)
    PROVE  TypeOK'
<1> USE ForwardingAssumption
<1>1. NewLocs[n] \subseteq Locators /\ OldLocs[n] \subseteq Locators
  OBVIOUS
<1>2. CASE BeginHandoff(n)
  <2>1. joined' \in [Nodes -> SUBSET Locators]
    BY <1>1, <1>2 DEF BeginHandoff, TypeOK
  <2>2. locs_joined' \in [Nodes -> SUBSET Locators]
    BY <1>1, <1>2 DEF BeginHandoff, TypeOK
  <2>3. /\ DOMAIN loc_to_interface' = Nodes
        /\ \A m \in Nodes :
              IsDict(loc_to_interface'[m], Locators, Locators \cup {None})
    BY <1>1, <1>2 DEF BeginHandoff, TypeOK, IsDict
  <2>4. ASSUME NEW c \in net' \ net PROVE c \in Copy
    <3>1. PICK loc \in NewLocs[n] \ OldLocs[n] :
             c \in Multicast(joined, n, loc, Discovery(loc))
      BY <1>2, <2>4 DEF BeginHandoff
    <3>2. joined \in [Nodes -> SUBSET Locators]
      BY DEF TypeOK
    <3> QED
      BY <1>1, <3>1, <3>2, Discoveries
  <2>5. timed' \in [Nodes -> SUBSET Locators] /\ UNCHANGED forgot
    BY <1>1, <1>2 DEF BeginHandoff, TypeOK
  <2> QED
    BY <1>2, <2>1, <2>2, <2>3, <2>4, <2>5 DEF BeginHandoff, TypeOK
<1>3. CASE EndHandoff(n)
  <2>1. joined' \in [Nodes -> SUBSET Locators]
    BY <1>1, <1>3 DEF EndHandoff, TypeOK
  <2>2. /\ DOMAIN loc_to_interface' = Nodes
        /\ \A m \in Nodes :
              IsDict(loc_to_interface'[m], Locators, Locators \cup {None})
    BY <1>1, <1>3 DEF EndHandoff, TypeOK, IsDict
  <2>3. DOMAIN loc_to_interface[n] \subseteq Locators
    BY DEF TypeOK, IsDict
  <2>4. /\ timed' \in [Nodes -> SUBSET Locators]
        /\ forgot' \in [Nodes -> SUBSET Locators]
    BY <1>3, <2>3 DEF EndHandoff, TypeOK
  <2> QED
    BY <1>3, <2>1, <2>2, <2>4 DEF EndHandoff, TypeOK
<1> QED
  BY <1>2, <1>3

LEMMA TypeExpires ==
    ASSUME TypeOK, NEW n \in Nodes, NEW loc \in Locators, RouteExpires(n, loc)
    PROVE  TypeOK'
<1>1. /\ DOMAIN loc_to_interface' = Nodes
      /\ \A m \in Nodes :
            IsDict(loc_to_interface'[m], Locators, Locators \cup {None})
  BY DEF RouteExpires, TypeOK, IsDict, Put
<1>2. /\ timed' \in [Nodes -> SUBSET Locators]
      /\ forgot' \in [Nodes -> SUBSET Locators]
  BY DEF RouteExpires, TypeOK
<1> QED
  BY <1>1, <1>2 DEF RouteExpires, TypeOK, places

LEMMA TypeStep == TypeOK /\ [Next]_vars => TypeOK'
<1> SUFFICES ASSUME TypeOK, [Next]_vars PROVE TypeOK'
  OBVIOUS
<1>1. ASSUME NEW c \in net, Receive(c) PROVE TypeOK'
  BY <1>1, TypeDiscard, TypeHandOver, TypeForward DEF Receive, Ignore
<1>2. CASE Lose
  BY <1>2, TypeDiscard DEF Lose
<1>3. ASSUME NEW n \in Nodes, NEW loc \in Locators, NEW d \in Nodes \cup Absent,
             Send(n, loc, d)
      PROVE  TypeOK'
  BY <1>3, TypeSend
<1>4. ASSUME NEW n \in Nodes, NEW loc \in Locators, Announce(n, loc)
      PROVE  TypeOK'
  BY <1>4, TypeAnnounce
<1>5. ASSUME NEW n \in Nodes, BeginHandoff(n) \/ EndHandoff(n) PROVE TypeOK'
  BY <1>5, TypeHandoff
<1>6. CASE UNCHANGED vars
  BY <1>6 DEF vars, places, tables, TypeOK
<1> QED
  BY <1>1, <1>2, <1>3, <1>4, <1>5, <1>6, TypeExpires DEF Next, Deliver

\* The types, for any nodes, locators, moves and hop limit.
THEOREM TypeCorrect == Spec => []TypeOK
<1>1. Init => TypeOK
  BY InitInv DEF Inv
<1> QED
  BY <1>1, TypeStep, PTL DEF Spec

-----------------------------------------------------------------------------
(***************************************************************************)
(* Routes                                                                  *)
(***************************************************************************)

\* What is learned replaces a mapping, and removes none.
LEMMA LearnKeeps ==
    ASSUME TypeOK, NEW c \in net, Learn(c), NEW n \in Nodes, NEW loc,
           HasRoute(n, loc)
    PROVE  HasRoute(n, loc)'
<1>1. c.interface \in Locators
  BY Copies
<1>2. loc_to_interface' = Learned(c)
  BY DEF Learn
<1> QED
  BY <1>1, <1>2, Learns, ForwardingAssumption DEF HasRoute

\* What a node knows it has known ever after.
LEMMA KnowsStill ==
    ASSUME TypeOK, [Next]_vars, NEW n \in Nodes, NEW loc, Knows(n, loc)
    PROVE  Knows(n, loc)'
<1>1. ASSUME NEW c \in net, HandOver(c) \/ Forward(c)
      PROVE  Knows(n, loc)'
  BY <1>1, LearnKeeps DEF HandOver, Forward, Knows, Learn
<1>2. ASSUME NEW m \in Nodes, BeginHandoff(m) PROVE Knows(n, loc)'
  <2>1. CASE m = n
    BY <1>2, <2>1, ForwardingAssumption
       DEF BeginHandoff, TypeOK, Knows, HasRoute
  <2>2. CASE m # n
    BY <1>2, <2>2 DEF BeginHandoff, TypeOK, Knows, HasRoute
  <2> QED
    BY <2>1, <2>2
<1>3. ASSUME NEW m \in Nodes, EndHandoff(m) PROVE Knows(n, loc)'
  <2>1. CASE m = n
    BY <1>3, <2>1 DEF EndHandoff, TypeOK, Knows, HasRoute
  <2>2. CASE m # n
    BY <1>3, <2>2 DEF EndHandoff, TypeOK, Knows, HasRoute
  <2> QED
    BY <2>1, <2>2
<1>4. ASSUME NEW m \in Nodes, NEW l \in Locators, RouteExpires(m, l)
      PROVE  Knows(n, loc)'
  <2>1. CASE m = n
    BY <1>4, <2>1 DEF RouteExpires, TypeOK, Knows, HasRoute, Put
  <2>2. CASE m # n
    BY <1>4, <2>2 DEF RouteExpires, TypeOK, Knows, HasRoute
  <2> QED
    BY <2>1, <2>2
<1>5. CASE UNCHANGED tables
  BY <1>5 DEF tables, Knows, HasRoute
<1> QED
  BY <1>1, <1>2, <1>3, <1>4, <1>5
     DEF Next, Deliver, Receive, Ignore, Lose, Discard, Send, Announce, vars

\* Where a node has been, it has been ever after.
LEMMA VisitedStill ==
    ASSUME TypeOK, [Next]_vars, NEW n \in Nodes, NodeOK(n)
    PROVE  Visited(n) \subseteq Visited(n)'
<1>1. ASSUME NEW m \in Nodes, BeginHandoff(m)
      PROVE  Visited(n) \subseteq Visited(n)'
  BY <1>1 DEF BeginHandoff, TypeOK, Visited, NodeOK
<1> QED
  BY <1>1 DEF Next, Deliver, Receive, Ignore, HandOver, Forward, Lose, Discard,
             Send, Announce, EndHandoff, RouteExpires, Visited, vars, places

\* A node that does not move stays on its links.
LEMMA SamePlace ==
    ASSUME NEW n \in Nodes, NodeOK(n),
           joined'[n] = joined[n] /\ locs_joined'[n] = locs_joined[n],
           \A loc \in locs_joined[n] : Pinned(n, loc)'
    PROVE  NodeOK(n)'
BY DEF NodeOK, Visited

\* Where the nodes are, and the mappings of their own locators, in a step.
LEMMA NodeStep ==
    ASSUME Inv, [Next]_vars, NEW n \in Nodes
    PROVE  NodeOK(n)'
<1>1. TypeOK /\ NodeOK(n)
  BY DEF Inv
<1>2. CASE UNCHANGED <<places, tables>>
  BY <1>1, <1>2, SamePlace DEF NodeOK, Pinned, places, tables
<1>3. ASSUME NEW c \in net, Learn(c), UNCHANGED places PROVE NodeOK(n)'
  <2>1. ASSUME NEW loc \in locs_joined[n] PROVE Pinned(n, loc)'
    <3>1. Pinned(n, loc) /\ c.to \in Nodes
      BY <1>1, <2>1, Copies DEF NodeOK
    <3>2. CASE c.pkt.src_loc \in locs_joined[c.to]
      BY <1>3, <3>1, <3>2 DEF Learn, Learned, Pinned
    <3>3. CASE c.pkt.src_loc \notin locs_joined[c.to]
      <4>1. loc \in DOMAIN loc_to_interface'[n]
            /\ loc_to_interface'[n][loc] = loc
        BY <1>1, <1>3, <2>1, <3>1, <3>3, Learns DEF Learn, Pinned
      <4>2. loc \notin timed'[n]
        BY <1>1, <1>3, <2>1, <3>1, <3>3 DEF Learn, Pinned, TypeOK
      <4> QED
        BY <4>1, <4>2 DEF Pinned
    <3> QED
      BY <3>2, <3>3
  <2> QED
    BY <1>1, <1>3, <2>1, SamePlace DEF places
<1>4. CASE BeginHandoff(n)
  <2>1. /\ joined'[n] = joined[n] \cup NewLocs[n]
        /\ locs_joined'[n] = NewLocs[n] /\ locs_joined[n] = OldLocs[n]
    BY <1>1, <1>4 DEF BeginHandoff, TypeOK, NodeOK
  <2>2. ASSUME NEW loc \in NewLocs[n] PROVE Pinned(n, loc)'
    BY <1>1, <1>4, <2>1, <2>2 DEF BeginHandoff, TypeOK, NodeOK, Pinned
  <2> QED
    BY <1>1, <2>1, <2>2 DEF NodeOK, Visited
<1>5. CASE EndHandoff(n)
  <2>1. /\ joined'[n] = NewLocs[n] /\ locs_joined'[n] = locs_joined[n]
        /\ locs_joined[n] = NewLocs[n]
    BY <1>1, <1>5 DEF EndHandoff, TypeOK
  <2>2. ASSUME NEW loc \in NewLocs[n] PROVE Pinned(n, loc)'
    BY <1>1, <1>5, <2>1, <2>2 DEF EndHandoff, TypeOK, NodeOK, Pinned
  <2> QED
    BY <1>1, <2>1, <2>2 DEF NodeOK, Visited
<1>6. ASSUME NEW m \in Nodes \ {n}, BeginHandoff(m) \/ EndHandoff(m)
      PROVE  NodeOK(n)'
  <2>1. /\ joined'[n] = joined[n] /\ locs_joined'[n] = locs_joined[n]
        /\ loc_to_interface'[n] = loc_to_interface[n] /\ timed'[n] = timed[n]
    BY <1>1, <1>6 DEF BeginHandoff, EndHandoff, TypeOK
  <2> QED
    BY <1>1, <2>1 DEF NodeOK, Visited, Pinned
<1>7. ASSUME NEW m \in Nodes, NEW l \in Locators, RouteExpires(m, l)
      PROVE  NodeOK(n)'
  <2>1. ASSUME NEW loc \in locs_joined[n] PROVE Pinned(n, loc)'
    <3>1. Pinned(n, loc)
      BY <1>1, <2>1 DEF NodeOK
    <3> QED
      BY <1>1, <1>7, <3>1 DEF RouteExpires, Pinned, TypeOK, Put
  <2> QED
    BY <1>1, <1>7, <2>1, SamePlace DEF RouteExpires, places
<1> QED
  BY <1>2, <1>3, <1>4, <1>5, <1>6, <1>7
     DEF Next, Deliver, Receive, Ignore, HandOver, Forward, Lose, Discard,
         Send, Announce, vars

\* A copy of what a node says of itself comes from one of its links.
LEMMA OwnCopies ==
    ASSUME Inv, [Next]_vars, NEW n \in Nodes, NEW i \in Locators \cap Visited(n),
           NEW pkt \in Packet, pkt.src_loc = i,
           NEW c \in Multicast(joined, n, i, pkt)
    PROVE  CopyOK(c)'
<1>1. TypeOK /\ joined \in [Nodes -> SUBSET Locators]
  BY DEF Inv, TypeOK
<1>2. c.pkt = pkt /\ c.from = n /\ c.interface = i /\ c.to \in Nodes \ {n}
  BY <1>1, Multicasts
<1>3. Visited(n) \subseteq Visited(n)'
  BY VisitedStill DEF Inv
<1> QED
  BY <1>2, <1>3 DEF CopyOK

LEMMA CopyStep ==
    ASSUME Inv, [Next]_vars, NEW c \in net'
    PROVE  CopyOK(c)'
<1>1. TypeOK /\ \A n \in Nodes : NodeOK(n)
  BY DEF Inv
<1>2. CASE c \in net
  <2>1. CopyOK(c) /\ c.from \in Nodes
    BY <1>1, <1>2, Copies DEF Inv
  <2> QED
    BY <1>1, <2>1, KnowsStill, VisitedStill DEF CopyOK
<1>3. ASSUME c \notin net, NEW b \in net, Forward(b) PROVE CopyOK(c)'
  <2>1. /\ c.from = b.to /\ c.to # b.to /\ c.interface \in joined[b.to]
        /\ c.pkt.src_loc = b.pkt.src_loc
    BY <1>1, <1>3, Forwards
  <2>2. b.to \in Nodes
    BY <1>1, Copies
  <2>3. c.interface \in Visited(c.from)'
    BY <1>1, <2>1, <2>2, VisitedStill DEF NodeOK
  <2>4. Knows(b.to, b.pkt.src_loc)'
    <3>1. CASE b.pkt.src_loc \in locs_joined[b.to]
      <4>1. Pinned(b.to, b.pkt.src_loc) /\ b.pkt.src_loc \in Locators
        BY <1>1, <2>2, <3>1, Copies DEF NodeOK
      <4>2. Knows(b.to, b.pkt.src_loc)
        BY <4>1, ForwardingAssumption DEF Pinned, Knows, HasRoute
      <4> QED
        BY <1>1, <2>2, <4>2, KnowsStill
    <3>2. CASE b.pkt.src_loc \notin locs_joined[b.to]
      <4>1. /\ b.pkt.src_loc \in DOMAIN loc_to_interface'[b.to]
            /\ loc_to_interface'[b.to][b.pkt.src_loc] = b.interface
        BY <1>1, <1>3, <2>2, <3>2 DEF Forward, Learn, Learned, TypeOK, Put
      <4> QED
        BY <1>1, <4>1, Copies, ForwardingAssumption DEF Knows, HasRoute
    <3> QED
      BY <3>1, <3>2
  <2> QED
    BY <2>1, <2>3, <2>4 DEF CopyOK
<1>4. ASSUME c \notin net, NEW n \in Nodes, NEW loc \in Locators,
             NEW d \in Nodes \cup Absent, Send(n, loc, d)
      PROVE  CopyOK(c)'
  <2> DEFINE i == loc_to_interface[n][loc]
             pkt == NewPacket(Len(packets) + 1, i, loc, d)
  <2>1. i \in joined[n] /\ joined[n] \subseteq Locators
    BY <1>1, <1>4 DEF Send, CanSend, TypeOK
  <2>2. i \in Locators \cap Visited(n)
    BY <1>1, <2>1 DEF NodeOK
  <2>3. Len(packets) + 1 \in Ids
    BY <1>1, <1>4, ForwardingAssumption DEF Send, Ids, TypeOK
  <2>4. pkt \in Packet /\ pkt.src_loc = i
    BY <2>2, <2>3, NewPackets
  <2>5. c \in Multicast(joined, n, i, pkt)
    BY <1>4 DEF Send
  <2> HIDE DEF i, pkt
  <2> QED
    BY <2>2, <2>4, <2>5, OwnCopies
<1>6. ASSUME c \notin net, NEW n \in Nodes, NEW loc \in Locators,
             Announce(n, loc)
      PROVE  CopyOK(c)'
  <2>1. /\ loc \in Locators \cap Visited(n)
        /\ c \in Multicast(joined, n, loc, Discovery(loc))
    BY <1>6 DEF Announce, Visited
  <2>2. Discovery(loc) \in Packet /\ Discovery(loc).src_loc = loc
    BY <1>1, Discoveries DEF TypeOK
  <2> QED
    BY <2>1, <2>2, OwnCopies
<1>7. ASSUME c \notin net, NEW n \in Nodes, BeginHandoff(n) PROVE CopyOK(c)'
  <2>1. PICK loc \in NewLocs[n] \ OldLocs[n] :
           c \in Multicast(joined, n, loc, Discovery(loc))
    BY <1>7 DEF BeginHandoff
  <2>2. loc \in Locators /\ joined \in [Nodes -> SUBSET Locators]
    BY <1>1, ForwardingAssumption DEF TypeOK
  <2>3. /\ Discovery(loc) \in Packet /\ Discovery(loc).src_loc = loc
    BY <1>1, <2>2, Discoveries
  <2>4. c.pkt = Discovery(loc) /\ c.from = n /\ c.interface = loc
        /\ c.to \in Nodes \ {n}
    BY <1>1, <2>1, <2>2, <2>3, Multicasts
  <2>5. loc \in Visited(n)'
    BY <1>1, <1>7 DEF BeginHandoff, TypeOK, Visited
  <2> QED
    BY <2>3, <2>4, <2>5 DEF CopyOK
<1> QED
  BY <1>2, <1>3, <1>4, <1>6, <1>7
     DEF Next, Deliver, Receive, Ignore, HandOver, Lose, Discard,
         EndHandoff, RouteExpires, vars

\* What is learned from a copy leads back to the node it was heard from.
LEMMA RouteLearned ==
    ASSUME Inv, [Next]_vars, NEW c \in net,
           loc_to_interface'[c.to][c.pkt.src_loc] = c.interface
    PROVE  RouteOK(c.to, c.pkt.src_loc)'
<1>1. CopyOK(c) /\ c.from \in Nodes /\ TypeOK /\ NodeOK(c.from)
  BY Copies DEF Inv
<1>2. CASE c.interface = c.pkt.src_loc
  BY <1>2 DEF RouteOK
<1>3. CASE Knows(c.from, c.pkt.src_loc)
  <2>1. Knows(c.from, c.pkt.src_loc)'
    BY <1>1, <1>3, KnowsStill
  <2> QED
    BY <1>1, <2>1, VisitedStill DEF CopyOK, RouteOK
<1> QED
  BY <1>1, <1>2, <1>3 DEF CopyOK

LEMMA RouteStep ==
    ASSUME Inv, [Next]_vars, NEW n \in Nodes,
           NEW loc \in DOMAIN loc_to_interface'[n]
    PROVE  RouteOK(n, loc)'
<1>1. TypeOK /\ \A m \in Nodes : NodeOK(m)
  BY DEF Inv
<1>2. CASE /\ loc \in DOMAIN loc_to_interface[n]
           /\ loc_to_interface'[n][loc] = loc_to_interface[n][loc]
  <2>1. RouteOK(n, loc)
    BY <1>2 DEF Inv
  <2> QED
    BY <1>1, <1>2, <2>1, KnowsStill, VisitedStill DEF RouteOK
<1>3. ASSUME NEW c \in net, HandOver(c) \/ Forward(c) PROVE RouteOK(n, loc)'
  BY <1>1, <1>2, <1>3, Learns, RouteLearned DEF HandOver, Forward, Learn
<1>4. ASSUME NEW m \in Nodes, BeginHandoff(m) PROVE RouteOK(n, loc)'
  <2>1. CASE m = n /\ loc \in NewLocs[n] \ OldLocs[n]
    <3>1. loc_to_interface'[n][loc] = loc
      BY <1>1, <1>4, <2>1 DEF BeginHandoff, TypeOK
    <3> QED
      BY <3>1 DEF RouteOK
  <2>2. CASE ~(m = n /\ loc \in NewLocs[n] \ OldLocs[n])
    <3>1. /\ loc \in DOMAIN loc_to_interface[n]
          /\ loc_to_interface'[n][loc] = loc_to_interface[n][loc]
      BY <1>1, <1>4, <2>2 DEF BeginHandoff, TypeOK
    <3> QED
      BY <1>2, <3>1
  <2> QED
    BY <2>1, <2>2
<1>5. ASSUME NEW m \in Nodes, EndHandoff(m) PROVE RouteOK(n, loc)'
  <2>1. /\ loc \in DOMAIN loc_to_interface[n]
        /\ loc_to_interface'[n][loc] = loc_to_interface[n][loc]
    BY <1>1, <1>5 DEF EndHandoff, TypeOK
  <2> QED
    BY <1>2, <2>1
<1>6. ASSUME NEW m \in Nodes, NEW l \in Locators, RouteExpires(m, l)
      PROVE  RouteOK(n, loc)'
  <2>1. CASE m = n /\ l = loc
    <3>1. loc_to_interface'[n][loc] = None
      BY <1>1, <1>6, <2>1 DEF RouteExpires, TypeOK, Put
    <3> QED
      BY <3>1 DEF RouteOK
  <2>2. CASE ~(m = n /\ l = loc)
    <3>1. /\ loc \in DOMAIN loc_to_interface[n]
          /\ loc_to_interface'[n][loc] = loc_to_interface[n][loc]
      BY <1>1, <1>6, <2>2 DEF RouteExpires, TypeOK, Put
    <3> QED
      BY <1>2, <3>1
  <2> QED
    BY <2>1, <2>2
<1> QED
  BY <1>2, <1>3, <1>4, <1>5, <1>6
     DEF Next, Deliver, Receive, Ignore, Lose, Discard, Send, Announce, vars,
         tables

LEMMA InvStep == Inv /\ [Next]_vars => Inv'
<1> SUFFICES ASSUME Inv, [Next]_vars PROVE Inv'
  OBVIOUS
<1>1. TypeOK'
  BY TypeStep DEF Inv
<1> QED
  BY <1>1, NodeStep, CopyStep, RouteStep DEF Inv

\* Routes learned backwards lead from node to node, in any network, however
\* packets are lost and delayed, whichever nodes move and whenever routes
\* expire: a packet ends only at a node that has lost its route.
THEOREM RoutesLead == Spec => []RoutesLeadOn
<1>1. Inv => RoutesLeadOn
  BY DEF Inv, RouteOK, RoutesLeadOn, Knows
<1> QED
  BY <1>1, InitInv, InvStep, PTL DEF Spec

-----------------------------------------------------------------------------
(***************************************************************************)
(* Packets sent on the link they are addressed to                          *)
(***************************************************************************)
Direct(pkt) == pkt.src_loc = pkt.dst_loc

\* A copy of a packet that an application has sent: what its nodes and links
\* are is never changed on the way.
SentOK(c) ==
    LET id == c.pkt.id IN
    IF id = 0 THEN ~Direct(c.pkt) /\ ForAll(c)
    ELSE /\ id <= Len(packets)
         /\ c.pkt.src_loc = packets[id].src_loc
         /\ c.pkt.dst_loc = packets[id].dst_loc
         /\ c.pkt.dst_nid = packets[id].dst_nid

\* A copy on the link it is addressed to: the first that its node hears of it.
FirstCopy(c) ==
    Direct(c.pkt) => c.interface = c.pkt.dst_loc /\ handed[c.to][c.pkt.id] = 0

\* There is one such copy for a node.
OneCopy(c, d) ==
    Direct(c.pkt) /\ c.pkt.id = d.pkt.id /\ c.to = d.to => c = d

CountOK(n, id) ==
    /\ id > Len(packets) => handed[n][id] = 0
    /\ id <= Len(packets) /\ Direct(packets[id]) => handed[n][id] <= 1
    /\ handed[n][id] > 0 => packets[id].dst_nid = n

DirectInv ==
    /\ TypeOK
    /\ \A c \in net : SentOK(c) /\ FirstCopy(c)
    /\ \A c, d \in net : OneCopy(c, d)
    /\ \A n \in Nodes, id \in Ids : CountOK(n, id)

LEMMA InitDirect == Init => DirectInv
<1> SUFFICES ASSUME Init PROVE DirectInv
  OBVIOUS
<1>1. TypeOK
  BY InitInv DEF Inv
<1>2. ASSUME NEW n \in Nodes, NEW id \in Ids PROVE CountOK(n, id)
  BY <1>2 DEF Init, CountOK, Ids
<1> QED
  BY <1>1, <1>2 DEF Init, DirectInv

\* What is sent is added at the end.
LEMMA Sent ==
    ASSUME TypeOK, NEW pkt \in Packet, packets' = Append(packets, pkt)
    PROVE  /\ Len(packets') = Len(packets) + 1 /\ Len(packets) \in Nat
           /\ packets'[Len(packets) + 1] = pkt
           /\ \A id \in 1 .. Len(packets) : packets'[id] = packets[id]
BY DEF TypeOK

\* A copy stays what it was when packets are sent, or copies heard.
LEMMA OldCopies ==
    ASSUME DirectInv, NEW c \in net,
           \/ packets' = packets
           \/ \E pkt \in Packet : packets' = Append(packets, pkt)
    PROVE  SentOK(c)'
<1>1. SentOK(c) /\ c.pkt.id \in Ids \cup {0} /\ TypeOK
  BY Copies DEF DirectInv
<1>2. CASE packets' = packets
  BY <1>1, <1>2 DEF SentOK, ForAll
<1>3. ASSUME NEW pkt \in Packet, packets' = Append(packets, pkt)
      PROVE  SentOK(c)'
  <2>1. /\ Len(packets') = Len(packets) + 1 /\ Len(packets) \in Nat
        /\ \A id \in 1 .. Len(packets) : packets'[id] = packets[id]
    BY <1>1, <1>3, Sent
  <2>2. CASE c.pkt.id = 0
    BY <1>1, <2>2 DEF SentOK, ForAll
  <2>3. CASE c.pkt.id # 0
    <3>1. c.pkt.id \in 1 .. Len(packets)
      BY <1>1, <2>1, <2>3 DEF SentOK, Ids
    <3> QED
      BY <1>1, <2>1, <2>3, <3>1 DEF SentOK
  <2> QED
    BY <2>2, <2>3
<1> QED
  BY <1>2, <1>3

\* So does a count that is not touched.
LEMMA OldCounts ==
    ASSUME DirectInv, NEW n \in Nodes, NEW id \in Ids,
           handed'[n][id] = handed[n][id],
           \/ packets' = packets
           \/ \E pkt \in Packet : packets' = Append(packets, pkt)
    PROVE  CountOK(n, id)'
<1>1. TypeOK /\ CountOK(n, id) /\ id \in Nat \ {0}
  BY DEF DirectInv, Ids
<1>2. CASE packets' = packets
  BY <1>1, <1>2 DEF CountOK
<1>3. ASSUME NEW pkt \in Packet, packets' = Append(packets, pkt)
      PROVE  CountOK(n, id)'
  <2>1. /\ Len(packets') = Len(packets) + 1 /\ Len(packets) \in Nat
        /\ \A k \in 1 .. Len(packets) : packets'[k] = packets[k]
    BY <1>1, <1>3, Sent
  <2>2. CASE id <= Len(packets)
    BY <1>1, <2>1, <2>2 DEF CountOK
  <2>3. CASE ~(id <= Len(packets))
    BY <1>1, <2>1, <2>3 DEF CountOK
  <2> QED
    BY <2>2, <2>3
<1> QED
  BY <1>2, <1>3

LEMMA CountsType ==
    ASSUME TypeOK, NEW n \in Nodes, NEW id \in Ids
    PROVE  handed[n][id] \in Nat
<1>1. handed[n] \in [Ids -> Nat]
  BY DEF TypeOK
<1> QED
  BY <1>1

\* Nothing is sent, and of the copies in flight some are no more.
LEMMA FewerCopies ==
    ASSUME DirectInv, TypeOK', net' \subseteq net,
           UNCHANGED <<packets, handed>>
    PROVE  DirectInv'
<1>1. ASSUME NEW c \in net' PROVE SentOK(c)' /\ FirstCopy(c)'
  <2>1. SentOK(c) /\ FirstCopy(c)
    BY <1>1 DEF DirectInv
  <2> QED
    BY <1>1, <2>1, OldCopies DEF FirstCopy
<1>2. ASSUME NEW c \in net', NEW d \in net' PROVE OneCopy(c, d)'
  BY <1>2 DEF DirectInv, OneCopy
<1>3. ASSUME NEW n \in Nodes, NEW id \in Ids PROVE CountOK(n, id)'
  BY <1>3, OldCounts
<1> QED
  BY <1>1, <1>2, <1>3 DEF DirectInv

\* Copies that are not of a packet on the link it is addressed to.
LEMMA MoreCopies ==
    ASSUME DirectInv, TypeOK', UNCHANGED handed,
           \/ packets' = packets
           \/ \E pkt \in Packet : packets' = Append(packets, pkt),
           \A c \in net' \ net :
              SentOK(c)' /\ ~Direct(c.pkt) /\ c.pkt.id \in Ids \cup {0}
    PROVE  DirectInv'
<1>1. ASSUME NEW c \in net' PROVE SentOK(c)' /\ FirstCopy(c)'
  <2>1. CASE c \in net
    <3>1. SentOK(c)' /\ FirstCopy(c)
      BY <2>1, OldCopies DEF DirectInv
    <3> QED
      BY <3>1 DEF FirstCopy
  <2>2. CASE c \notin net
    BY <1>1, <2>2 DEF FirstCopy
  <2> QED
    BY <2>1, <2>2
<1>2. ASSUME NEW c \in net', NEW d \in net', Direct(c.pkt),
             c.pkt.id = d.pkt.id, c.to = d.to
      PROVE  c = d
  <2>1. c \in net
    BY <1>2
  <2>2. Direct(d.pkt)
    <3>1. c.pkt.id # 0 /\ SentOK(c)' /\ SentOK(d)'
      BY <1>1, <1>2 DEF SentOK
    <3> QED
      BY <1>2, <3>1 DEF SentOK, Direct
  <2>3. d \in net
    BY <1>2, <2>2
  <2> QED
    BY <1>2, <2>1, <2>3 DEF DirectInv, OneCopy
<1>3. ASSUME NEW n \in Nodes, NEW id \in Ids PROVE CountOK(n, id)'
  BY <1>3, OldCounts
<1> QED
  BY <1>1, <1>2, <1>3 DEF DirectInv, OneCopy


LEMMA DirectSend ==
    ASSUME DirectInv, TypeOK', NEW n \in Nodes, NEW loc \in Locators,
           NEW d \in Nodes \cup Absent, Send(n, loc, d)
    PROVE  DirectInv'
<1> DEFINE i   == loc_to_interface[n][loc]
           id  == Len(packets) + 1
           pkt == NewPacket(id, i, loc, d)
<1>1. TypeOK /\ joined \in [Nodes -> SUBSET Locators]
  BY DEF DirectInv, TypeOK
<1>2. i \in Locators
  BY <1>1 DEF Send, CanSend, TypeOK, IsDict
<1>3. id \in Ids /\ Len(packets) \in Nat
  BY <1>1, ForwardingAssumption DEF Send, Ids, TypeOK
<1>4. /\ pkt \in Packet
      /\ pkt.id = id /\ pkt.src_loc = i /\ pkt.dst_loc = loc
  BY <1>2, <1>3, NewPackets DEF NewPacket
<1>5. /\ net' = net \cup Multicast(joined, n, i, pkt)
      /\ packets' = Append(packets, pkt)
      /\ handed' = handed
  BY DEF Send
<1> HIDE DEF pkt
<1>6. ASSUME NEW c \in net' \ net
      PROVE  /\ c.pkt = pkt /\ c.from = n /\ c.interface = i
             /\ c.to \in Nodes /\ c \in Copy
  BY <1>1, <1>2, <1>4, <1>5, <1>6, Multicasts
<1>7. /\ Len(packets') = id /\ packets'[id] = pkt
      /\ id # 0 /\ id > Len(packets)
  BY <1>1, <1>3, <1>4, <1>5, Sent DEF Ids
<1>8. \A m \in Nodes : handed[m][id] = 0
  BY <1>3, <1>7 DEF DirectInv, CountOK
<1>9. ASSUME NEW c \in net' PROVE SentOK(c)' /\ FirstCopy(c)'
  <2>1. CASE c \in net
    <3>1. SentOK(c)' /\ FirstCopy(c)
      BY <1>4, <1>5, <2>1, OldCopies DEF DirectInv
    <3> QED
      BY <1>5, <3>1 DEF FirstCopy
  <2>2. CASE c \notin net
    <3>1. c.pkt = pkt /\ c.interface = i /\ c.to \in Nodes
      BY <1>6, <1>9, <2>2
    <3>2. SentOK(c)'
      BY <1>3, <1>4, <1>7, <3>1 DEF SentOK
    <3>3. FirstCopy(c)'
      BY <1>4, <1>5, <1>8, <3>1 DEF FirstCopy, Direct
    <3> QED
      BY <3>2, <3>3
  <2> QED
    BY <2>1, <2>2
<1>10. ASSUME NEW c \in net PROVE c.pkt.id # id
  BY <1>1, <1>3, <1>7, <1>10, Copies DEF DirectInv, SentOK, Ids
<1>11. ASSUME NEW b \in net', NEW c \in net', OneCopy(b, c) = FALSE
       PROVE  FALSE
  <2>1. b.pkt.id = c.pkt.id /\ b.to = c.to /\ b # c
    BY <1>11 DEF OneCopy
  <2>2. CASE b \in net /\ c \in net
    BY <1>11, <2>2 DEF DirectInv
  <2>3. CASE b \notin net /\ c \notin net
    BY <1>6, <1>11, <2>1, <2>3 DEF Copy
  <2>4. CASE b \in net /\ c \notin net
    BY <1>4, <1>6, <1>10, <1>11, <2>1, <2>4
  <2>5. CASE b \notin net /\ c \in net
    BY <1>4, <1>6, <1>10, <1>11, <2>1, <2>5
  <2> QED
    BY <2>2, <2>3, <2>4, <2>5
<1>12. ASSUME NEW m \in Nodes, NEW k \in Ids PROVE CountOK(m, k)'
  BY <1>4, <1>5, <1>12, OldCounts
<1> QED
  BY <1>9, <1>11, <1>12 DEF DirectInv, OneCopy

\* A discovery message is addressed to no link.
LEMMA DiscoveryCopies ==
    ASSUME TypeOK, NEW n \in Nodes, NEW loc \in Locators,
           NEW c \in Multicast(joined, n, loc, Discovery(loc))
    PROVE  SentOK(c)' /\ ~Direct(c.pkt) /\ c.pkt.id \in Ids \cup {0}
<1>1. Discovery(loc) \in Packet /\ joined \in [Nodes -> SUBSET Locators]
  BY Discoveries DEF TypeOK
<1>2. c.pkt = Discovery(loc)
  BY <1>1, Multicasts
<1>3. /\ c.pkt.id = 0 /\ c.pkt.src_loc = loc /\ c.pkt.dst_loc = AllNodes
  BY <1>2 DEF Discovery, NewPacket
<1>4. ~Direct(c.pkt)
  BY <1>3, ForwardingAssumption DEF Direct
<1> QED
  BY <1>3, <1>4 DEF SentOK, ForAll

LEMMA DirectAnnounce ==
    ASSUME DirectInv, TypeOK', NEW n \in Nodes, NEW loc \in Locators,
           Announce(n, loc)
    PROVE  DirectInv'
<1>1. TypeOK /\ joined \in [Nodes -> SUBSET Locators]
  BY DEF DirectInv, TypeOK
<1>2. Discovery(loc) \in Packet
  BY <1>1, Discoveries
<1>3. \A c \in net' \ net :
         SentOK(c)' /\ ~Direct(c.pkt) /\ c.pkt.id \in Ids \cup {0}
  BY <1>1, DiscoveryCopies DEF Announce
<1> QED
  BY <1>2, <1>3, MoreCopies DEF Announce

LEMMA DirectBegin ==
    ASSUME DirectInv, TypeOK', NEW n \in Nodes, BeginHandoff(n)
    PROVE  DirectInv'
<1>1. TypeOK
  BY DEF DirectInv
<1>2. ASSUME NEW c \in net' \ net
      PROVE  SentOK(c)' /\ ~Direct(c.pkt) /\ c.pkt.id \in Ids \cup {0}
  <2>1. PICK loc \in NewLocs[n] \ OldLocs[n] :
           c \in Multicast(joined, n, loc, Discovery(loc))
    BY <1>2 DEF BeginHandoff
  <2>2. loc \in Locators
    BY ForwardingAssumption
  <2> QED
    BY <1>1, <2>1, <2>2, DiscoveryCopies
<1> QED
  BY <1>2, MoreCopies DEF BeginHandoff

\* Where it has been heard at its destination, a packet does not go on.
LEMMA DirectForward ==
    ASSUME DirectInv, TypeOK', NEW b \in net, Forward(b)
    PROVE  DirectInv'
<1>1. TypeOK /\ SentOK(b) /\ FirstCopy(b)
  BY DEF DirectInv
<1>2. ASSUME NEW c \in net' \ net
      PROVE  /\ c.pkt.id = b.pkt.id /\ c.pkt.src_loc = b.pkt.src_loc
             /\ c.pkt.dst_loc = b.pkt.dst_loc
             /\ c.pkt.dst_nid = b.pkt.dst_nid /\ Onward(b) # {}
  <2>1. PICK i \in Onward(b) \cap joined[b.to] :
           c \in Multicast(joined, b.to, i, Decremented(b.pkt))
    BY <1>2 DEF Forward
  <2>2. i \in Locators /\ b.to \in Nodes /\ joined \in [Nodes -> SUBSET Locators]
    BY <1>1, <2>1, Copies DEF TypeOK
  <2>3. Decremented(b.pkt) \in Packet
    BY <1>1, <2>1, Decrements
  <2>4. c.pkt = Decremented(b.pkt)
    BY <1>1, <2>1, <2>2, <2>3, Multicasts
  <2> QED
    BY <1>1, <2>1, <2>4, Copies DEF Decremented, Packet
<1>3. Onward(b) # {} => ~Direct(b.pkt)
  <2> SUFFICES ASSUME Direct(b.pkt), Onward(b) # {} PROVE FALSE
    OBVIOUS
  <2>1. b.interface = b.pkt.dst_loc
    BY <1>1 DEF FirstCopy
  <2>2. ~ForAll(b)
    BY <1>1, Copies, ForwardingAssumption DEF Direct, ForAll
  <2> QED
    BY <2>1, <2>2 DEF Onward
<1>4. ASSUME NEW c \in net' \ net
      PROVE  SentOK(c)' /\ ~Direct(c.pkt) /\ c.pkt.id \in Ids \cup {0}
  <2>1. packets' = packets /\ b.pkt.id \in Ids \cup {0}
    BY <1>1, Copies DEF Forward
  <2>2. ~Direct(c.pkt)
    BY <1>2, <1>3 DEF Direct
  <2> QED
    BY <1>1, <1>2, <2>1, <2>2 DEF SentOK, ForAll, Direct
<1> QED
  BY <1>4, MoreCopies DEF Forward

LEMMA DirectHandOver ==
    ASSUME DirectInv, TypeOK', NEW b \in net, HandOver(b)
    PROVE  DirectInv'
<1>1. /\ TypeOK /\ SentOK(b) /\ FirstCopy(b) /\ b.to \in Nodes
      /\ b.pkt.id \in Ids \cup {0}
  BY Copies DEF DirectInv
<1>2. b.pkt.id \in Ids
  BY <1>1 DEF HandOver, ForNode, SentOK
<1>3. /\ net' = net \ {b} /\ packets' = packets
      /\ \A n \in Nodes, id \in Ids :
            handed'[n][id] = IF n = b.to /\ id = b.pkt.id THEN handed[n][id] + 1
                                                          ELSE handed[n][id]
  BY <1>1, <1>2 DEF HandOver, TypeOK
<1>4. b.pkt.id \in Nat \ {0} /\ handed[b.to][b.pkt.id] \in Nat
  BY <1>1, <1>2, CountsType DEF Ids
<1>5. ASSUME NEW c \in net' PROVE SentOK(c)' /\ FirstCopy(c)'
  <2>1. /\ c \in net /\ c # b /\ SentOK(c) /\ FirstCopy(c) /\ OneCopy(c, b)
        /\ c.to \in Nodes /\ c.pkt.id \in Ids \cup {0}
    BY <1>1, <1>3, <1>5, Copies DEF DirectInv
  <2>2. SentOK(c)'
    BY <1>3, <2>1, OldCopies
  <2>3. ASSUME Direct(c.pkt) PROVE handed'[c.to][c.pkt.id] = 0
    <3>1. c.pkt.id # 0 /\ ~(c.to = b.to /\ c.pkt.id = b.pkt.id)
      BY <2>1, <2>3 DEF OneCopy, SentOK
    <3> QED
      BY <1>3, <2>1, <2>3, <3>1 DEF FirstCopy
  <2> QED
    BY <2>1, <2>2, <2>3 DEF FirstCopy
<1>6. ASSUME NEW n \in Nodes, NEW id \in Ids PROVE CountOK(n, id)'
  <2>1. CASE n = b.to /\ id = b.pkt.id
    <3>1. id <= Len(packets)
      BY <1>1, <1>4, <2>1 DEF SentOK
    <3>2. Direct(packets[id]) => handed[n][id] = 0
      BY <1>1, <1>4, <2>1 DEF SentOK, Direct, FirstCopy
    <3>3. Len(packets) \in Nat
      BY <1>1 DEF TypeOK
    <3>4. packets[id].dst_nid = n
      BY <1>1, <1>4, <2>1 DEF SentOK, HandOver, ForNode
    <3> QED
      BY <1>3, <1>4, <2>1, <3>1, <3>2, <3>3, <3>4 DEF CountOK
  <2>2. CASE ~(n = b.to /\ id = b.pkt.id)
    BY <1>3, <1>6, <2>2, OldCounts
  <2> QED
    BY <2>1, <2>2
<1> QED
  BY <1>3, <1>5, <1>6 DEF DirectInv, OneCopy

LEMMA DirectStep == DirectInv /\ [Next]_vars => DirectInv'
<1> SUFFICES ASSUME DirectInv, [Next]_vars PROVE DirectInv'
  OBVIOUS
<1>1. TypeOK'
  BY TypeStep DEF DirectInv
<1>2. ASSUME NEW c \in net, Discard(c) PROVE DirectInv'
  BY <1>1, <1>2, FewerCopies DEF Discard
<1>3. ASSUME NEW c \in net, Receive(c) PROVE DirectInv'
  BY <1>1, <1>2, <1>3, DirectHandOver, DirectForward DEF Receive, Ignore
<1>4. ASSUME NEW n \in Nodes, BeginHandoff(n) \/ EndHandoff(n)
      PROVE  DirectInv'
  BY <1>1, <1>4, DirectBegin, FewerCopies DEF EndHandoff
<1>5. ASSUME NEW n \in Nodes, NEW loc \in Locators, RouteExpires(n, loc)
      PROVE  DirectInv'
  BY <1>1, <1>5, FewerCopies DEF RouteExpires
<1>6. CASE UNCHANGED vars
  BY <1>1, <1>6, FewerCopies DEF vars
<1> QED
  BY <1>1, <1>2, <1>3, <1>4, <1>5, <1>6, DirectSend, DirectAnnounce
     DEF Next, Deliver, Lose

\* A packet sent on the link it is addressed to is handed over at most once by
\* each node, in any network, with any number of routers, whichever nodes move
\* and however copies are delayed and overtake each other.
THEOREM HandedOnce == Spec => []DirectOnce
<1>1. DirectInv => DirectOnce
  <2> SUFFICES ASSUME DirectInv, NEW n \in Nodes, NEW id \in Ids,
                      handed[n][id] > 1
               PROVE  packets[id].src_loc # packets[id].dst_loc
    BY DEF DirectOnce
  <2>1. /\ CountOK(n, id) /\ TypeOK /\ id \in Nat
    BY DEF DirectInv, Ids
  <2>2. handed[n][id] \in Nat /\ Len(packets) \in Nat
    BY <2>1, CountsType DEF TypeOK
  <2> QED
    BY <2>1, <2>2 DEF CountOK, Direct
<1> QED
  BY <1>1, InitDirect, DirectStep, PTL DEF Spec

-----------------------------------------------------------------------------
(***************************************************************************)
(* What ends the way of a packet                                           *)
(***************************************************************************)

\* A node sends a packet of its own: on the link it names as the source, and
\* with all its hops.
Originates(c) ==
    c.interface = c.pkt.src_loc /\ c.pkt.hop_limit = default_hop_limit

\* The node that sends c has heard b, has no longer got it, and takes one hop off.
SentOnFrom(b, c) ==
    /\ c.from = b.to
    /\ c.pkt.id = b.pkt.id
    /\ c.pkt.hop_limit = b.pkt.hop_limit - 1

Descends ==
    \A c \in net' \ net :
        Originates(c) \/ \E b \in net \ net' : SentOnFrom(b, c)

LEMMA OriginalCopies ==
    ASSUME TypeOK, NEW n \in Nodes, NEW i \in Locators,
           NEW id \in Ids \cup {0}, NEW loc \in Locators \cup {AllNodes},
           NEW nid \in Nodes \cup Absent \cup {AllNodes},
           NEW c \in Multicast(joined, n, i, NewPacket(id, i, loc, nid))
    PROVE  Originates(c)
<1>1. /\ NewPacket(id, i, loc, nid) \in Packet
      /\ joined \in [Nodes -> SUBSET Locators]
  BY NewPackets DEF TypeOK
<1>2. c.pkt = NewPacket(id, i, loc, nid) /\ c.interface = i
  BY <1>1, Multicasts
<1> QED
  BY <1>2 DEF NewPacket, Originates

LEMMA ForwardDescends ==
    ASSUME TypeOK, NEW b \in net, Forward(b), NEW c \in net' \ net
    PROVE  b \in net \ net' /\ SentOnFrom(b, c)
<1>1. PICK i \in Onward(b) \cap joined[b.to] :
         c \in Multicast(joined, b.to, i, Decremented(b.pkt))
  BY DEF Forward
<1>2. i \in Locators /\ b.to \in Nodes /\ joined \in [Nodes -> SUBSET Locators]
  BY <1>1, Copies DEF TypeOK
<1>3. b.pkt \in Packet /\ b.pkt.hop_limit \in Nat
  BY Copies, ForwardingAssumption
<1>4. Decremented(b.pkt) \in Packet
      /\ Decremented(b.pkt).hop_limit = b.pkt.hop_limit - 1
      /\ Decremented(b.pkt).id = b.pkt.id
  BY <1>1, <1>3, Decrements DEF Decremented, Packet
<1>5. ASSUME NEW j \in Onward(b) \cap joined[b.to],
             NEW d \in Multicast(joined, b.to, j, Decremented(b.pkt))
      PROVE  d # b
  <2>1. j \in Locators
    BY <1>2, <1>5
  <2>2. d.pkt = Decremented(b.pkt)
    BY <1>2, <1>4, <1>5, <2>1, Multicasts
  <2> QED
    BY <1>3, <1>4, <2>2
<1>6. b \notin net'
  BY <1>5 DEF Forward
<1>7. c.pkt = Decremented(b.pkt) /\ c.from = b.to
  BY <1>1, <1>2, <1>4, Multicasts
<1> QED
  BY <1>4, <1>6, <1>7 DEF SentOnFrom

LEMMA StepDescends == TypeOK /\ [Next]_vars => [Descends]_net
<1> SUFFICES ASSUME TypeOK, [Next]_vars, NEW c \in net' \ net
             PROVE  Originates(c) \/ \E b \in net \ net' : SentOnFrom(b, c)
  BY DEF Descends
<1>1. ASSUME NEW b \in net, Forward(b)
      PROVE  \E a \in net \ net' : SentOnFrom(a, c)
  BY <1>1, ForwardDescends
<1>2. ASSUME NEW n \in Nodes, NEW loc \in Locators, NEW d \in Nodes \cup Absent,
             Send(n, loc, d)
      PROVE  Originates(c)
  <2> DEFINE i == loc_to_interface[n][loc]
  <2>1. i \in Locators
    BY <1>2 DEF Send, CanSend, TypeOK, IsDict
  <2>2. Len(packets) + 1 \in Ids
    BY <1>2, ForwardingAssumption DEF Send, Ids, TypeOK
  <2>3. c \in Multicast(joined, n, i, NewPacket(Len(packets) + 1, i, loc, d))
    BY <1>2 DEF Send
  <2> HIDE DEF i
  <2> QED
    BY <2>1, <2>2, <2>3, OriginalCopies
<1>3. ASSUME NEW n \in Nodes, NEW loc \in Locators,
             c \in Multicast(joined, n, loc, Discovery(loc))
      PROVE  Originates(c)
  BY <1>3, OriginalCopies DEF Discovery
<1>4. ASSUME NEW n \in Nodes, BeginHandoff(n) PROVE Originates(c)
  <2>1. PICK loc \in NewLocs[n] \ OldLocs[n] :
           c \in Multicast(joined, n, loc, Discovery(loc))
    BY <1>4 DEF BeginHandoff
  <2>2. loc \in Locators
    BY ForwardingAssumption
  <2> QED
    BY <1>3, <2>1, <2>2
<1> QED
  BY <1>1, <1>2, <1>3, <1>4
     DEF Next, Deliver, Receive, Ignore, HandOver, Lose, Discard, Announce,
         EndHandoff, RouteExpires, vars

\* Nothing is sent but packets of a node's own and, in place of a copy that is
\* gone, its successors with one hop less. As no hop limit is below zero
\* (TypeCorrect), every packet stops, in any network and whatever circles its
\* routes go round.
THEOREM HopsRunOut == Spec => [][Descends]_net
BY TypeCorrect, StepDescends, PTL DEF Spec

-----------------------------------------------------------------------------
(***************************************************************************)
(* Packets to a node that moves                                            *)
(***************************************************************************)

\* n has begun its move before it can be reached at its new locators.
PhaseOK(n) == locs_joined[n] = NewLocs[n] \/ joined[n] = OldLocs[n]

\* The packet is for n, at the only locator that n moves to.
ToMover(n, id) ==
    /\ OldLocs[n] \cap NewLocs[n] = {}
    /\ id <= Len(packets)
    /\ packets[id].dst_nid = n
    /\ NewLocs[n] = {packets[id].dst_loc}

\* A way from s to n, to the locator that n moves to.
Route(n, s, up, way) ==
    /\ up[n] \in NewLocs[n]
    /\ TreeWithout(n, s, up)
    /\ OnTheWayTo(n, up, way)

\* c is a copy of the packet on the way.
Comes(c, id, up, way) ==
    c.pkt.id = id /\ c.interface = up[c.to] /\ c.to \in way

\* Copies are heard on the side of the source, and one at most is on the way to
\* n, or has been handed over.
OnCourse(n, id, up, way) ==
    /\ \A c \in net : c.pkt.id = id /\ c.to # n => c.interface = up[c.to]
    /\ \A b, c \in net :
          Comes(b, id, up, way) /\ Comes(c, id, up, way) => b = c
    /\ handed[n][id] <= 1
    /\ handed[n][id] > 0 => \A c \in net : ~Comes(c, id, up, way)

Orderly(n, id) ==
    ToMover(n, id) =>
        /\ locs_joined[n] = NewLocs[n]
        /\ \A up \in [Nodes -> Locators], way \in SUBSET Nodes :
              Route(n, packets[id].src_loc, up, way) /\ id \notin echoed
                  => OnCourse(n, id, up, way)

MoverInv ==
    /\ Inv
    /\ DirectInv
    /\ \A n \in Nodes : PhaseOK(n)
    /\ \A n \in Nodes, id \in Ids : Orderly(n, id)

LEMMA InitMover == Init => MoverInv
<1> SUFFICES ASSUME Init PROVE MoverInv
  OBVIOUS
<1>1. \A n \in Nodes : PhaseOK(n)
  BY DEF Init, PhaseOK
<1>2. ASSUME NEW n \in Nodes, NEW id \in Ids PROVE ~ToMover(n, id)
  BY <1>2 DEF Init, ToMover, Ids
<1> QED
  BY <1>1, <1>2, InitInv, InitDirect DEF MoverInv, Orderly

\* A move is begun and ended once.
LEMMA PhaseStep ==
    ASSUME TypeOK, [Next]_vars, NEW n \in Nodes, PhaseOK(n)
    PROVE  /\ PhaseOK(n)'
           /\ locs_joined[n] = NewLocs[n] => locs_joined'[n] = NewLocs[n]
<1>1. CASE joined'[n] = joined[n] /\ locs_joined'[n] = locs_joined[n]
  BY <1>1 DEF PhaseOK
<1>2. CASE BeginHandoff(n)
  BY <1>2 DEF BeginHandoff, TypeOK, PhaseOK
<1>3. CASE EndHandoff(n)
  BY <1>3 DEF EndHandoff, TypeOK, PhaseOK
<1>4. ASSUME NEW m \in Nodes \ {n}, BeginHandoff(m) \/ EndHandoff(m)
      PROVE  joined'[n] = joined[n] /\ locs_joined'[n] = locs_joined[n]
  BY <1>4 DEF BeginHandoff, EndHandoff, TypeOK
<1> QED
  BY <1>1, <1>2, <1>3, <1>4
     DEF Next, Deliver, Receive, Ignore, HandOver, Forward, Lose, Discard,
         Send, Announce, RouteExpires, vars, places

\* What has to be kept, if nothing more is in flight of the packet.
LEMMA Undisturbed ==
    ASSUME NEW n, NEW id, NEW up, NEW way, OnCourse(n, id, up, way),
           \A c \in net' : c.pkt.id = id => c \in net,
           handed'[n][id] = handed[n][id]
    PROVE  OnCourse(n, id, up, way)'
BY DEF OnCourse, Comes

LEMMA OrderlyUndisturbed ==
    ASSUME MoverInv, [Next]_vars, NEW n \in Nodes, NEW id \in Ids,
           ToMover(n, id)' => ToMover(n, id),
           id <= Len(packets) => packets'[id] = packets[id],
           \A c \in net' : c.pkt.id = id => c \in net,
           handed'[n][id] = handed[n][id], echoed \subseteq echoed'
    PROVE  Orderly(n, id)'
<1> SUFFICES ASSUME ToMover(n, id)'
             PROVE  /\ locs_joined'[n] = NewLocs[n]
                    /\ \A up \in [Nodes -> Locators], way \in SUBSET Nodes :
                          Route(n, packets'[id].src_loc, up, way)
                          /\ id \notin echoed' => OnCourse(n, id, up, way)'
  BY DEF Orderly, Route, TreeWithout, OnTheWayTo, Links
<1>1. ToMover(n, id) /\ Orderly(n, id) /\ PhaseOK(n) /\ TypeOK
  BY DEF MoverInv, Inv
<1>2. locs_joined'[n] = NewLocs[n]
  BY <1>1, PhaseStep DEF Orderly
<1>3. packets'[id] = packets[id]
  BY <1>1 DEF ToMover
<1>4. ASSUME NEW up \in [Nodes -> Locators], NEW way \in SUBSET Nodes,
             Route(n, packets'[id].src_loc, up, way), id \notin echoed'
      PROVE  OnCourse(n, id, up, way)'
  <2>1. OnCourse(n, id, up, way)
    BY <1>1, <1>3, <1>4 DEF Orderly
  <2> QED
    BY <2>1, Undisturbed
<1> QED
  BY <1>2, <1>4


\* The copies of what is sent, in detail.
LEMMA Hearers ==
    ASSUME TypeOK, NEW n \in Nodes, NEW i \in Locators, NEW pkt \in Packet,
           NEW c \in Multicast(joined, n, i, pkt)
    PROVE  /\ c = [pkt |-> pkt, from |-> n, to |-> c.to, interface |-> i]
           /\ c.pkt = pkt /\ c.interface = i /\ c.from = n
           /\ c.to \in Nodes \ {n} /\ i \in joined[c.to]
BY DEF Multicast

\* The packets that nobody has sent before have no copies.
LEMMA NoCopies ==
    ASSUME DirectInv, NEW c \in net, c.pkt.id # 0
    PROVE  c.pkt.id \in 1 .. Len(packets)
<1>1. SentOK(c) /\ c.pkt.id \in Ids \cup {0} /\ TypeOK
  BY Copies DEF DirectInv
<1> QED
  BY <1>1 DEF SentOK, Ids, TypeOK

LEMMA OrderlySend ==
    ASSUME MoverInv, [Next]_vars, NEW m \in Nodes, NEW loc \in Locators,
           NEW d \in Nodes \cup Absent, Send(m, loc, d),
           NEW n \in Nodes, NEW id \in Ids
    PROVE  Orderly(n, id)'
<1> DEFINE i   == loc_to_interface[m][loc]
           pkt == NewPacket(Len(packets) + 1, i, loc, d)
<1>1. /\ TypeOK /\ DirectInv /\ \A k \in Nodes : NodeOK(k) /\ PhaseOK(k)
      /\ id \in Nat \ {0}
  BY DEF MoverInv, Inv, Ids
<1>2. i \in Locators /\ i \in joined[m]
  BY <1>1 DEF Send, CanSend, TypeOK, IsDict
<1>3. Len(packets) + 1 \in Ids /\ Len(packets) \in Nat
  BY <1>1, ForwardingAssumption DEF Send, Ids, TypeOK
<1>4. /\ pkt \in Packet /\ pkt.id = Len(packets) + 1
      /\ pkt.src_loc = i /\ pkt.dst_loc = loc /\ pkt.dst_nid = d
  BY <1>2, <1>3, NewPackets DEF NewPacket
<1>5. /\ net' = net \cup Multicast(joined, m, i, pkt)
      /\ packets' = Append(packets, pkt)
      /\ UNCHANGED <<handed, echoed, joined, locs_joined>>
      /\ d # m /\ (d \in Nodes => loc \in OldLocs[d] \cup joined[d])
  BY DEF Send, places
<1> HIDE DEF pkt, i
<1>6. /\ Len(packets') = Len(packets) + 1
      /\ packets'[Len(packets) + 1] = pkt
      /\ \A k \in 1 .. Len(packets) : packets'[k] = packets[k]
  BY <1>1, <1>4, <1>5, Sent
<1>7. \A c \in net' : c \in net \/ c.pkt = pkt
  BY <1>1, <1>2, <1>4, <1>5, Hearers
<1>8. CASE id # Len(packets) + 1
  <2>1. ToMover(n, id)' => ToMover(n, id)
    BY <1>1, <1>3, <1>6, <1>8 DEF ToMover
  <2>2. \A c \in net' : c.pkt.id = id => c \in net
    BY <1>4, <1>7, <1>8
  <2> QED
    BY <1>1, <1>5, <1>6, <2>1, <2>2, OrderlyUndisturbed
<1>9. CASE id = Len(packets) + 1
  <2> SUFFICES ASSUME ToMover(n, id)'
               PROVE  /\ locs_joined'[n] = NewLocs[n]
                      /\ \A up \in [Nodes -> Locators], way \in SUBSET Nodes :
                            Route(n, i, up, way) => OnCourse(n, id, up, way)'
    BY <1>4, <1>6, <1>9 DEF Orderly, Route, TreeWithout, OnTheWayTo, Links
  <2>1. /\ d = n /\ NewLocs[n] = {loc}
        /\ loc \notin OldLocs[n]
    BY <1>4, <1>6, <1>9 DEF ToMover
  <2>2. locs_joined'[n] = NewLocs[n]
    BY <1>1, <1>5, <2>1 DEF PhaseOK
  <2>3. ASSUME NEW c \in net', c.pkt.id = id
        PROVE  /\ c = [pkt |-> pkt, from |-> m, to |-> c.to, interface |-> i]
               /\ c.interface = i /\ c.to \in Nodes /\ i \in Links(c.to)
    <3>1. c \notin net
      BY <1>1, <1>9, <2>3, NoCopies
    <3>2. c \in Multicast(joined, m, i, pkt)
      BY <1>5, <3>1
    <3> QED
      BY <1>1, <1>2, <1>4, <3>2, Hearers DEF NodeOK, Visited, Links
  <2>4. handed'[n][id] = 0
    BY <1>1, <1>3, <1>5, <1>9 DEF DirectInv, CountOK
  <2>5. ASSUME NEW up \in [Nodes -> Locators], NEW way \in SUBSET Nodes,
               Route(n, i, up, way)
        PROVE  OnCourse(n, id, up, way)'
    <3>1. ASSUME NEW c \in net', c.pkt.id = id, c.to # n
          PROVE  c.interface = up[c.to]
      BY <2>3, <2>5, <3>1 DEF Route, TreeWithout
    <3>2. ASSUME NEW b \in net', NEW c \in net',
                 Comes(b, id, up, way), Comes(c, id, up, way)
          PROVE  b = c
      <4>1. b.to \in way /\ c.to \in way /\ up[b.to] = i /\ up[c.to] = i
        BY <2>3, <3>2 DEF Comes
      <4>2. b.to = c.to
        BY <2>5, <4>1 DEF Route, OnTheWayTo
      <4> QED
        BY <2>3, <3>2, <4>2 DEF Comes
    <3> QED
      BY <2>4, <3>1, <3>2 DEF OnCourse, Comes
  <2> QED
    BY <2>2, <2>5
<1> QED
  BY <1>8, <1>9

\* Discovery messages are for nobody in particular.
LEMMA OrderlyAnnounce ==
    ASSUME MoverInv, [Next]_vars, NEW m \in Nodes, NEW loc \in Locators,
           Announce(m, loc), NEW n \in Nodes, NEW id \in Ids
    PROVE  Orderly(n, id)'
<1>1. TypeOK /\ id \in Nat \ {0} /\ Discovery(loc) \in Packet
  BY NewPackets DEF Discovery, MoverInv, Inv, Ids
<1>2. Discovery(loc).id = 0 /\ Discovery(loc).dst_loc = AllNodes
  BY DEF Discovery, NewPacket
<1>3. /\ Len(packets') = Len(packets) + 1 /\ Len(packets) \in Nat
      /\ packets'[Len(packets) + 1] = Discovery(loc)
      /\ \A k \in 1 .. Len(packets) : packets'[k] = packets[k]
  BY <1>1, Sent DEF Announce
<1>4. ToMover(n, id)' => ToMover(n, id)
  <2>1. AllNodes \notin NewLocs[n]
    BY ForwardingAssumption
  <2> QED
    BY <1>1, <1>2, <1>3, <2>1 DEF ToMover
<1>5. \A c \in net' : c.pkt.id = id => c \in net
  BY <1>1, <1>2, Hearers DEF Announce
<1> QED
  BY <1>1, <1>3, <1>4, <1>5, OrderlyUndisturbed DEF Announce

LEMMA OrderlyHandoff ==
    ASSUME MoverInv, [Next]_vars, NEW m \in Nodes,
           BeginHandoff(m) \/ EndHandoff(m), NEW n \in Nodes, NEW id \in Ids
    PROVE  Orderly(n, id)'
<1>1. TypeOK /\ id # 0
  BY DEF MoverInv, Inv, Ids
<1>2. UNCHANGED <<packets, handed, echoed>>
  BY DEF BeginHandoff, EndHandoff
<1>3. ASSUME NEW c \in net', c.pkt.id = id PROVE c \in net
  <2> SUFFICES ASSUME c \notin net PROVE FALSE
    OBVIOUS
  <2>1. PICK loc \in NewLocs[m] \ OldLocs[m] :
           c \in Multicast(joined, m, loc, Discovery(loc))
    BY DEF BeginHandoff, EndHandoff
  <2>2. loc \in Locators
    BY ForwardingAssumption
  <2>3. Discovery(loc) \in Packet /\ Discovery(loc).id = 0
    BY <1>1, <2>2, NewPackets DEF Discovery, NewPacket
  <2> QED
    BY <1>1, <1>3, <2>1, <2>2, <2>3, Hearers
<1>4. ToMover(n, id)' => ToMover(n, id)
  BY <1>2 DEF ToMover
<1> QED
  BY <1>2, <1>3, <1>4, OrderlyUndisturbed


LEMMA OrderlyHandOver ==
    ASSUME MoverInv, [Next]_vars, NEW b \in net, HandOver(b),
           NEW n \in Nodes, NEW id \in Ids
    PROVE  Orderly(n, id)'
<1>1. /\ TypeOK /\ DirectInv /\ SentOK(b) /\ b.to \in Nodes
      /\ b.pkt.id \in Ids \cup {0} /\ id \in Nat \ {0} /\ Orderly(n, id)
  BY Copies DEF MoverInv, DirectInv, Ids
<1>2. b.pkt.id # 0
  BY <1>1 DEF HandOver, ForNode, SentOK
<1>3. /\ net' = net \ {b}
      /\ UNCHANGED <<packets, echoed, locs_joined>>
      /\ \A k \in Nodes, x \in Ids :
            handed'[k][x] = IF k = b.to /\ x = b.pkt.id THEN handed[k][x] + 1
                                                        ELSE handed[k][x]
  BY <1>1, <1>2 DEF HandOver, TypeOK, places
<1>4. ToMover(n, id)' => ToMover(n, id)
  BY <1>3 DEF ToMover
<1>5. CASE ~(n = b.to /\ id = b.pkt.id)
  BY <1>1, <1>3, <1>4, <1>5, OrderlyUndisturbed
<1>6. CASE n = b.to /\ id = b.pkt.id
  <2> SUFFICES ASSUME ToMover(n, id),
                      NEW up \in [Nodes -> Locators], NEW way \in SUBSET Nodes,
                      Route(n, packets[id].src_loc, up, way), id \notin echoed
               PROVE  OnCourse(n, id, up, way)'
    BY <1>1, <1>3, <1>4 DEF Orderly, Route, TreeWithout, OnTheWayTo, Links
  <2>1. locs_joined[n] = NewLocs[n] /\ OnCourse(n, id, up, way)
    BY <1>1 DEF Orderly
  <2>2. Comes(b, id, up, way)
    <3>1. b.interface \in NewLocs[n]
      BY <1>1, <1>2, <1>6, <2>1 DEF HandOver, Wanted, SentOK, ToMover
    <3>2. up[n] = b.interface
      BY <3>1 DEF ToMover, Route
    <3> QED
      BY <1>6, <3>2 DEF Comes, Route, OnTheWayTo
  <2>3. handed[n][id] \in Nat /\ ~(handed[n][id] > 0)
    BY <1>1, <2>1, <2>2, CountsType DEF OnCourse
  <2>4. handed'[n][id] = 1
    BY <1>3, <1>6, <2>3
  <2>5. \A c \in net' : ~Comes(c, id, up, way)
    BY <1>3, <2>1, <2>2 DEF OnCourse
  <2> QED
    BY <1>3, <2>1, <2>4, <2>5 DEF OnCourse, Comes
<1> QED
  BY <1>5, <1>6

\* What a node sends on of a packet: the same on one link.
LEMMA SentOn ==
    ASSUME TypeOK, NEW b \in net, Forward(b), ~ForAll(b), NEW c \in net',
           c \notin net \ {b}
    PROVE  /\ c.pkt = Decremented(b.pkt) /\ c.from = b.to
           /\ c.pkt.id = b.pkt.id
           /\ c.to \in Nodes \ {b.to} /\ c.interface \in joined[c.to]
           /\ c.interface \in Onward(b) \cap joined[b.to]
           /\ c = [pkt |-> c.pkt, from |-> c.from, to |-> c.to,
                   interface |-> c.interface]
<1>1. PICK i \in Onward(b) \cap joined[b.to] :
         c \in Multicast(joined, b.to, i, Decremented(b.pkt))
  BY DEF Forward
<1>2. i \in Locators /\ b.to \in Nodes /\ b.pkt \in Packet
  BY <1>1, Copies DEF TypeOK
<1>3. Decremented(b.pkt) \in Packet /\ Decremented(b.pkt).id = b.pkt.id
  BY <1>1, <1>2, Decrements DEF Decremented, Packet
<1> QED
  BY <1>1, <1>2, <1>3, Hearers

LEMMA OneOnward ==
    ASSUME NEW b, ~ForAll(b), NEW i \in Onward(b), NEW j \in Onward(b)
    PROVE  i = j
BY DEF Onward

\* The packet goes on away from its source, and on the way to n only after the
\* copy on the way that is heard.
LEMMA CourseForward ==
    ASSUME MoverInv, NEW b \in net, Forward(b), NEW n \in Nodes,
           NEW id \in Ids, b.pkt.id = id, ToMover(n, id),
           NEW up \in [Nodes -> Locators], NEW way \in SUBSET Nodes,
           Route(n, packets[id].src_loc, up, way), id \notin echoed',
           OnCourse(n, id, up, way)
    PROVE  OnCourse(n, id, up, way)'
<1>1. /\ TypeOK /\ SentOK(b) /\ \A m \in Nodes : NodeOK(m)
      /\ b.to \in Nodes /\ id # 0
  BY Copies DEF MoverInv, Inv, DirectInv, Ids
<1>2. b.pkt.dst_nid = n /\ b.pkt.dst_loc \in NewLocs[n]
  BY <1>1 DEF SentOK, ToMover
<1>3. ~ForAll(b) /\ b.to # n
  BY <1>2, ForwardingAssumption DEF ForAll, Forward, ForNode
<1>4. b.interface = up[b.to] /\ b.interface \notin Onward(b)
  BY <1>3 DEF OnCourse, Forward
<1> DEFINE New(c) == c \notin net \ {b}
<1>5. ASSUME NEW c \in net', New(c)
      PROVE  /\ c.interface \in Onward(b) /\ c.interface # up[b.to]
             /\ c.interface \in Links(c.to) \cap Links(b.to)
             /\ c.to \in Nodes \ {b.to}
  BY <1>1, <1>3, <1>4, <1>5, SentOn DEF NodeOK, Visited, Links
<1>6. ASSUME NEW c \in net', New(c), c.to # n PROVE c.interface = up[c.to]
  BY <1>1, <1>3, <1>5, <1>6 DEF Route, TreeWithout
<1>7. ASSUME NEW c \in net', New(c), Comes(c, id, up, way)
      PROVE  Comes(b, id, up, way)
  BY <1>1, <1>3, <1>4, <1>5, <1>7 DEF Comes, Route, OnTheWayTo
<1>8. ASSUME NEW c \in net', NEW d \in net',
             Comes(c, id, up, way), Comes(d, id, up, way)
      PROVE  c = d
  <2>1. CASE New(c) /\ New(d)
    <3>1. c.interface = d.interface
      BY <1>3, <1>5, <2>1, OneOnward
    <3>2. c.to = d.to
      BY <1>8, <3>1 DEF Comes, Route, OnTheWayTo
    <3> QED
      BY <1>1, <1>3, <2>1, <3>1, <3>2, SentOn
  <2>2. CASE ~New(c) /\ ~New(d)
    BY <1>8, <2>2 DEF OnCourse
  <2>3. CASE New(c) /\ ~New(d)
    BY <1>7, <1>8, <2>3 DEF OnCourse
  <2>4. CASE ~New(c) /\ New(d)
    BY <1>7, <1>8, <2>4 DEF OnCourse
  <2> QED
    BY <2>1, <2>2, <2>3, <2>4
<1>9. \A c \in net' : c.pkt.id = id /\ c.to # n => c.interface = up[c.to]
  BY <1>6 DEF OnCourse
<1>10. /\ handed'[n][id] = handed[n][id]
       /\ handed[n][id] > 0 => \A c \in net' : ~Comes(c, id, up, way)
  BY <1>7 DEF Forward, OnCourse
<1> QED
  BY <1>8, <1>9, <1>10 DEF OnCourse, Comes

LEMMA OrderlyForward ==
    ASSUME MoverInv, [Next]_vars, NEW b \in net, Forward(b),
           NEW n \in Nodes, NEW id \in Ids
    PROVE  Orderly(n, id)'
<1>1. TypeOK /\ Orderly(n, id) /\ PhaseOK(n)
  BY DEF MoverInv, Inv
<1>2. UNCHANGED <<packets, handed, locs_joined>> /\ echoed \subseteq echoed'
  BY DEF Forward, places
<1>3. ToMover(n, id)' => ToMover(n, id)
  BY <1>2 DEF ToMover
<1>4. CASE b.pkt.id = id
  <2> SUFFICES ASSUME ToMover(n, id),
                      NEW up \in [Nodes -> Locators], NEW way \in SUBSET Nodes,
                      Route(n, packets[id].src_loc, up, way), id \notin echoed'
               PROVE  OnCourse(n, id, up, way)'
    BY <1>1, <1>2, <1>3 DEF Orderly, Route, TreeWithout, OnTheWayTo, Links
  <2>1. OnCourse(n, id, up, way)
    BY <1>1, <1>2 DEF Orderly
  <2> QED
    BY <1>4, <2>1, CourseForward
<1>5. CASE b.pkt.id # id
  <2>1. ASSUME NEW c \in net', c.pkt.id = id PROVE c \in net
    <3> SUFFICES ASSUME c \notin net PROVE FALSE
      OBVIOUS
    <3>1. SentOnFrom(b, c)
      BY <1>1, ForwardDescends
    <3> QED
      BY <1>5, <2>1, <3>1 DEF SentOnFrom
  <2> QED
    BY <1>2, <1>3, <2>1, OrderlyUndisturbed
<1> QED
  BY <1>4, <1>5

LEMMA MoverStep == MoverInv /\ [Next]_vars => MoverInv'
<1> SUFFICES ASSUME MoverInv, [Next]_vars PROVE MoverInv'
  OBVIOUS
<1>1. Inv' /\ DirectInv' /\ TypeOK
  BY InvStep, DirectStep DEF MoverInv, Inv
<1>2. \A n \in Nodes : PhaseOK(n)'
  BY <1>1, PhaseStep DEF MoverInv
<1>3. ASSUME NEW n \in Nodes, NEW id \in Ids PROVE Orderly(n, id)'
  <2>1. CASE UNCHANGED <<packets, handed, echoed>> /\ net' \subseteq net
    <3>1. ToMover(n, id)' => ToMover(n, id)
      BY <2>1 DEF ToMover
    <3> QED
      BY <2>1, <3>1, OrderlyUndisturbed
  <2>2. ASSUME NEW c \in net, Receive(c) PROVE Orderly(n, id)'
    BY <2>1, <2>2, OrderlyHandOver, OrderlyForward DEF Receive, Ignore, Discard
  <2>3. CASE Lose \/ UNCHANGED vars
    BY <2>1, <2>3 DEF Lose, Discard, vars
  <2>4. ASSUME NEW m \in Nodes, BeginHandoff(m) \/ EndHandoff(m)
        PROVE  Orderly(n, id)'
    BY <2>4, OrderlyHandoff
  <2>5. ASSUME NEW m \in Nodes, NEW loc \in Locators, RouteExpires(m, loc)
        PROVE  Orderly(n, id)'
    BY <2>1, <2>5 DEF RouteExpires
  <2> QED
    BY <2>2, <2>3, <2>4, <2>5, OrderlySend, OrderlyAnnounce DEF Next, Deliver
<1> QED
  BY <1>1, <1>2, <1>3 DEF MoverInv

\* A node that moves is handed a packet twice only if the packet was echoed or
\* passes by another locator that the node keeps: in every network in which
\* nobody but the node itself closes a circle.
THEOREM Explained ==
    ASSUME OneWayToMovers
    PROVE  Spec => []DuplicatesExplained
<1>1. MoverInv => DuplicatesExplained
  <2> SUFFICES ASSUME MoverInv, NEW n \in Nodes, OldLocs[n] # NewLocs[n],
                      NEW id \in Ids, handed[n][id] > 1,
                      id \notin echoed, ~PassesBy(n, packets[id])
               PROVE  FALSE
    BY DEF DuplicatesExplained
  <2> DEFINE pkt == packets[id]
  <2>1. /\ CountOK(n, id) /\ Orderly(n, id) /\ handed[n][id] \in Nat /\ TypeOK
        /\ id \in Nat \ {0}
    BY CountsType DEF MoverInv, DirectInv, Ids
  <2>2. id \in 1 .. Len(packets) /\ pkt.dst_nid = n
    BY <2>1 DEF CountOK, TypeOK
  <2>3. /\ NewLocs[n] # {} /\ OldLocs[n] \cap NewLocs[n] = {}
        /\ NewLocs[n] \subseteq Locators
    BY ForwardingAssumption DEF OneWayToMovers
  <2>4. NewLocs[n] = {pkt.dst_loc} /\ pkt.dst_loc \in Locators
    BY <2>3 DEF PassesBy
  <2>5. pkt.src_loc \in Locators
    <3>1. pkt \in Packet
      BY <2>1, <2>2 DEF TypeOK
    <3> QED
      BY <3>1 DEF Packet
  <2>6. ToMover(n, id)
    BY <2>2, <2>3, <2>4 DEF ToMover
  <2>7. PICK up \in [Nodes -> Locators], way \in SUBSET Nodes :
           Route(n, pkt.src_loc, up, way)
    BY <2>4, <2>5 DEF OneWayToMovers, Route
  <2>8. OnCourse(n, id, up, way)
    BY <2>1, <2>6, <2>7 DEF Orderly
  <2> QED
    BY <2>1, <2>8 DEF OnCourse
<1> QED
  BY <1>1, InitMover, MoverStep, PTL DEF Spec

=============================================================================
