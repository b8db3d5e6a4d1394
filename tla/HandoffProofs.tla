--------------------------- MODULE HandoffProofs ---------------------------
(***************************************************************************)
(* Theorems about Handoff, for every cycle of locators, every set of       *)
(* packets and sessions and every number of retries.                       *)
(*                                                                         *)
(* The inductive invariant has three parts, each preserved on the strength *)
(* of those before it:                                                     *)
(*                                                                         *)
(*   Typed    TypeOK, and what the locals of a thread hold at each of its  *)
(*            program points                                               *)
(*   Routes   the mappings that never expire and the joined groups         *)
(*   Groups   how far the joins and leaves of a move have got              *)
(***************************************************************************)
EXTENDS Handoff, FiniteSetTheorems, WellFoundedInduction, TLAPS

Dict(d) == IsDict(d, Ilvs, Locators \cup {None})

LocalsOK ==
    /\ move_pc \in {"snapshot_expired", "update_expired"} => cursor \in Ilvs
    /\ move_pc = "install" => cursor \in Locators
    /\ move_pc = "wait" => tries < Retries
    /\ move_pc # "sleep" => Dict(ilvs_to_update)
    /\ recv_pc # "recv" => pkt \in Packets
    /\ recv_pc = "clear" => recv_loc \in Locators
    /\ recv_pc = "strike" => Dict(ilvs_to_update)
    /\ app_pc \in {"clear", "transmit"} => app_ilv \in Ilvs
    /\ app_pc = "transmit" => app_interface \in Locators

Typed == TypeOK /\ LocalsOK

\* Once the reset of the table has begun, the mappings that never expire of
\* the locators being given up are on their way out; then they are gone.
Routes ==
    /\ PinnedRoutesJoined
    /\ move_pc = "install" => cursor \in joined_mcast_grps
    /\ \A loc \in OldLocs :
          NonExpiring(loc) =>
              /\ move_pc = "reset" => loc \in todo \cup to_remove
              /\ move_pc = "purge" => loc \in to_remove
              /\ move_pc # "leave"
    /\ move_pc = "leave" => todo \subseteq OldLocs

Joining == {"join", "install"}
Joined  == {"update", "update_expired", "wait", "linger", "reset", "purge",
            "leave"}

Groups ==
    /\ move_pc \in Joining => /\ todo \subseteq NewLocs
                              /\ NewLocs \ todo \subseteq joined_mcast_grps
    /\ move_pc = "install" => cursor \in joined_mcast_grps
    /\ move_pc \in Joined => NewLocs \subseteq joined_mcast_grps
    /\ move_pc = "leave" => /\ todo \subseteq OldLocs
                            /\ OldLocs \cap joined_mcast_grps \subseteq todo

IInv == Typed /\ Routes /\ Groups

-----------------------------------------------------------------------------
(***************************************************************************)
(* Dictionaries                                                            *)
(***************************************************************************)
LEMMA PutIsDict ==
    ASSUME NEW K, NEW V, NEW d, NEW k \in K, NEW v \in V, IsDict(d, K, V)
    PROVE  IsDict(Put(d, k, v), K, V)
BY DEF IsDict, Put

LEMMA RemoveIsDict ==
    ASSUME NEW K, NEW V, NEW d, NEW k, IsDict(d, K, V)
    PROVE  IsDict(Remove(d, k), K, V)
BY DEF IsDict, Remove

LEMMA EmptyIsDict ==
    ASSUME NEW K, NEW V
    PROVE  IsDict(EmptyDict, K, V)
BY DEF IsDict, EmptyDict

\* The interface a locator is mapped to is a locator, when there is one.
LEMMA MapToInterfaceType ==
    ASSUME TypeOK, NEW loc
    PROVE  /\ MapToInterface(loc) \in Locators \cup {None}
           /\ HasRoute(loc) => /\ loc \in Locators
                               /\ loc_to_interface[loc] \in Route
                               /\ MapToInterface(loc) \in Locators
BY DEF TypeOK, IsDict, HasRoute, MapToInterface, Route

LEMMA IlvType == ASSUME NEW ilv \in Ilvs PROVE ilv[1] \in Locators /\ ilv[2] \in Nids
BY DEF Ilvs

LEMMA ClearRouteTyped ==
    ASSUME TypeOK, NEW loc \in Locators, ClearRoute(loc)
    PROVE  IsDict(loc_to_interface, Locators, Route \cup {None})'
BY PutIsDict DEF TypeOK, ClearRoute

LEMMA TouchTyped ==
    ASSUME TypeOK, NEW ilv \in Ilvs, Touch(ilv)
    PROVE  IsDict(active_ilvs, Ilvs, {"fresh", "expired"})'
BY PutIsDict DEF TypeOK, Touch

\* The entry the cycle goes to next is a set of locators.
LEMMA NextIndexType ==
    ASSUME NEW i \in 0 .. Len(LocCycle) - 1
    PROVE  /\ NextIndex(i) \in 0 .. Len(LocCycle) - 1
           /\ LocCycle[NextIndex(i) + 1] \in SUBSET Locators
           /\ LocCycle[i + 1] \in SUBSET Locators
<1>1. NextIndex(i) \in 0 .. Len(LocCycle) - 1
  BY CycleAssumption DEF NextIndex
<1>2. \A j \in 0 .. Len(LocCycle) - 1 : LocCycle[j + 1] \in SUBSET Locators
  BY CycleAssumption
<1> QED BY <1>1, <1>2

-----------------------------------------------------------------------------
(***************************************************************************)
(* Typed                                                                   *)
(***************************************************************************)
LEMMA InitTyped == Init => Typed
<1> SUFFICES ASSUME Init PROVE Typed
  OBVIOUS
<1>1. LocCycle[1] \in SUBSET Locators
  BY CycleAssumption
<1>2. IsDict(loc_to_interface, Locators, Route \cup {None})
  BY <1>1 DEF Init, IsDict, Route, Pinned
<1>3. IsDict(active_ilvs, Ilvs, {"fresh", "expired"})
  BY EmptyIsDict DEF Init
<1>4. 0 \in 0 .. Retries /\ 0 \in 0 .. Len(LocCycle) - 1
  BY ConstantsAssumption, CycleAssumption
<1> QED
  BY <1>1, <1>2, <1>3, <1>4
  DEF Init, Typed, TypeOK, LocalsOK, MovePcs, RecvPcs, AppPcs

\* The move thread retargets: the entry of the cycle and the index agree.
LEMMA BeginMoveTyped ==
    ASSUME Typed, BeginMove, UNCHANGED <<recvVars, appVars>>
    PROVE  Typed'
<1>1. loc_cycle_index \in 0 .. Len(LocCycle) - 1
  BY DEF Typed, TypeOK
<1>2. locs_joined' = LocCycle[loc_cycle_index' + 1]
  BY DEF BeginMove
<1>3. loc_cycle_index' \in 0 .. Len(LocCycle) - 1 /\ old_locs_joined' \subseteq Locators
  BY <1>1, NextIndexType DEF BeginMove, Typed, TypeOK
<1>4. Dict(ilvs_to_update')
  BY EmptyIsDict DEF BeginMove, Dict
<1> QED
  BY <1>2, <1>3, <1>4
  DEF BeginMove, Typed, TypeOK, LocalsOK, Dict, MovePcs, recvVars, appVars

LEMMA TriesType ==
    /\ 0 \in 0 .. Retries
    /\ \A t \in 0 .. Retries : t < Retries => t + 1 \in 0 .. Retries
BY ConstantsAssumption

\* A step that only goes round a loop or ends a pass disturbs no dictionary.
LEMMA MoveTyped ==
    ASSUME Typed, MoveThread
    PROVE  Typed'
<1> USE DEF Typed, Dict, MoveTo, BeginLoop, EndPass, Raise, Visit, Pause,
            butGroups, butRoutes, butSessions, butUpdates, shared, recvVars,
            appVars
<1>f. UNCHANGED <<recvVars, appVars>>
  BY DEF MoveThread
<1>l. locs_joined \subseteq Locators
  BY NextIndexType DEF TypeOK
<1>i. \A ilv \in Ilvs : ilv[1] \in Locators
  BY IlvType
<1>1. CASE BeginMove
  BY <1>1, <1>f, BeginMoveTyped
<1>2. CASE BeginSnapshot
  BY <1>2, <1>f DEF BeginSnapshot, TypeOK, LocalsOK, MovePcs, IsDict
<1>3. CASE SnapshotExpired
  <2>1. cursor \in Ilvs /\ cursor[1] \in Locators
    BY <1>3, <1>i DEF SnapshotExpired, LocalsOK
  <2>2. IsDict(loc_to_interface, Locators, Route \cup {None})'
    BY <1>3, <2>1, ClearRouteTyped DEF SnapshotExpired
  <2>3. Dict(ilvs_to_update')
    BY <1>3, <2>1, PutIsDict DEF SnapshotExpired, LocalsOK
  <2> QED
    BY <1>3, <1>f, <2>2, <2>3
    DEF SnapshotExpired, TypeOK, LocalsOK, MovePcs
<1>4. CASE SnapshotRaises
  BY <1>4, <1>f, TriesType DEF SnapshotRaises, TypeOK, LocalsOK, MovePcs
<1>5. CASE SnapshotDone
  BY <1>5, <1>f, <1>l DEF SnapshotDone, NewLocs, TypeOK, LocalsOK, MovePcs
<1>6. CASE InstallRoute
  <2>1. cursor \in Locators /\ Pinned(cursor) \in Route
    BY <1>6 DEF InstallRoute, LocalsOK, Pinned, Route
  <2>2. IsDict(loc_to_interface, Locators, Route \cup {None})'
    BY <1>6, <2>1, PutIsDict DEF InstallRoute, TypeOK
  <2> QED
    BY <1>6, <1>f, <2>2, TriesType
    DEF InstallRoute, TypeOK, LocalsOK, MovePcs
<1>7. CASE JoinDone
  BY <1>7, <1>f DEF JoinDone, TypeOK, LocalsOK, MovePcs, IsDict
<1>8. CASE ClearThenRaise
  <2>1. cursor[1] \in Locators
    BY <1>8, <1>i DEF ClearThenRaise, LocalsOK
  <2>2. IsDict(loc_to_interface, Locators, Route \cup {None})'
    BY <1>8, <2>1, ClearRouteTyped DEF ClearThenRaise
  <2> QED
    BY <1>8, <1>f, <2>2, TriesType
    DEF ClearThenRaise, TypeOK, LocalsOK, MovePcs
<1>9. CASE UpdateRaises
  BY <1>9, <1>f, TriesType DEF UpdateRaises, TypeOK, LocalsOK, MovePcs
<1>10. CASE UpdateDone
  BY <1>10, <1>f DEF UpdateDone, TypeOK, LocalsOK, MovePcs
<1>11. CASE Retry
  BY <1>11, <1>f, TriesType DEF Retry, TypeOK, LocalsOK, MovePcs, IsDict
<1>12. CASE BeginReset
  BY <1>12, <1>f, TriesType DEF BeginReset, TypeOK, LocalsOK, MovePcs, IsDict
<1>13. CASE ResetRaises
  BY <1>13, <1>f, TriesType DEF ResetRaises, TypeOK, LocalsOK, MovePcs
<1>14. CASE ResetDone
  BY <1>14, <1>f DEF ResetDone, TypeOK, LocalsOK, MovePcs
<1>15. CASE PurgeDone
  BY <1>15, <1>f DEF PurgeDone, OldLocs, TypeOK, LocalsOK, MovePcs
<1>16. CASE MoveDone
  BY <1>16, <1>f, TriesType DEF MoveDone, TypeOK, LocalsOK, MovePcs
<1>17. ASSUME NEW ilv \in Ilvs, SnapshotSession(ilv)
       PROVE  Typed'
  <2>1. Dict(ilvs_to_update')
    BY <1>17, PutIsDict, MapToInterfaceType DEF SnapshotSession, LocalsOK
  <2> QED
    BY <1>17, <1>f, <2>1 DEF SnapshotSession, TypeOK, LocalsOK, MovePcs
<1>18. ASSUME NEW ilv \in Ilvs, SendUpdate(ilv)
       PROVE  Typed'
  <2>1. IsDict(active_ilvs, Ilvs, {"fresh", "expired"})'
    BY <1>18, TouchTyped DEF SendUpdate
  <2> QED
    BY <1>18, <1>f, <2>1 DEF SendUpdate, TypeOK, LocalsOK, MovePcs
<1>19. ASSUME NEW ilv \in Ilvs, UpdateRouteExpired(ilv)
       PROVE  Typed'
  BY <1>19, <1>f DEF UpdateRouteExpired, TypeOK, LocalsOK, MovePcs
<1>20. ASSUME NEW loc \in Locators, JoinGroup(loc)
       PROVE  Typed'
  BY <1>20, <1>f DEF JoinGroup, TypeOK, LocalsOK, MovePcs
<1>21. ASSUME NEW loc \in Locators, JoinRaises(loc)
       PROVE  Typed'
  BY <1>21, <1>f, TriesType DEF JoinRaises, TypeOK, LocalsOK, MovePcs
<1>22. ASSUME NEW loc \in Locators, InspectRoute(loc)
       PROVE  Typed'
  BY <1>22, <1>f DEF InspectRoute, TypeOK, LocalsOK, MovePcs
<1>23. ASSUME NEW loc \in Locators, PurgeRoute(loc)
       PROVE  Typed'
  <2>1. IsDict(loc_to_interface, Locators, Route \cup {None})'
    BY <1>23, RemoveIsDict DEF PurgeRoute, TypeOK
  <2> QED
    BY <1>23, <1>f, <2>1 DEF PurgeRoute, TypeOK, LocalsOK, MovePcs
<1>24. ASSUME NEW loc \in Locators, LeaveGroup(loc)
       PROVE  Typed'
  BY <1>24, <1>f DEF LeaveGroup, TypeOK, LocalsOK, MovePcs
<1>25. ASSUME NEW loc \in Locators, LeaveRaises(loc)
       PROVE  Typed'
  BY <1>25, <1>f, TriesType DEF LeaveRaises, TypeOK, LocalsOK, MovePcs
<1> HIDE DEF Typed
<1> QED
  BY <1>1, <1>2, <1>3, <1>4, <1>5, <1>6, <1>7, <1>8, <1>9, <1>10, <1>11,
     <1>12, <1>13, <1>14, <1>15, <1>16, <1>17, <1>18, <1>19, <1>20, <1>21,
     <1>22, <1>23, <1>24, <1>25
  DEF MoveThread

\* What a packet of the set Packets is made of.
LEMMA PacketType ==
    ASSUME NEW p \in Packets
    PROVE  /\ p \in Packet
           /\ p.src \in Ilvs /\ p.src[1] \in Locators /\ p.src[2] \in Nids
           /\ p.interface \in Locators /\ p.new_loc \in Locators
           /\ <<p.new_loc, p.src[2]>> \in Ilvs
BY ConstantsAssumption DEF Packet, Ilvs

LEMMA ExpiredType ==
    ASSUME TypeOK, NEW loc, Expired(loc)
    PROVE  loc \in Locators
BY MapToInterfaceType DEF Expired

LEMMA EmitTyped ==
    ASSUME Typed, NEW pc \in {"answer", "relay"}, NEW loc, Emit(pc, loc),
           UNCHANGED <<moveVars, appVars>>
    PROVE  Typed'
<1> USE DEF Typed, EndReceive, shared, moveVars, appVars
<1>1. CASE Expired(loc)
  <2>1. recv_pc' = "clear" /\ recv_loc' = loc /\ UNCHANGED <<pkt, recv_todo>>
    BY <1>1 DEF Emit, LookUp
  <2>2. loc \in Locators
    BY <1>1, ExpiredType
  <2> QED
    BY <2>1, <2>2 DEF Emit, TypeOK, LocalsOK, Dict, RecvPcs
<1>2. CASE ~Expired(loc)
  <2>1. \/ recv_todo' = recv_todo \ {loc} /\ UNCHANGED <<recv_pc, pkt, recv_loc>>
        \/ EndReceive
    BY <1>2 DEF Emit, LookUp
  <2> QED
    BY <2>1 DEF Emit, TypeOK, LocalsOK, Dict, RecvPcs
<1> QED
  BY <1>1, <1>2

LEMMA ReceiveTyped ==
    ASSUME Typed, ReceiveThread
    PROVE  Typed'
<1> USE DEF Typed, Dict, RecvTo, EndReceive, butRoutes, butSessions, shared,
            moveVars, appVars
<1>f. UNCHANGED <<moveVars, appVars>>
  BY DEF ReceiveThread
<1>l. locs_joined \subseteq Locators
  BY NextIndexType DEF TypeOK
<1>1. ASSUME NEW p \in Packets, Receive(p)
      PROVE  Typed'
  BY <1>1, <1>f DEF Receive, TypeOK, LocalsOK, RecvPcs
<1>2. CASE Filter
  BY <1>2, <1>f DEF Filter, TypeOK, LocalsOK, RecvPcs
<1>3. CASE LearnCheck
  BY <1>3, <1>f DEF LearnCheck, TypeOK, LocalsOK, RecvPcs
<1>4. CASE LearnRoute
  <2>1. pkt.src[1] \in Locators /\ Learned(pkt.interface) \in Route
    BY <1>4, PacketType DEF LearnRoute, LocalsOK, Learned, Route
  <2>2. IsDict(loc_to_interface, Locators, Route \cup {None})'
    BY <1>4, <2>1, PutIsDict DEF LearnRoute, TypeOK
  <2> QED
    BY <1>4, <1>f, <2>2 DEF LearnRoute, TypeOK, LocalsOK, RecvPcs
<1>5. CASE Forward
  BY <1>5, <1>f, ExpiredType DEF Forward, LookUp, TypeOK, LocalsOK, RecvPcs
<1>6. CASE ClearExpired
  <2>1. IsDict(loc_to_interface, Locators, Route \cup {None})'
    BY <1>6, ClearRouteTyped DEF ClearExpired, LocalsOK
  <2> QED
    BY <1>6, <1>f, <2>1 DEF ClearExpired, TypeOK, LocalsOK, RecvPcs
<1>7. CASE Discover
  BY <1>7, <1>f, <1>l DEF Discover, TypeOK, LocalsOK, RecvPcs
<1>8. CASE AnswerDone
  BY <1>8, <1>f, <1>l DEF AnswerDone, TypeOK, LocalsOK, RecvPcs
<1>9. CASE RelayDone
  BY <1>9, <1>f DEF RelayDone, TypeOK, LocalsOK, RecvPcs
<1>10. ASSUME NEW loc \in Locators, Answer(loc) \/ Relay(loc)
       PROVE  Typed'
  BY <1>10, <1>f, EmitTyped DEF Answer, Relay
<1>11. CASE HandleUpdate
  <2>1. IsDict(active_ilvs, Ilvs, {"fresh", "expired"})'
    BY <1>11, PacketType, TouchTyped DEF HandleUpdate, TypeOK, LocalsOK
  <2> QED
    BY <1>11, <1>f, <2>1 DEF HandleUpdate, TypeOK, LocalsOK, RecvPcs
<1>12. CASE HandleAck
  <2>1. IsDict(active_ilvs, Ilvs, {"fresh", "expired"})'
    BY <1>12, PacketType, TouchTyped DEF HandleAck, TypeOK, LocalsOK
  <2>2. recv_pc' = "strike" => Dict(ilvs_to_update')
    BY <1>12 DEF HandleAck, TypeOK
  <2> QED
    BY <1>12, <1>f, <2>1, <2>2 DEF HandleAck, TypeOK, LocalsOK, RecvPcs
<1>13. CASE StrikeOff
  <2>1. IsDict(active_ilvs, Ilvs, {"fresh", "expired"})'
    BY <1>13, PacketType, TouchTyped DEF StrikeOff, TypeOK, LocalsOK
  <2>2. Dict(ilvs_to_update')
    BY <1>13, RemoveIsDict DEF StrikeOff, LocalsOK
  <2> QED
    BY <1>13, <1>f, <2>1, <2>2 DEF StrikeOff, TypeOK, LocalsOK, RecvPcs
<1>14. CASE HandleData
  <2>1. IsDict(active_ilvs, Ilvs, {"fresh", "expired"})'
    BY <1>14, PacketType, TouchTyped DEF HandleData, LocalsOK
  <2> QED
    BY <1>14, <1>f, <2>1 DEF HandleData, TypeOK, LocalsOK, RecvPcs
<1> HIDE DEF Typed
<1> QED
  BY <1>1, <1>2, <1>3, <1>4, <1>5, <1>6, <1>7, <1>8, <1>9, <1>10, <1>11,
     <1>12, <1>13, <1>14
  DEF ReceiveThread

LEMMA AppTyped ==
    ASSUME Typed, AppThread
    PROVE  Typed'
<1> USE DEF Typed, Dict, AppRest, butRoutes, butSessions, shared, moveVars,
            recvVars
<1>f. UNCHANGED <<moveVars, recvVars>>
  BY DEF AppThread
<1>1. ASSUME NEW ilv \in Sessions, AppLookUp(ilv)
      PROVE  Typed'
  <2>1. ilv \in Ilvs
    BY ConstantsAssumption
  <2> QED
    BY <1>1, <1>f, <2>1, MapToInterfaceType
    DEF AppLookUp, TypeOK, LocalsOK, AppPcs
<1>2. CASE AppClear
  <2>1. IsDict(loc_to_interface, Locators, Route \cup {None})'
    BY <1>2, IlvType, ClearRouteTyped DEF AppClear, LocalsOK
  <2> QED
    BY <1>2, <1>f, <2>1 DEF AppClear, TypeOK, LocalsOK, AppPcs
<1>3. CASE AppTransmit
  <2>1. IsDict(active_ilvs, Ilvs, {"fresh", "expired"})'
    BY <1>3, TouchTyped DEF AppTransmit, LocalsOK
  <2> QED
    BY <1>3, <1>f, <2>1 DEF AppTransmit, TypeOK, LocalsOK, AppPcs
<1>4. CASE AppDies
  BY <1>4, <1>f DEF AppDies, TypeOK, LocalsOK, AppPcs
<1> HIDE DEF Typed
<1> QED
  BY <1>1, <1>2, <1>3, <1>4 DEF AppThread

LEMMA TimeTyped ==
    ASSUME Typed, Time
    PROVE  Typed'
<1> USE DEF Typed, Dict, butRoutes, butSessions, moveVars, recvVars, appVars
<1>f. UNCHANGED <<moveVars, recvVars, appVars>>
  BY DEF Time
<1>1. ASSUME NEW loc \in Locators, RouteExpires(loc)
      PROVE  Typed'
  <2>1. loc_to_interface[loc] \in Route
    BY <1>1, MapToInterfaceType DEF RouteExpires
  <2>2. IsDict(loc_to_interface, Locators, Route \cup {None})'
    BY <1>1, <2>1 DEF RouteExpires, TypeOK, IsDict, Route
  <2> QED
    BY <1>1, <1>f, <2>2 DEF RouteExpires, TypeOK, LocalsOK
<1>2. ASSUME NEW ilv \in Ilvs, SessionExpires(ilv)
      PROVE  Typed'
  <2>1. IsDict(active_ilvs, Ilvs, {"fresh", "expired"})'
    BY <1>2 DEF SessionExpires, TypeOK, IsDict
  <2> QED
    BY <1>2, <1>f, <2>1 DEF SessionExpires, TypeOK, LocalsOK
<1> HIDE DEF Typed
<1> QED
  BY <1>1, <1>2 DEF Time

LEMMA TypedNext == Typed /\ [Next]_vars => Typed'
<1> SUFFICES ASSUME Typed, [Next]_vars PROVE Typed'
  OBVIOUS
<1>1. CASE UNCHANGED vars
  BY <1>1
  DEF Typed, TypeOK, LocalsOK, Dict, vars, shared, moveVars, recvVars, appVars
<1> QED
  BY <1>1, MoveTyped, ReceiveTyped, AppTyped, TimeTyped DEF Next

\* The state of the node is of its type in every reachable state, whatever
\* the threads do in between: the table maps locators to routes or None, the
\* current locators are the entry of the cycle at the index, and the retries
\* stay within loc_update_retries.
THEOREM TypeCorrect == Spec => []TypeOK
<1>1. Init => Typed
  BY InitTyped
<1>2. Typed /\ [Next]_vars => Typed'
  BY TypedNext
<1>3. Typed => TypeOK
  BY DEF Typed
<1> QED
  BY <1>1, <1>2, <1>3, PTL DEF Spec

-----------------------------------------------------------------------------
(***************************************************************************)
(* Routes                                                                  *)
(***************************************************************************)

\* No mapping that never expires is added or changed.
NoNewPinned ==
    \A loc \in Locators :
        NonExpiring(loc)' => /\ NonExpiring(loc)
                             /\ loc_to_interface'[loc] = loc_to_interface[loc]

\* Clearing, learning and ageing a route, and deleting one, pin nothing.
LEMMA PutPinsNothing ==
    ASSUME NEW loc, NEW route,
           route = None \/ route.timestamp # "never",
           loc_to_interface' = Put(loc_to_interface, loc, route)
    PROVE  NoNewPinned
BY DEF NoNewPinned, NonExpiring, HasRoute, Put

LEMMA ClearPinsNothing ==
    ASSUME NEW loc, ClearRoute(loc)
    PROVE  NoNewPinned
BY PutPinsNothing DEF ClearRoute

LEMMA RemovePinsNothing ==
    ASSUME NEW loc, loc_to_interface' = Remove(loc_to_interface, loc)
    PROVE  NoNewPinned
BY DEF NoNewPinned, NonExpiring, HasRoute, Remove

LEMMA ExpiryPinsNothing ==
    ASSUME TypeOK, NEW loc \in Locators, RouteExpires(loc)
    PROVE  NoNewPinned
<1>1. loc_to_interface[loc] \in Route
  BY MapToInterfaceType DEF RouteExpires
<1> QED
  BY <1>1
  DEF RouteExpires, NoNewPinned, NonExpiring, HasRoute, Route, TypeOK, IsDict

\* What the other threads do to the table cannot disturb Routes.
LEMMA RoutesOfOthers ==
    ASSUME Routes, NoNewPinned,
           UNCHANGED <<locs_joined, joined_mcast_grps, moveVars>>, TypeOK
    PROVE  Routes'
<1>1. OldLocs' = OldLocs /\ OldLocs \subseteq Locators
  BY DEF OldLocs, moveVars, TypeOK
<1> QED
  BY <1>1 DEF Routes, NoNewPinned, PinnedRoutesJoined, moveVars, Pinned

LEMMA OthersRoutes ==
    ASSUME Typed, Routes, ReceiveThread \/ AppThread \/ Time
    PROVE  Routes'
<1>1. UNCHANGED <<locs_joined, joined_mcast_grps, moveVars>>
  BY DEF ReceiveThread, Receive, Filter, LearnCheck, LearnRoute, Forward,
     ClearExpired, Discover, Answer, Relay, Emit, AnswerDone, RelayDone,
     HandleUpdate, HandleAck, StrikeOff, HandleData, AppThread, AppLookUp,
     AppClear, AppTransmit, AppDies, Time, RouteExpires, SessionExpires, shared,
     butRoutes, butSessions
<1>2. NoNewPinned
  <2>1. CASE UNCHANGED loc_to_interface
    BY <2>1 DEF NoNewPinned, NonExpiring, HasRoute
  <2>2. CASE LearnRoute
    BY <2>2, PutPinsNothing DEF LearnRoute, Learned
  <2>3. CASE ClearExpired \/ AppClear
    BY <2>3, ClearPinsNothing DEF ClearExpired, AppClear
  <2>4. CASE \E loc \in Locators : RouteExpires(loc)
    BY <2>4, ExpiryPinsNothing DEF Typed
  <2> QED
    BY <2>1, <2>2, <2>3, <2>4
    DEF ReceiveThread, Receive, Filter, LearnCheck, Forward, Discover, Answer,
        Relay, Emit, AnswerDone, RelayDone, HandleUpdate, HandleAck, StrikeOff,
        HandleData, AppThread, AppLookUp, AppTransmit, AppDies, Time,
        SessionExpires, shared, butSessions
<1> QED
  BY <1>1, <1>2, RoutesOfOthers DEF Typed

\* A step of the move thread that leaves the table, the groups and the entries
\* of the cycle alone, and does not come near the end of the move.
LEMMA RoutesOfLoops ==
    ASSUME Routes,
           UNCHANGED <<locs_joined, old_locs_joined, loc_to_interface,
                       joined_mcast_grps>>,
           move_pc' \notin {"install", "reset", "purge", "leave"}
    PROVE  Routes'
BY DEF Routes, PinnedRoutesJoined, OldLocs, NonExpiring, HasRoute, Pinned

LEMMA MoveRoutes ==
    ASSUME Typed, Routes, MoveThread
    PROVE  Routes'
<1> USE DEF MoveTo, BeginLoop, EndPass, Raise, Visit, Pause, butGroups,
            butRoutes, butSessions, butUpdates, shared
<1>o. OldLocs \subseteq Locators
  BY DEF OldLocs, Typed, TypeOK
<1>1. CASE BeginMove
  BY <1>1 DEF BeginMove, Routes, PinnedRoutesJoined, NonExpiring, HasRoute,
     Pinned
<1>2. CASE \/ BeginSnapshot \/ SnapshotRaises \/ SnapshotDone \/ JoinDone
           \/ UpdateRaises \/ UpdateDone \/ Retry \/ ResetRaises \/ MoveDone
  BY <1>2, RoutesOfLoops
  DEF BeginSnapshot, SnapshotRaises, SnapshotDone, JoinDone, UpdateRaises,
      UpdateDone, Retry, ResetRaises, MoveDone
<1>3. CASE SnapshotExpired \/ ClearThenRaise
  <2>1. NoNewPinned
    BY <1>3, ClearPinsNothing DEF SnapshotExpired, ClearThenRaise
  <2>2. move_pc' \in {"snapshot", "sleep"} /\ OldLocs' = OldLocs
    BY <1>3 DEF SnapshotExpired, ClearThenRaise, OldLocs
  <2> QED
    BY <1>3, <1>o, <2>1, <2>2
    DEF SnapshotExpired, ClearThenRaise, Routes, NoNewPinned,
        PinnedRoutesJoined, Pinned
<1>4. CASE InstallRoute
  <2>1. cursor \in joined_mcast_grps
    BY <1>4 DEF InstallRoute, Routes
  <2>2. PinnedRoutesJoined'
    BY <1>4, <2>1
    DEF InstallRoute, Routes, PinnedRoutesJoined, NonExpiring, HasRoute, Put,
        Pinned
  <2> QED
    BY <1>4, <2>2 DEF InstallRoute, Routes
<1>5. CASE BeginReset
  BY <1>5 DEF BeginReset, Routes, PinnedRoutesJoined, OldLocs, NonExpiring,
     HasRoute, Pinned
<1>6. CASE ResetDone
  BY <1>6 DEF ResetDone, Routes, PinnedRoutesJoined, OldLocs, NonExpiring,
     HasRoute, Pinned
<1>7. CASE PurgeDone
  BY <1>7 DEF PurgeDone, Routes, PinnedRoutesJoined, OldLocs, NonExpiring,
     HasRoute, Pinned
<1>8. ASSUME NEW ilv \in Ilvs,
             SnapshotSession(ilv) \/ SendUpdate(ilv) \/ UpdateRouteExpired(ilv)
      PROVE  Routes'
  BY <1>8, RoutesOfLoops
  DEF SnapshotSession, SendUpdate, UpdateRouteExpired
<1>9. ASSUME NEW loc \in Locators, JoinGroup(loc)
      PROVE  Routes'
  BY <1>9 DEF JoinGroup, Routes, PinnedRoutesJoined, OldLocs, NonExpiring,
     HasRoute, Pinned
<1>10. ASSUME NEW loc \in Locators, JoinRaises(loc) \/ LeaveRaises(loc)
       PROVE  Routes'
  BY <1>10, RoutesOfLoops DEF JoinRaises, LeaveRaises
<1>11. ASSUME NEW loc \in Locators, InspectRoute(loc)
       PROVE  Routes'
  \* A pinned mapping of an old locator leads to itself, so it is recorded.
  <2>1. ASSUME loc \in OldLocs, NonExpiring(loc)
        PROVE  loc \in to_remove'
    <3>1. loc_to_interface[loc] = Pinned(loc)
      BY <2>1 DEF Routes, PinnedRoutesJoined
    <3>2. LeadsElsewhere(loc_to_interface[loc])
      BY <2>1, <3>1 DEF Pinned, LeadsElsewhere, OldLocs
    <3> QED
      BY <1>11, <3>2 DEF InspectRoute
  <2> QED
    BY <1>11, <2>1
    DEF InspectRoute, Routes, PinnedRoutesJoined, OldLocs, NonExpiring,
        HasRoute, Pinned
<1>12. ASSUME NEW loc \in Locators, PurgeRoute(loc)
       PROVE  Routes'
  <2>1. NoNewPinned /\ ~NonExpiring(loc)'
    BY <1>12, RemovePinsNothing DEF PurgeRoute, NonExpiring, HasRoute, Remove
  <2>2. OldLocs' = OldLocs /\ move_pc' = "purge"
    BY <1>12 DEF PurgeRoute, OldLocs
  <2> QED
    BY <1>12, <1>o, <2>1, <2>2
    DEF PurgeRoute, Routes, NoNewPinned, PinnedRoutesJoined, Pinned
<1>13. ASSUME NEW loc \in Locators, LeaveGroup(loc)
       PROVE  Routes'
  <2>1. loc \in OldLocs /\ ~NonExpiring(loc)
    BY <1>13 DEF LeaveGroup, Routes
  <2> QED
    BY <1>13, <2>1
    DEF LeaveGroup, Routes, PinnedRoutesJoined, OldLocs, NonExpiring,
        HasRoute, Pinned
<1> QED
  BY <1>1, <1>2, <1>3, <1>4, <1>5, <1>6, <1>7, <1>8, <1>9, <1>10, <1>11,
     <1>12, <1>13
  DEF MoveThread

LEMMA InitRoutes == Init => Routes
BY DEF Init, Routes, PinnedRoutesJoined, OldLocs, NonExpiring, HasRoute, Pinned

LEMMA RoutesNext == Typed /\ Routes /\ [Next]_vars => Routes'
<1>1. Routes /\ UNCHANGED vars => Routes'
  BY DEF Routes, PinnedRoutesJoined, OldLocs, NonExpiring, HasRoute, Pinned,
     vars, shared, moveVars
<1> QED
  BY <1>1, MoveRoutes, OthersRoutes DEF Next

\* However a move ends, and whatever the other threads write to the table
\* meanwhile, a mapping that never expires leads to a group that is joined.
THEOREM PinnedRoutes == Spec => []PinnedRoutesJoined
<1>1. Init => Typed /\ Routes
  BY InitTyped, InitRoutes
<1>2. Typed /\ Routes /\ [Next]_vars => (Typed /\ Routes)'
  BY TypedNext, RoutesNext
<1>3. Routes => PinnedRoutesJoined
  BY DEF Routes
<1> QED
  BY <1>1, <1>2, <1>3, PTL DEF Spec

-----------------------------------------------------------------------------
(***************************************************************************)
(* Groups                                                                  *)
(***************************************************************************)

\* A step that leaves the groups and the entries alone disturbs Groups only by
\* where it takes the move thread.
LEMMA GroupsOfLoops ==
    ASSUME Groups,
           UNCHANGED <<locs_joined, old_locs_joined, joined_mcast_grps>>,
           move_pc' \notin Joining \cup {"leave"},
           move_pc' \in Joined => move_pc \in Joined
    PROVE  Groups'
BY DEF Groups, NewLocs, OldLocs, Joining, Joined

LEMMA GroupsUnchanged ==
    ASSUME Groups,
           UNCHANGED <<locs_joined, joined_mcast_grps, moveVars>>
    PROVE  Groups'
BY DEF Groups, NewLocs, OldLocs, Joining, Joined, moveVars

LEMMA OthersGroups ==
    ASSUME Groups, ReceiveThread \/ AppThread \/ Time
    PROVE  Groups'
<1>1. UNCHANGED <<locs_joined, joined_mcast_grps, moveVars>>
  BY DEF ReceiveThread, Receive, Filter, LearnCheck, LearnRoute, Forward,
     ClearExpired, Discover, Answer, Relay, Emit, AnswerDone, RelayDone,
     HandleUpdate, HandleAck, StrikeOff, HandleData, AppThread, AppLookUp,
     AppClear, AppTransmit, AppDies, Time, RouteExpires, SessionExpires, shared,
     butRoutes, butSessions
<1> QED
  BY <1>1, GroupsUnchanged

LEMMA MoveGroups ==
    ASSUME Typed, Routes, Groups, MoveThread
    PROVE  Groups'
<1> USE DEF MoveTo, BeginLoop, EndPass, Raise, Visit, Pause, butGroups,
            butRoutes, butSessions, butUpdates, shared
<1>1. CASE BeginMove
  BY <1>1 DEF BeginMove, Groups, Joining, Joined
<1>2. CASE \/ BeginSnapshot \/ SnapshotExpired \/ SnapshotRaises
           \/ ClearThenRaise \/ UpdateRaises \/ UpdateDone \/ Retry
           \/ BeginReset \/ ResetRaises \/ ResetDone \/ MoveDone
  BY <1>2, GroupsOfLoops
  DEF BeginSnapshot, SnapshotExpired, SnapshotRaises, ClearThenRaise,
      UpdateRaises, UpdateDone, Retry, BeginReset, ResetRaises, ResetDone,
      MoveDone, Joining, Joined
<1>3. CASE SnapshotDone
  BY <1>3 DEF SnapshotDone, Groups, NewLocs, OldLocs, Joining, Joined
<1>4. CASE InstallRoute
  BY <1>4 DEF InstallRoute, Groups, NewLocs, OldLocs, Joining, Joined
<1>5. CASE JoinDone
  BY <1>5 DEF JoinDone, Groups, NewLocs, OldLocs, Joining, Joined
<1>6. CASE PurgeDone
  BY <1>6 DEF PurgeDone, Groups, NewLocs, OldLocs, Joining, Joined
<1>7. ASSUME NEW ilv \in Ilvs, SnapshotSession(ilv) \/ UpdateRouteExpired(ilv)
      PROVE  Groups'
  BY <1>7, GroupsOfLoops
  DEF SnapshotSession, UpdateRouteExpired, Joining, Joined
<1>8. ASSUME NEW ilv \in Ilvs, SendUpdate(ilv)
      PROVE  Groups'
  BY <1>8, GroupsOfLoops DEF SendUpdate, Joining, Joined
<1>9. ASSUME NEW loc \in Locators, JoinGroup(loc)
      PROVE  Groups'
  BY <1>9 DEF JoinGroup, Groups, NewLocs, OldLocs, Joining, Joined
<1>10. ASSUME NEW loc \in Locators, JoinRaises(loc) \/ LeaveRaises(loc)
       PROVE  Groups'
  BY <1>10, GroupsOfLoops DEF JoinRaises, LeaveRaises, Joining, Joined
<1>11. ASSUME NEW loc \in Locators, InspectRoute(loc) \/ PurgeRoute(loc)
       PROVE  Groups'
  BY <1>11, GroupsOfLoops DEF InspectRoute, PurgeRoute, Joining, Joined
<1>12. ASSUME NEW loc \in Locators, LeaveGroup(loc)
       PROVE  Groups'
  BY <1>12 DEF LeaveGroup, Groups, NewLocs, OldLocs, Joining, Joined
<1> QED
  BY <1>1, <1>2, <1>3, <1>4, <1>5, <1>6, <1>7, <1>8, <1>9, <1>10, <1>11, <1>12
  DEF MoveThread

LEMMA InitGroups == Init => Groups
BY DEF Init, Groups, Joining, Joined

LEMMA InductiveInvariant == Spec => []IInv
<1>1. Init => IInv
  BY InitTyped, InitRoutes, InitGroups DEF IInv
<1>2. IInv /\ [Next]_vars => IInv'
  <2> SUFFICES ASSUME IInv, [Next]_vars PROVE IInv'
    OBVIOUS
  <2>1. Typed' /\ Routes'
    BY TypedNext, RoutesNext DEF IInv
  <2>2. CASE UNCHANGED vars
    BY <2>1, <2>2, GroupsUnchanged DEF IInv, vars, shared, moveVars
  <2> QED
    BY <2>1, <2>2, MoveGroups, OthersGroups DEF IInv, Next
<1> QED
  BY <1>1, <1>2, PTL DEF Spec

\* A move that comes to its end has joined all it brings and left all it gives
\* up, and no mapping that never expires is left over from it: no interleaving
\* lets it end as if nothing were wrong with half of the work done.
THEOREM CompleteHandoff == Spec => []HandoffComplete
<1>1. IInv => HandoffComplete
  BY DEF IInv, Routes, Groups, Joined, HandoffComplete, NewLocs, OldLocs
<1> QED
  BY <1>1, InductiveInvariant, PTL

-----------------------------------------------------------------------------
(***************************************************************************)
(* The refinement of SoftHandoff                                           *)
(***************************************************************************)
LEMMA InitRefines == Init => SH!Init
BY DEF Init, SH!Init

LEMMA StepRefines == IInv /\ [Next]_vars => [SH!Next]_(SH!vars)
<1> SUFFICES ASSUME IInv, [Next]_vars PROVE [SH!Next]_(SH!vars)
  OBVIOUS
<1> USE DEF SH!vars, SH!Next
<1>1. CASE BeginMove
  <2>1. SH!Retarget
    BY <1>1 DEF BeginMove, SH!Retarget, NextIndex, SH!NextLeg
  <2> QED
    BY <2>1
<1>2. ASSUME NEW loc \in Locators, JoinGroup(loc)
      PROVE  SH!Next
  <2>1. SH!Attach(loc)
    BY <1>2 DEF JoinGroup, Pause, butGroups, IInv, Groups, Joining, NewLocs,
       SH!Attach
  <2> QED
    BY <2>1
<1>3. ASSUME NEW loc \in Locators, LeaveGroup(loc)
      PROVE  SH!Next
  <2>1. SH!Detach(loc)
    BY <1>3 DEF LeaveGroup, Visit, butGroups, IInv, Groups, Joined, NewLocs,
       OldLocs, SH!Detach
  <2> QED
    BY <2>1
<1>4. CASE UNCHANGED vars
  BY <1>4 DEF vars, shared, moveVars
<1>5. ASSUME ReceiveThread \/ AppThread \/ Time
      PROVE  UNCHANGED SH!vars
  BY <1>5
  DEF ReceiveThread, Receive, Filter, LearnCheck, LearnRoute, Forward,
      ClearExpired, Discover, Answer, Relay, Emit, AnswerDone, RelayDone,
      HandleUpdate, HandleAck, StrikeOff, HandleData, AppThread, AppLookUp,
      AppClear, AppTransmit, AppDies, Time, RouteExpires, SessionExpires, shared,
      butRoutes, butSessions, moveVars
<1>6. ASSUME \/ BeginSnapshot \/ SnapshotExpired \/ SnapshotRaises
             \/ SnapshotDone \/ InstallRoute \/ JoinDone \/ ClearThenRaise
             \/ UpdateRaises \/ UpdateDone \/ Retry \/ BeginReset
             \/ ResetRaises \/ ResetDone \/ PurgeDone \/ MoveDone
             \/ \E ilv \in Ilvs : \/ SnapshotSession(ilv)
                                  \/ SendUpdate(ilv)
                                  \/ UpdateRouteExpired(ilv)
             \/ \E loc \in Locators : \/ JoinRaises(loc) \/ InspectRoute(loc)
                                      \/ PurgeRoute(loc) \/ LeaveRaises(loc)
      PROVE  UNCHANGED SH!vars
  BY <1>6
  DEF BeginSnapshot, SnapshotExpired, SnapshotRaises, SnapshotDone,
      InstallRoute, JoinDone, ClearThenRaise, UpdateRaises, UpdateDone, Retry,
      BeginReset, ResetRaises, ResetDone, PurgeDone, MoveDone,
      SnapshotSession, SendUpdate, UpdateRouteExpired, JoinRaises,
      InspectRoute, PurgeRoute, LeaveRaises, MoveTo, BeginLoop, EndPass,
      Raise, Visit, Pause, shared, butRoutes, butSessions, butUpdates
<1> QED
  BY <1>1, <1>2, <1>3, <1>4, <1>5, <1>6 DEF Next, MoveThread

\* The groups of the node change only as SoftHandoff allows: make before
\* break, whatever is received or sent meanwhile and wherever a move is cut
\* short by an exception.
THEOREM Refinement == Spec => ImplementsSoftHandoff
<1>1. Init => SH!Init
  BY InitRefines
<1>2. IInv /\ [Next]_vars => [SH!Next]_(SH!vars)
  BY StepRefines
<1> QED
  BY <1>1, <1>2, InductiveInvariant, PTL DEF Spec, ImplementsSoftHandoff, SH!Spec

-----------------------------------------------------------------------------
(***************************************************************************)
(* NeverIsolated, from the refinement: the argument is about SoftHandoff   *)
(***************************************************************************)

\* The node is attached, and the two entries it moves between follow each
\* other in the cycle.
Attached ==
    /\ joined_mcast_grps # {}
    /\ loc_cycle_index \in 0 .. Len(LocCycle) - 1
    /\ locs_joined = LocCycle[loc_cycle_index + 1]
    /\ \/ old_locs_joined = {}
       \/ \E i \in 0 .. Len(LocCycle) - 1 :
             /\ old_locs_joined = LocCycle[i + 1]
             /\ locs_joined = LocCycle[SH!NextLeg(i) + 1]

LEMMA InitAttached == SH!Init => Attached
BY CycleAssumption DEF SH!Init, Attached

LEMMA AttachedStep ==
    ASSUME SH!EveryMoveJoins, Attached, [SH!Next]_(SH!vars)
    PROVE  Attached'
<1>1. CASE SH!Retarget
  <2>1. loc_cycle_index' \in 0 .. Len(LocCycle) - 1
    BY <1>1, NextIndexType DEF SH!Retarget, SH!NextLeg, NextIndex, Attached
  <2> QED
    BY <1>1, <2>1 DEF SH!Retarget, Attached
<1>2. ASSUME NEW loc \in Locators, SH!Attach(loc)
      PROVE  Attached'
  BY <1>2 DEF SH!Attach, Attached
<1>3. ASSUME NEW loc \in Locators, SH!Detach(loc)
      PROVE  Attached'
  <2>1. locs_joined \ old_locs_joined # {}
    BY <1>3 DEF SH!Detach, SH!EveryMoveJoins, Attached
  <2>2. locs_joined \ old_locs_joined \subseteq joined_mcast_grps'
    BY <1>3 DEF SH!Detach
  <2> QED
    BY <1>3, <2>1, <2>2 DEF SH!Detach, Attached
<1>4. CASE UNCHANGED SH!vars
  BY <1>4 DEF SH!vars, Attached
<1> QED
  BY <1>1, <1>2, <1>3, <1>4 DEF SH!Next

\* When every move of the cycle brings a locator the entry before it does not
\* have, the node is always attached to a group, however moves are cut short.
\* An entry that is contained in the one before it breaks this.
THEOREM Connected ==
    ASSUME SH!EveryMoveJoins
    PROVE  Spec => []NeverIsolated
<1>1. SH!Init => Attached
  BY InitAttached
<1>2. Attached /\ [SH!Next]_(SH!vars) => Attached'
  BY AttachedStep
<1>3. Attached => NeverIsolated
  BY DEF Attached, NeverIsolated
<1> QED
  BY <1>1, <1>2, <1>3, Refinement, PTL DEF ImplementsSoftHandoff, SH!Spec

-----------------------------------------------------------------------------
(***************************************************************************)
(* What brings a pass of the move thread to its end                        *)
(***************************************************************************)

\* The rounds that are left, with one for each retry.
Round ==
    CASE move_pc = "retargeted" -> Retries + 7
      [] move_pc \in {"snapshot", "snapshot_expired"} -> Retries + 6
      [] move_pc \in {"join", "install"} -> Retries + 5
      [] move_pc \in {"update", "update_expired", "wait"} -> Retries + 4 - tries
      [] move_pc = "linger" -> 3
      [] move_pc = "reset" -> 2
      [] move_pc = "purge" -> 1
      [] OTHER -> 0

ToVisit == IF move_pc = "purge" THEN to_remove ELSE todo

\* The steps that are left in this round.
Steps ==
    2 * Cardinality(ToVisit)
        + (IF move_pc \in {"snapshot", "join", "update"} THEN 1 ELSE 0)

Variant == <<Round, Steps>>

Less  == {p \in Nat \X Nat : p[1] < p[2]}
Order == LexPairOrdering(Less, Less, Nat, Nat)

LEMMA OrderWellFounded == IsWellFoundedOn(Order, Nat \X Nat)
<1>1. IsWellFoundedOn(Less, Nat)
  BY NatLessThanWellFounded DEF OpToRel, Less
<1> QED
  BY <1>1, WFLexPairOrdering DEF Order

\* The element in hand is one of those still to be visited.
CursorOK == move_pc \in {"snapshot_expired", "install"} => cursor \in todo

\* A step of a pass that does not end it brings its end nearer.
Ends == move_pc # "sleep" /\ move_pc' # "sleep" => <<Variant', Variant>> \in Order

LEMMA CursorStep == CursorOK /\ [Next]_vars => CursorOK'
<1> SUFFICES ASSUME CursorOK, [Next]_vars PROVE CursorOK'
  OBVIOUS
<1>1. CASE UNCHANGED moveVars
  BY <1>1 DEF moveVars, CursorOK
<1>2. CASE MoveThread
  BY <1>2
     DEF MoveThread, CursorOK, BeginMove, BeginSnapshot, SnapshotSession,
         SnapshotExpired, SnapshotRaises, SnapshotDone, JoinGroup, JoinRaises,
         InstallRoute, JoinDone, SendUpdate, UpdateRouteExpired,
         ClearThenRaise, UpdateRaises, UpdateDone, Retry, BeginReset,
         InspectRoute, ResetRaises, ResetDone, PurgeRoute, PurgeDone,
         LeaveGroup, LeaveRaises, MoveDone, MoveTo, BeginLoop, Visit, Pause,
         EndPass, Raise
<1> QED
  BY <1>1, <1>2 DEF Next, ReceiveThread, AppThread, Time, vars

\* There are finitely many locators and correspondents.
Finite == IsFiniteSet(Locators) /\ IsFiniteSet(Nids)

\* What is to be visited can be counted.
LEMMA Counts ==
    ASSUME Finite, NEW S, S \subseteq Locators \cup Ilvs
    PROVE  IsFiniteSet(S) /\ Cardinality(S) \in Nat
<1>1. IsFiniteSet(Locators \cup Ilvs)
  BY FS_Product, FS_Union DEF Ilvs, Finite
<1>2. IsFiniteSet(S)
  BY <1>1, FS_Subset
<1> QED
  BY <1>2, FS_CardinalityType

LEMMA VariantType ==
    ASSUME Finite, TypeOK, TypeOK'
    PROVE  Round \in Nat /\ Steps \in Nat /\ Round' \in Nat /\ Steps' \in Nat
<1>t. Retries \in Nat /\ tries \in 0 .. Retries /\ tries' \in 0 .. Retries
  BY ConstantsAssumption DEF TypeOK
<1>1. Round \in Nat
  BY <1>t DEF Round
<1>2. Round' \in Nat
  BY <1>t DEF Round
<1>3. Cardinality(ToVisit) \in Nat
  BY Counts DEF ToVisit, TypeOK
<1>4. Cardinality(ToVisit') \in Nat
  BY Counts DEF ToVisit, TypeOK
<1> QED
  BY <1>1, <1>2, <1>3, <1>4 DEF Steps

\* A step to a later round, or one step less in the same round.
LEMMA Descent ==
    ASSUME Round \in Nat, Steps \in Nat, Round' \in Nat, Steps' \in Nat,
           \/ Round' < Round
           \/ Round' = Round /\ Steps' < Steps
    PROVE  <<Variant', Variant>> \in Order
BY DEF Variant, Order, LexPairOrdering, Less

\* One element has been visited.
LEMMA Visited ==
    ASSUME NEW S, IsFiniteSet(S), NEW x \in S
    PROVE  /\ Cardinality(S \ {x}) = Cardinality(S) - 1
           /\ Cardinality(S) \in Nat /\ Cardinality(S \ {x}) \in Nat
BY FS_RemoveElement, FS_CardinalityType

\* An earlier round is left for a later one.
LEMMA RoundOver ==
    ASSUME Finite, Typed, Typed', MoveThread, move_pc' # "sleep",
           \/ BeginSnapshot \/ SnapshotDone \/ JoinDone \/ Retry \/ BeginReset
           \/ ResetDone \/ PurgeDone
    PROVE  Round' < Round
<1> USE DEF MoveTo, BeginLoop
<1>t. /\ tries \in Nat /\ tries <= Retries /\ Retries \in Nat
      /\ tries' \in Nat /\ tries' <= Retries
      /\ move_pc = "wait" => tries < Retries
  BY ConstantsAssumption DEF Typed, TypeOK, LocalsOK
<1>1. CASE BeginSnapshot
  BY <1>1, <1>t DEF BeginSnapshot, Round
<1>2. CASE SnapshotDone
  BY <1>2, <1>t DEF SnapshotDone, Round
<1>3. CASE JoinDone
  BY <1>3, <1>t DEF JoinDone, Round
<1>4. CASE Retry
  BY <1>4, <1>t DEF Retry, Round
<1>5. CASE BeginReset
  BY <1>5, <1>t DEF BeginReset, Round
<1>6. CASE ResetDone
  BY <1>6, <1>t DEF ResetDone, Round
<1>7. CASE PurgeDone
  BY <1>7, <1>t DEF PurgeDone, Round
<1> QED
  BY <1>1, <1>2, <1>3, <1>4, <1>5, <1>6, <1>7

\* An element is visited, or is about to be.
LEMMA OneVisited ==
    ASSUME Finite, Typed, Typed', CursorOK, MoveThread, move_pc' # "sleep",
           \/ \E ilv \in Ilvs : SnapshotSession(ilv) \/ SendUpdate(ilv)
                                \/ UpdateRouteExpired(ilv)
           \/ SnapshotExpired \/ InstallRoute
           \/ \E loc \in Locators : JoinGroup(loc) \/ InspectRoute(loc)
                                    \/ PurgeRoute(loc) \/ LeaveGroup(loc)
    PROVE  Round' = Round /\ Steps' < Steps
<1> USE DEF MoveTo, Visit, Pause
<1>c. /\ \A x \in todo :
            /\ Cardinality(todo \ {x}) = Cardinality(todo) - 1
            /\ Cardinality(todo \ {x}) \in Nat
      /\ Cardinality(todo) \in Nat
      /\ \A x \in to_remove :
            /\ Cardinality(to_remove \ {x}) = Cardinality(to_remove) - 1
            /\ Cardinality(to_remove \ {x}) \in Nat
      /\ Cardinality(to_remove) \in Nat
  <2>1. IsFiniteSet(todo) /\ IsFiniteSet(to_remove)
    BY Counts DEF Typed, TypeOK
  <2> QED
    BY <2>1, Visited, FS_CardinalityType
<1>1. CASE \E ilv \in Ilvs : SnapshotSession(ilv)
  BY <1>1, <1>c DEF SnapshotSession, Round, Steps, ToVisit
<1>2. CASE \E ilv \in Ilvs : SendUpdate(ilv)
  BY <1>2, <1>c DEF SendUpdate, Round, Steps, ToVisit
<1>3. CASE \E ilv \in Ilvs : UpdateRouteExpired(ilv)
  BY <1>3, <1>c DEF UpdateRouteExpired, Round, Steps, ToVisit
<1>4. CASE SnapshotExpired
  BY <1>4, <1>c DEF SnapshotExpired, Round, Steps, ToVisit, CursorOK
<1>5. CASE InstallRoute
  BY <1>5, <1>c DEF InstallRoute, Raise, EndPass, Round, Steps, ToVisit, CursorOK
<1>6. CASE \E loc \in Locators : JoinGroup(loc)
  BY <1>6, <1>c DEF JoinGroup, Round, Steps, ToVisit
<1>7. CASE \E loc \in Locators : InspectRoute(loc)
  BY <1>7, <1>c DEF InspectRoute, Round, Steps, ToVisit
<1>8. CASE \E loc \in Locators : PurgeRoute(loc)
  BY <1>8, <1>c DEF PurgeRoute, Round, Steps, ToVisit
<1>9. CASE \E loc \in Locators : LeaveGroup(loc)
  BY <1>9, <1>c DEF LeaveGroup, Round, Steps, ToVisit
<1> QED
  BY <1>1, <1>2, <1>3, <1>4, <1>5, <1>6, <1>7, <1>8, <1>9

\* All updates are out: the wait belongs to the same round.
LEMMA UpdatesOut ==
    ASSUME Finite, Typed, Typed', UpdateDone
    PROVE  Round' < Round \/ (Round' = Round /\ Steps' < Steps)
<1>1. tries \in Nat /\ tries <= Retries /\ Retries \in Nat
  BY ConstantsAssumption DEF Typed, TypeOK
<1>2. Cardinality(todo) \in Nat /\ todo' = todo /\ tries' = tries
  BY Counts DEF Typed, TypeOK, UpdateDone
<1>3. CASE tries < Retries
  BY <1>1, <1>2, <1>3 DEF UpdateDone, MoveTo, Round, Steps, ToVisit
<1>4. CASE ~(tries < Retries)
  BY <1>1, <1>2, <1>4 DEF UpdateDone, MoveTo, Round
<1> QED
  BY <1>3, <1>4

LEMMA MoveEnds ==
    ASSUME Finite, Typed, Typed', CursorOK, MoveThread,
           move_pc # "sleep", move_pc' # "sleep"
    PROVE  <<Variant', Variant>> \in Order
<1>n. Round \in Nat /\ Steps \in Nat /\ Round' \in Nat /\ Steps' \in Nat
  BY VariantType DEF Typed
<1>1. \/ BeginSnapshot \/ SnapshotDone \/ JoinDone \/ Retry \/ BeginReset
      \/ ResetDone \/ PurgeDone
      \/ UpdateDone
      \/ \E ilv \in Ilvs : SnapshotSession(ilv) \/ SendUpdate(ilv)
                           \/ UpdateRouteExpired(ilv)
      \/ SnapshotExpired \/ InstallRoute
      \/ \E loc \in Locators : JoinGroup(loc) \/ InspectRoute(loc)
                               \/ PurgeRoute(loc) \/ LeaveGroup(loc)
  BY DEF MoveThread, BeginMove, SnapshotRaises, JoinRaises, ClearThenRaise,
         UpdateRaises, ResetRaises, LeaveRaises, MoveDone, Raise, EndPass
<1>2. Round' < Round \/ (Round' = Round /\ Steps' < Steps)
  BY <1>1, RoundOver, OneVisited, UpdatesOut
<1> QED
  BY <1>n, <1>2, Descent

\* Every step of the move thread in a pass brings the end of the pass nearer:
\* the variant goes down in a well-founded order, whatever the other threads
\* do to the dictionaries it loops over, until the thread sleeps again.  With
\* a thread that is scheduled, and none of whose steps is blocked for ever,
\* this is why a move always comes to an end (HandoffTerminates).
THEOREM PassEnds ==
    ASSUME Finite
    PROVE  Spec => /\ [][Ends]_moveVars
                   /\ IsWellFoundedOn(Order, Nat \X Nat)
<1>1. Init => CursorOK
  BY DEF Init, CursorOK
<1>2. CursorOK /\ [Next]_vars => CursorOK'
  BY CursorStep
<1>3. Typed /\ Typed' /\ CursorOK /\ [Next]_vars => [Ends]_moveVars
  <2> SUFFICES ASSUME Typed, Typed', CursorOK, Next, ~UNCHANGED moveVars
               PROVE  Ends
    BY DEF vars
  <2>1. MoveThread
    BY DEF Next, ReceiveThread, AppThread, Time
  <2> QED
    BY <2>1, MoveEnds DEF Ends
<1>4. Init => Typed
  BY InitTyped
<1>5. Typed /\ [Next]_vars => Typed'
  BY TypedNext
<1> QED
  BY <1>1, <1>2, <1>3, <1>4, <1>5, OrderWellFounded, PTL DEF Spec

=============================================================================
