------------------------------ MODULE Handoff ------------------------------
(***************************************************************************)
(* The network layer of one mobile node: the threads of network.py and the *)
(* dictionaries they share without a lock.                                 *)
(*                                                                         *)
(*   MoveThread      moves the node through its locator cycle              *)
(*   ReceiveThread   handles the packets the link layer receives           *)
(*   the application calls network.send                                    *)
(*                                                                         *)
(* A step is what one thread does between two accesses to shared state     *)
(* that another thread may get in between.  An exception ends the pass of  *)
(* the thread it is raised in; the state it has changed stays changed.     *)
(*                                                                         *)
(* Time is abstracted to its effect: a learned route or a session is       *)
(* "fresh" until its time to live has run out, and "expired" afterwards.   *)
(***************************************************************************)
EXTENDS Integers, Sequences, FiniteSets, Dicts

CONSTANTS
    Locators,       \* the 64-bit locators of the deployment
    Nids,           \* node identifiers of the correspondents
    LocCycle,       \* loc_cycle: the entries of network.locators, as sets
    Packets,        \* the packets the other nodes may send to this one
    Sessions,       \* the correspondents the application may send to
    Retries,        \* loc_update_retries
    RoutesAge,      \* whether backwards_learning_ttl runs out in a run
    SessionsAge,    \* whether active_uncast_session_ttl runs out in a run
    SyscallsFail,   \* whether setsockopt and sendto may raise OSError
    None            \* Python's None

\* An identifier-locator vector, as the pair (loc, nid).
Ilvs == Locators \X Nids

Kinds == {"data", "transit", "solicitation", "advertisement", "update", "ack"}

\* What _receive distinguishes in a packet: its kind, the interface it comes
\* in on, its source, the locator it is addressed to (None: ALL_NODES_LOC),
\* its hop limit and, for a locator update, the first new locator in it.
Packet == [kind : Kinds, interface : Locators, src : Ilvs,
           dst_loc : Locators \cup {None}, new_loc : Locators,
           hop_limit : Nat]

ASSUME ConstantsAssumption ==
    /\ None \notin Locators
    /\ None \notin Ilvs
    /\ None \notin Packet
    /\ Packets \subseteq Packet
    /\ Sessions \subseteq Ilvs
    /\ Retries \in Nat
    /\ {RoutesAge, SessionsAge, SyscallsFail} \subseteq BOOLEAN

ASSUME CycleAssumption ==
    /\ LocCycle \in Seq(SUBSET Locators)
    /\ Len(LocCycle) \in Nat
    /\ Len(LocCycle) > 1
    /\ \A i \in 1 .. Len(LocCycle) : LocCycle[i] # {}

VARIABLES
    \* Shared by all threads.
    locs_joined,        \* the locators the node is at, or heading for
    joined_mcast_grps,  \* the groups the link layer has joined
    loc_to_interface,   \* forwarding table: locator -> route, or None
    active_ilvs,        \* sessions: ilv -> "fresh" or "expired"
    ilvs_to_update,     \* ilv -> interface or None; None before any move
    \* Local to MoveThread.run.
    move_pc,
    loc_cycle_index,
    old_locs_joined,
    loop_keys,          \* the keys of the dictionary when its loop began
    todo,               \* what the current loop has still to visit
    cursor,             \* the element it is working on, or None
    tries,              \* the retries made so far
    to_remove,
    \* Local to ReceiveThread.run.
    recv_pc,
    pkt,                \* the packet in hand, or None
    recv_todo,          \* the locators a discovery loop has still to visit
    recv_loc,           \* the locator whose expired route is being cleared
    \* Local to the application thread.
    app_pc,
    app_ilv,            \* the (loc, nid) passed to network.send, or None
    app_interface       \* the interface it has been mapped to, or None

shared == <<locs_joined, joined_mcast_grps, loc_to_interface, active_ilvs,
            ilvs_to_update>>
butGroups   == <<locs_joined, loc_to_interface, active_ilvs, ilvs_to_update>>
butRoutes   == <<locs_joined, joined_mcast_grps, active_ilvs, ilvs_to_update>>
butSessions == <<locs_joined, joined_mcast_grps, loc_to_interface,
                 ilvs_to_update>>
butUpdates  == <<locs_joined, joined_mcast_grps, loc_to_interface,
                 active_ilvs>>

moveVars  == <<move_pc, loc_cycle_index, old_locs_joined, loop_keys, todo,
               cursor, tries, to_remove>>
recvVars  == <<recv_pc, pkt, recv_todo, recv_loc>>
appVars   == <<app_pc, app_ilv, app_interface>>
vars      == <<shared, moveVars, recvVars, appVars>>

-----------------------------------------------------------------------------
(***************************************************************************)
(* The forwarding table.                                                   *)
(***************************************************************************)
Route == [interface : Locators, timestamp : {"never", "fresh", "expired"}]

\* The mapping of a locator the node has joined: itself, non-expiring.
Pinned(loc) == [interface |-> loc, timestamp |-> "never"]

\* A mapping learned backwards from a packet received on an interface.
Learned(interface) == [interface |-> interface, timestamp |-> "fresh"]

HasRoute(loc) ==
    loc \in DOMAIN loc_to_interface /\ loc_to_interface[loc] # None

Expired(loc) == HasRoute(loc) /\ loc_to_interface[loc].timestamp = "expired"

\* Mutant of MapToInterface: the entry is not unpacked.
MapToEntry(loc) ==
    IF HasRoute(loc) THEN loc_to_interface[loc] ELSE None

\* map_locator_to_interface(loc), when there is no expired entry to clear.
MapToInterface(loc) ==
    IF HasRoute(loc) THEN loc_to_interface[loc].interface ELSE None

\* The second half of map_locator_to_interface(loc) when the entry was found
\* expired: it is set to None, whatever another thread has put there since.
ClearRoute(loc) == loc_to_interface' = Put(loc_to_interface, loc, None)

\* link.send(interface): raises IOError when the group is not joined.
CanSend(interface) == interface \in joined_mcast_grps
SendRaises(interface) == ~CanSend(interface) \/ SyscallsFail

\* active_ilvs[ilv] = time.time()
Touch(ilv) == active_ilvs' = Put(active_ilvs, ilv, "fresh")

-----------------------------------------------------------------------------
\* Mutant of NextIndex: the cycle does not wrap around.
NextIndexToEnd(i) == IF i + 1 < Len(LocCycle) THEN i + 1 ELSE i

NextIndex(i) == (i + 1) % Len(LocCycle)

\* What a move joins.
NewLocs == locs_joined \ old_locs_joined

\* Mutant of OldLocs: the difference the wrong way round.
OldLocsSwapped == locs_joined \ old_locs_joined

\* What it leaves.
OldLocs == old_locs_joined \ locs_joined

Init ==
    /\ locs_joined = LocCycle[1]
    /\ joined_mcast_grps = LocCycle[1]
    /\ loc_to_interface = [loc \in LocCycle[1] |-> Pinned(loc)]
    /\ active_ilvs = EmptyDict
    /\ ilvs_to_update = None
    /\ move_pc = "sleep"
    /\ loc_cycle_index = 0
    /\ old_locs_joined = {}
    /\ loop_keys = {} /\ todo = {} /\ cursor = None /\ tries = 0
    /\ to_remove = {}
    /\ recv_pc = "recv" /\ pkt = None /\ recv_todo = {} /\ recv_loc = None
    /\ app_pc = "idle" /\ app_ilv = None /\ app_interface = None

-----------------------------------------------------------------------------
(***************************************************************************)
(* MoveThread.run                                                          *)
(***************************************************************************)

\* Go to pc with nothing left over from the loop before.
MoveTo(pc) ==
    /\ move_pc' = pc
    /\ cursor' = None
    /\ UNCHANGED <<loc_cycle_index, old_locs_joined>>

\* for key in dict.items(): over a dictionary with these keys.
BeginLoop(pc, keys) ==
    /\ MoveTo(pc)
    /\ loop_keys' = keys
    /\ todo' = keys

\* x is done with: the loop goes on to the next element.
Visit(x) ==
    /\ todo' = todo \ {x}
    /\ UNCHANGED <<move_pc, loc_cycle_index, old_locs_joined, loop_keys, cursor,
                   tries, to_remove>>

\* x takes another step, before which other threads may run.
Pause(pc, x) ==
    /\ move_pc' = pc
    /\ cursor' = x
    /\ UNCHANGED <<loc_cycle_index, old_locs_joined, loop_keys, todo, tries,
                   to_remove>>

\* except Exception: the pass ends where it is, and the thread sleeps again.
EndPass ==
    /\ move_pc' = "sleep"
    /\ loop_keys' = {} /\ todo' = {} /\ cursor' = None /\ tries' = 0
    /\ to_remove' = {}
    /\ UNCHANGED <<loc_cycle_index, old_locs_joined>>

\* Mutant of Raise: the old groups are left even so, as in a finally clause.
RaiseThenLeave ==
    /\ BeginLoop("leave", OldLocs)
    /\ tries' = 0
    /\ to_remove' = {}

Raise == EndPass

\* The dictionary has gained or lost a key since the loop began: the next
\* element is not fetched and RuntimeError is raised.
ChangedSize(dict) == DOMAIN dict # loop_keys

\* move_time is over: the next entry of the cycle becomes the current one.
BeginMove ==
    /\ move_pc = "sleep"
    /\ move_pc' = "retargeted"
    /\ old_locs_joined' = locs_joined
    /\ loc_cycle_index' = NextIndex(loc_cycle_index)
    /\ locs_joined' = LocCycle[NextIndex(loc_cycle_index) + 1]
    /\ ilvs_to_update' = EmptyDict
    /\ UNCHANGED <<joined_mcast_grps, loc_to_interface, active_ilvs,
                   loop_keys, todo, cursor, tries, to_remove>>

BeginSnapshot ==
    /\ move_pc = "retargeted"
    /\ BeginLoop("snapshot", DOMAIN active_ilvs)
    /\ UNCHANGED <<shared, tries, to_remove>>

\* One session is given the interface it is reached on now.
SnapshotSession(ilv) ==
    /\ move_pc = "snapshot"
    /\ ilv \in todo
    /\ ~ChangedSize(active_ilvs)
    /\ active_ilvs[ilv] = "fresh"
    /\ IF Expired(ilv[1])
       THEN Pause("snapshot_expired", ilv) /\ UNCHANGED ilvs_to_update
       ELSE /\ ilvs_to_update' =
                   Put(ilvs_to_update, ilv, MapToInterface(ilv[1]))
            /\ Visit(ilv)
    /\ UNCHANGED butUpdates

\* Its route was expired: the table entry and the snapshot become None.
SnapshotExpired ==
    /\ move_pc = "snapshot_expired"
    /\ MoveTo("snapshot")
    /\ ClearRoute(cursor[1])
    /\ ilvs_to_update' = Put(ilvs_to_update, cursor, None)
    /\ todo' = todo \ {cursor}
    /\ UNCHANGED <<locs_joined, joined_mcast_grps, active_ilvs, loop_keys,
                   tries, to_remove>>

\* The loop cannot go on: a session was added meanwhile (RuntimeError), or
\* one has expired, which old_active_ilvs.add(ilv) cannot record as
\* old_active_ilvs is a list (AttributeError).
SnapshotRaises ==
    /\ move_pc = "snapshot"
    /\ \/ ChangedSize(active_ilvs)
       \/ \E ilv \in todo : active_ilvs[ilv] = "expired"
    /\ Raise
    /\ UNCHANGED shared

SnapshotDone ==
    /\ move_pc = "snapshot"
    /\ todo = {}
    /\ ~ChangedSize(active_ilvs)
    /\ BeginLoop("join", NewLocs)
    /\ UNCHANGED <<shared, tries, to_remove>>

\* link.join(loc)
JoinGroup(loc) ==
    /\ move_pc = "join"
    /\ loc \in todo
    /\ loc \notin joined_mcast_grps
    /\ joined_mcast_grps' = joined_mcast_grps \cup {loc}
    /\ Pause("install", loc)
    /\ UNCHANGED butGroups

\* link.join raises IOError for a group that is joined already.
JoinRaises(loc) ==
    /\ move_pc = "join"
    /\ loc \in todo
    /\ loc \in joined_mcast_grps \/ SyscallsFail
    /\ Raise
    /\ UNCHANGED shared

\* loc_to_interface[loc] = loc, None, and the advertisement on the new group.
InstallRoute ==
    /\ move_pc = "install"
    /\ loc_to_interface' = Put(loc_to_interface, cursor, Pinned(cursor))
    /\ \/ /\ CanSend(cursor)
          /\ MoveTo("join")
          /\ todo' = todo \ {cursor}
          /\ UNCHANGED <<loop_keys, tries, to_remove>>
       \/ SendRaises(cursor) /\ Raise
    /\ UNCHANGED butRoutes

JoinDone ==
    /\ move_pc = "join"
    /\ todo = {}
    /\ BeginLoop("update", DOMAIN ilvs_to_update)
    /\ UNCHANGED <<shared, tries, to_remove>>

\* The interface a locator update to ilv leaves on: the one of the snapshot,
\* or, when that is None, the one the table gives now.
UpdateInterface(ilv) ==
    IF ilvs_to_update[ilv] # None
    THEN ilvs_to_update[ilv]
    ELSE MapToInterface(ilv[1])

\* The expired route has to be cleared first, and the send then fails.
MustClear(ilv) == ilvs_to_update[ilv] = None /\ Expired(ilv[1])

SendUpdate(ilv) ==
    /\ move_pc = "update"
    /\ ilv \in todo
    /\ ~ChangedSize(ilvs_to_update)
    /\ ~MustClear(ilv)
    /\ CanSend(UpdateInterface(ilv))
    /\ Touch(ilv)
    /\ Visit(ilv)
    /\ UNCHANGED butSessions

UpdateRouteExpired(ilv) ==
    /\ move_pc = "update"
    /\ ilv \in todo
    /\ ~ChangedSize(ilvs_to_update)
    /\ MustClear(ilv)
    /\ Pause("update_expired", ilv)
    /\ UNCHANGED shared

\* No interface to the locator: NetworkException.
ClearThenRaise ==
    /\ move_pc = "update_expired"
    /\ ClearRoute(cursor[1])
    /\ Raise
    /\ UNCHANGED butRoutes

\* An acknowledgement has removed a key from the dictionary being iterated
\* (RuntimeError), there is no interface to the correspondent
\* (NetworkException), or its group is not joined (IOError).
UpdateRaises ==
    /\ move_pc = "update"
    /\ \/ ChangedSize(ilvs_to_update)
       \/ \E ilv \in todo \cap DOMAIN ilvs_to_update :
             ~MustClear(ilv) /\ SendRaises(UpdateInterface(ilv))
    /\ Raise
    /\ UNCHANGED shared

\* All updates are out: wait for acknowledgements, or go on when the retries
\* are used up.
UpdateDone ==
    /\ move_pc = "update"
    /\ todo = {}
    /\ ~ChangedSize(ilvs_to_update)
    /\ MoveTo(IF tries < Retries THEN "wait" ELSE "linger")
    /\ loop_keys' = {}
    /\ UNCHANGED <<shared, todo, tries, to_remove>>

\* Mutant of Retry: the retries are not counted.
RetryForever ==
    /\ move_pc = "wait"
    /\ BeginLoop("update", DOMAIN ilvs_to_update)
    /\ UNCHANGED <<shared, tries, to_remove>>

\* loc_update_ack_cv.wait returns, by a notification or by its timeout, and
\* the updates that are not acknowledged are sent again.
Retry ==
    /\ move_pc = "wait"
    /\ tries' = tries + 1
    /\ BeginLoop("update", DOMAIN ilvs_to_update)
    /\ UNCHANGED <<shared, to_remove>>

\* handoff_time is over: the reset of the forwarding table begins.
BeginReset ==
    /\ move_pc = "linger"
    /\ tries' = 0
    /\ BeginLoop("reset", DOMAIN loc_to_interface)
    /\ UNCHANGED <<shared, to_remove>>

\* Mutant of LeadsElsewhere: the test against the wrong entry of the cycle.
LeadsElsewhereOld(route) == route.interface \notin old_locs_joined

\* interface not in new_locs_joined
LeadsElsewhere(route) == route.interface \notin locs_joined

InspectRoute(loc) ==
    /\ move_pc = "reset"
    /\ loc \in todo
    /\ ~ChangedSize(loc_to_interface)
    /\ loc_to_interface[loc] # None
    /\ to_remove' = IF LeadsElsewhere(loc_to_interface[loc])
                    THEN to_remove \cup {loc}
                    ELSE to_remove
    /\ todo' = todo \ {loc}
    /\ UNCHANGED <<shared, move_pc, loc_cycle_index, old_locs_joined,
                   loop_keys, cursor, tries>>

\* A locator was learned meanwhile (RuntimeError), or an entry is None, which
\* cannot be unpacked into (interface, timestamp) (TypeError).
ResetRaises ==
    /\ move_pc = "reset"
    /\ \/ ChangedSize(loc_to_interface)
       \/ \E loc \in todo : loc_to_interface[loc] = None
    /\ Raise
    /\ UNCHANGED shared

ResetDone ==
    /\ move_pc = "reset"
    /\ todo = {}
    /\ ~ChangedSize(loc_to_interface)
    /\ MoveTo("purge")
    /\ loop_keys' = {}
    /\ UNCHANGED <<shared, todo, tries, to_remove>>

\* del loc_to_interface[mapped_loc], as it was found or as it is by now.
PurgeRoute(loc) ==
    /\ move_pc = "purge"
    /\ loc \in to_remove
    /\ loc_to_interface' = Remove(loc_to_interface, loc)
    /\ to_remove' = to_remove \ {loc}
    /\ UNCHANGED <<butRoutes, move_pc, loc_cycle_index, old_locs_joined,
                   loop_keys, todo, cursor, tries>>

PurgeDone ==
    /\ move_pc = "purge"
    /\ to_remove = {}
    /\ BeginLoop("leave", OldLocs)
    /\ UNCHANGED <<shared, tries, to_remove>>

\* Mutant of LeaveGroup: the group stays in joined_mcast_grps.
LeaveGroupKept(loc) ==
    /\ move_pc = "leave"
    /\ loc \in todo
    /\ Visit(loc)
    /\ UNCHANGED shared

\* link.leave(loc)
LeaveGroup(loc) ==
    /\ move_pc = "leave"
    /\ loc \in todo
    /\ loc \in joined_mcast_grps
    /\ joined_mcast_grps' = joined_mcast_grps \ {loc}
    /\ Visit(loc)
    /\ UNCHANGED butGroups

\* link.leave raises IOError for a group that is not joined.
LeaveRaises(loc) ==
    /\ move_pc = "leave"
    /\ loc \in todo
    /\ loc \notin joined_mcast_grps \/ SyscallsFail
    /\ Raise
    /\ UNCHANGED shared

MoveDone ==
    /\ move_pc = "leave"
    /\ todo = {}
    /\ EndPass
    /\ UNCHANGED shared

MoveThread ==
    /\ \/ BeginMove \/ BeginSnapshot \/ SnapshotExpired \/ SnapshotRaises
       \/ SnapshotDone \/ InstallRoute \/ JoinDone \/ ClearThenRaise
       \/ UpdateRaises \/ UpdateDone \/ Retry \/ BeginReset \/ ResetRaises
       \/ ResetDone \/ PurgeDone \/ MoveDone
       \/ \E ilv \in Ilvs : \/ SnapshotSession(ilv)
                            \/ SendUpdate(ilv)
                            \/ UpdateRouteExpired(ilv)
       \/ \E loc \in Locators : \/ JoinGroup(loc) \/ JoinRaises(loc)
                                \/ InspectRoute(loc) \/ PurgeRoute(loc)
                                \/ LeaveGroup(loc) \/ LeaveRaises(loc)
    /\ UNCHANGED <<recvVars, appVars>>

-----------------------------------------------------------------------------
(***************************************************************************)
(* ReceiveThread.run and _receive                                          *)
(***************************************************************************)
RecvTo(pc) == recv_pc' = pc /\ UNCHANGED <<pkt, recv_todo, recv_loc>>

\* _receive returns or raises; the thread goes back to the socket.
EndReceive ==
    /\ recv_pc' = "recv"
    /\ pkt' = None /\ recv_todo' = {} /\ recv_loc' = None

\* link.receive() returns a packet of a joined group.  The thread may be
\* suspended with it: it stands for the packets of the socket buffer, which
\* outlive the membership of their group.
Receive(p) ==
    /\ recv_pc = "recv"
    /\ p.interface \in joined_mcast_grps
    /\ pkt' = p
    /\ recv_pc' = "filter"
    /\ UNCHANGED <<shared, recv_todo, recv_loc>>

\* Received on a locator the node is no longer at, and not addressed to it.
Unwanted(p) == p.interface \notin locs_joined /\ p.dst_loc # p.interface

Filter ==
    /\ recv_pc = "filter"
    /\ IF Unwanted(pkt) THEN EndReceive ELSE RecvTo("learn")
    /\ UNCHANGED shared

\* if src_loc not in locs_joined: the check, and then the assignment.
LearnCheck ==
    /\ recv_pc = "learn"
    /\ RecvTo(IF pkt.src[1] \in locs_joined THEN "dispatch" ELSE "record")
    /\ UNCHANGED shared

LearnRoute ==
    /\ recv_pc = "record"
    /\ loc_to_interface' =
           Put(loc_to_interface, pkt.src[1], Learned(pkt.interface))
    /\ RecvTo("dispatch")
    /\ UNCHANGED butRoutes

\* Look a locator up on behalf of the packet in hand; Found says what follows
\* when the entry is not an expired one.
LookUp(loc, Found) ==
    IF Expired(loc)
    THEN /\ recv_pc' = "clear"
         /\ recv_loc' = loc
         /\ UNCHANGED <<pkt, recv_todo>>
    ELSE Found

\* A packet for another node is sent on, if there is an interface for it and
\* it did not come in on the locator it is addressed to.
Forward ==
    /\ recv_pc = "dispatch"
    /\ pkt.kind = "transit"
    /\ IF pkt.interface # pkt.dst_loc
       THEN LookUp(pkt.dst_loc, EndReceive)
       ELSE EndReceive
    /\ UNCHANGED shared

\* The entry was expired: it is set to None.  Nothing is sent: forwarding is
\* given up, and a discovery message raises.
ClearExpired ==
    /\ recv_pc = "clear"
    /\ ClearRoute(recv_loc)
    /\ EndReceive
    /\ UNCHANGED butRoutes

IsDiscovery(p) == p.kind \in {"solicitation", "advertisement"}

\* Discovery messages are ignored on interfaces the node is leaving.  A
\* solicitation is answered on all locators joined; both are then relayed.
Discover ==
    /\ recv_pc = "dispatch"
    /\ IsDiscovery(pkt)
    /\ \/ pkt.interface \notin locs_joined /\ EndReceive
       \/ /\ pkt.interface \in locs_joined
          /\ recv_pc' = IF pkt.kind = "solicitation" THEN "answer" ELSE "relay"
          /\ recv_todo' = locs_joined
          /\ UNCHANGED <<pkt, recv_loc>>
    /\ UNCHANGED shared

\* One iteration of the loop that answers, and of the loop that relays: the
\* message leaves on the interface of loc, or an exception ends the handler.
Emit(pc, loc) ==
    /\ recv_pc = pc
    /\ loc \in recv_todo
    /\ LookUp(loc, \/ /\ CanSend(MapToInterface(loc))
                      /\ recv_todo' = recv_todo \ {loc}
                      /\ UNCHANGED <<recv_pc, pkt, recv_loc>>
                   \/ SendRaises(MapToInterface(loc)) /\ EndReceive)
    /\ UNCHANGED shared

Answer(loc) == Emit("answer", loc)

Relay(loc) ==
    /\ recv_pc = "relay"
    /\ loc # pkt.interface
    /\ pkt.hop_limit > 0
    /\ Emit("relay", loc)

AnswerDone ==
    /\ recv_pc = "answer"
    /\ recv_todo = {}
    /\ recv_pc' = "relay"
    /\ recv_todo' = locs_joined
    /\ UNCHANGED <<shared, pkt, recv_loc>>

\* Every other locator has been visited; with no hop left, the loop sends
\* nothing and looks nothing up.
RelayDone ==
    /\ recv_pc = "relay"
    /\ recv_todo \subseteq {pkt.interface} \/ pkt.hop_limit = 0
    /\ EndReceive
    /\ UNCHANGED shared

\* A locator update is acknowledged to the first new locator on the interface
\* it came in on, and the session counts as active under that locator.
HandleUpdate ==
    /\ recv_pc = "dispatch"
    /\ pkt.kind = "update"
    /\ \/ CanSend(pkt.interface) /\ Touch(<<pkt.new_loc, pkt.src[2]>>)
       \/ SendRaises(pkt.interface) /\ UNCHANGED active_ilvs
    /\ EndReceive
    /\ UNCHANGED butSessions

\* An acknowledgement from a correspondent on the list, or from another one.
\* Before the first move ilvs_to_update is not defined: NameError is raised.
HandleAck ==
    /\ recv_pc = "dispatch"
    /\ pkt.kind = "ack"
    /\ \/ ilvs_to_update = None /\ EndReceive /\ UNCHANGED active_ilvs
       \/ /\ ilvs_to_update # None
          /\ IF pkt.src \in DOMAIN ilvs_to_update
             THEN RecvTo("strike") /\ UNCHANGED active_ilvs
             ELSE EndReceive /\ Touch(pkt.src)
    /\ UNCHANGED butSessions

\* The correspondent is struck off the list, unless a move has begun another
\* list in the meantime: then KeyError is raised.
StrikeOff ==
    /\ recv_pc = "strike"
    /\ ilvs_to_update' = Remove(ilvs_to_update, pkt.src)
    /\ IF pkt.src \in DOMAIN ilvs_to_update
       THEN Touch(pkt.src)
       ELSE UNCHANGED active_ilvs
    /\ EndReceive
    /\ UNCHANGED <<locs_joined, joined_mcast_grps, loc_to_interface>>

\* Anything else goes to the queue of its next header.
HandleData ==
    /\ recv_pc = "dispatch"
    /\ pkt.kind = "data"
    /\ Touch(pkt.src)
    /\ EndReceive
    /\ UNCHANGED butSessions

ReceiveThread ==
    /\ \/ \E p \in Packets : Receive(p)
       \/ Filter \/ LearnCheck \/ LearnRoute \/ Forward \/ ClearExpired
       \/ Discover \/ AnswerDone \/ RelayDone
       \/ \E loc \in Locators : Answer(loc) \/ Relay(loc)
       \/ HandleUpdate \/ HandleAck \/ StrikeOff \/ HandleData
    /\ UNCHANGED <<moveVars, appVars>>

-----------------------------------------------------------------------------
(***************************************************************************)
(* The application thread in network.send(loc, nid, ...)                   *)
(***************************************************************************)

\* interface = map_locator_to_interface(loc).  Without an interface there is
\* a NetworkException, which the applications handle.
AppLookUp(ilv) ==
    /\ app_pc = "idle"
    /\ \/ /\ Expired(ilv[1])
          /\ app_pc' = "clear"
          /\ app_interface' = None
       \/ /\ HasRoute(ilv[1]) /\ ~Expired(ilv[1])
          /\ app_pc' = "transmit"
          /\ app_interface' = MapToInterface(ilv[1])
    /\ app_ilv' = ilv
    /\ UNCHANGED shared

AppRest(pc) == app_pc' = pc /\ app_ilv' = None /\ app_interface' = None

AppClear ==
    /\ app_pc = "clear"
    /\ ClearRoute(app_ilv[1])
    /\ AppRest("idle")
    /\ UNCHANGED butRoutes

AppTransmit ==
    /\ app_pc = "transmit"
    /\ CanSend(app_interface)
    /\ Touch(app_ilv)
    /\ AppRest("idle")
    /\ UNCHANGED butSessions

\* link.send raises IOError, which no application catches: its main thread
\* ends, and the threads of the network layer carry on.
AppDies ==
    /\ app_pc = "transmit"
    /\ SendRaises(app_interface)
    /\ AppRest("dead")
    /\ UNCHANGED shared

AppThread ==
    /\ \/ \E ilv \in Sessions : AppLookUp(ilv)
       \/ AppClear \/ AppTransmit \/ AppDies
    /\ UNCHANGED <<moveVars, recvVars>>

-----------------------------------------------------------------------------
(***************************************************************************)
(* The passage of time                                                     *)
(***************************************************************************)
RouteExpires(loc) ==
    /\ RoutesAge
    /\ HasRoute(loc) /\ loc_to_interface[loc].timestamp = "fresh"
    /\ loc_to_interface' = [loc_to_interface EXCEPT ![loc].timestamp = "expired"]
    /\ UNCHANGED butRoutes

SessionExpires(ilv) ==
    /\ SessionsAge
    /\ ilv \in DOMAIN active_ilvs /\ active_ilvs[ilv] = "fresh"
    /\ active_ilvs' = [active_ilvs EXCEPT ![ilv] = "expired"]
    /\ UNCHANGED butSessions

Time ==
    /\ \/ \E loc \in Locators : RouteExpires(loc)
       \/ \E ilv \in Ilvs : SessionExpires(ilv)
    /\ UNCHANGED <<moveVars, recvVars, appVars>>

-----------------------------------------------------------------------------
Next == MoveThread \/ ReceiveThread \/ AppThread \/ Time

Spec == Init /\ [][Next]_vars

\* The move thread is scheduled, and its sleeps and waits have bounds.
FairSpec == Spec /\ WF_vars(MoveThread)

-----------------------------------------------------------------------------
(***************************************************************************)
(* Properties                                                              *)
(***************************************************************************)
MovePcs == {"sleep", "retargeted", "snapshot", "snapshot_expired", "join",
            "install", "update", "update_expired", "wait", "linger", "reset",
            "purge", "leave"}

RecvPcs == {"recv", "filter", "learn", "record", "dispatch", "clear",
            "answer", "relay", "strike"}

AppPcs == {"idle", "clear", "transmit", "dead"}

TypeOK ==
    /\ locs_joined = LocCycle[loc_cycle_index + 1]
    /\ joined_mcast_grps \subseteq Locators
    /\ IsDict(loc_to_interface, Locators, Route \cup {None})
    /\ IsDict(active_ilvs, Ilvs, {"fresh", "expired"})
    /\ \/ ilvs_to_update = None
       \/ IsDict(ilvs_to_update, Ilvs, Locators \cup {None})
    /\ move_pc \in MovePcs
    /\ loc_cycle_index \in 0 .. Len(LocCycle) - 1
    /\ old_locs_joined \subseteq Locators
    /\ loop_keys \subseteq Locators \cup Ilvs
    /\ todo \subseteq Locators \cup Ilvs
    /\ cursor \in Locators \cup Ilvs \cup {None}
    /\ tries \in 0 .. Retries
    /\ to_remove \subseteq Locators
    /\ recv_pc \in RecvPcs
    /\ pkt \in Packets \cup {None}
    /\ recv_todo \subseteq Locators
    /\ recv_loc \in Locators \cup {None}
    /\ app_pc \in AppPcs
    /\ app_ilv \in Ilvs \cup {None}
    /\ app_interface \in Locators \cup {None}

\* loc_to_interface[loc] is a mapping without a timestamp.
NonExpiring(loc) ==
    HasRoute(loc) /\ loc_to_interface[loc].timestamp = "never"

\* A mapping that never expires leads to the group of its own locator, and
\* that group is joined: however a move ends, and whatever the other threads
\* write to the table in the meantime, sending to it does not raise IOError.
PinnedRoutesJoined ==
    \A loc \in Locators :
        NonExpiring(loc) => /\ loc_to_interface[loc] = Pinned(loc)
                            /\ loc \in joined_mcast_grps

\* A move that reaches its end without an exception has switched the node
\* over: what it brings is joined, what it gives up is left, and none of the
\* mappings that never expire leads to a group that was given up.
HandoffComplete ==
    move_pc = "leave" /\ todo = {} =>
        /\ locs_joined \ old_locs_joined \subseteq joined_mcast_grps
        /\ (old_locs_joined \ locs_joined) \cap joined_mcast_grps = {}
        /\ \A loc \in old_locs_joined \ locs_joined : ~NonExpiring(loc)

\* The groups the node is attached to change as SoftHandoff allows: make
\* before break, also when exceptions cut moves short.
SH == INSTANCE SoftHandoff
         WITH attached <- joined_mcast_grps, leg <- loc_cycle_index,
              origin <- old_locs_joined, target <- locs_joined

ImplementsSoftHandoff == SH!Spec

\* The node is always attached to a group, if every move of the cycle brings
\* a locator that the entry before it does not have.
NeverIsolated == joined_mcast_grps # {}

\* A move always comes to an end: neither the loops over dictionaries that
\* other threads grow and shrink nor the retries can keep it going.
HandoffTerminates == move_pc # "sleep" ~> move_pc = "sleep"

\* The schedule of the README, "the cycle will then repeat": the groups of
\* each entry are joined again and again.
CycleRepeats ==
    \A i \in 1 .. Len(LocCycle) : []<>(LocCycle[i] \subseteq joined_mcast_grps)

\* The other half of the schedule: the groups of each entry are left again
\* and again, where no two entries have a locator in common.
LeavesRepeat ==
    \A i \in 1 .. Len(LocCycle) : []<>(LocCycle[i] \cap joined_mcast_grps = {})

=============================================================================
