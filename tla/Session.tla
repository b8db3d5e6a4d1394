------------------------------ MODULE Session ------------------------------
(***************************************************************************)
(* A session between a mobile node and a correspondent that stays where it *)
(* is: the locator updates of MoveThread.run, their acknowledgements and   *)
(* the advertisements of discovery, on a network that loses, delays and    *)
(* reorders all of them.                                                   *)
(*                                                                         *)
(* The correspondent sends to the first locator its table has for the      *)
(* mobile node.  It learns a new one by a locator update, which replaces   *)
(* what it has, or by an advertisement, which comes after what it has.     *)
(*                                                                         *)
(* The correspondent never forgets a locator it knows the mobile node by:  *)
(* gethostbyaddr, which would, ends its application in the same call.      *)
(***************************************************************************)
EXTENDS Integers, Sequences, SequencesExt

CONSTANTS
    LocCycle,       \* the locators the mobile node is at, one after the other
    Retries,        \* loc_update_retries
    MaxMoves,       \* bound: how often it moves
    None            \* Python's None

ASSUME SessionAssumption ==
    /\ Len(LocCycle) > 1
    /\ \A i \in 1 .. Len(LocCycle) : LocCycle[i] # None
    /\ Retries \in Nat
    /\ MaxMoves \in Nat

VARIABLES
    \* The mobile node.
    move,           \* how often it has moved
    phase,          \* "rest", or "handoff" while it is at two locators
    interface,      \* that of the snapshot in ilvs_to_update, or None
    pending,        \* whether the session is in ilvs_to_update
    tries,          \* how often the update has been sent in this move
    \* The correspondent.
    host_map,       \* its locators for the mobile node
    known,          \* the locators it knows the mobile node by
    \* The messages that may still arrive.
    net,
    \* What has happened, for the properties.
    heard,          \* the moves whose update the correspondent has acknowledged
    struck_by,      \* the move of the acknowledgement that ended the retries
    last_applied,   \* the move whose update was the last one to change host_map
    missed          \* whether its first entry has expired since then

node == <<move, phase, interface, pending, tries>>
peer == <<host_map, known>>
past == <<heard, struck_by, last_applied, missed>>
vars == <<node, peer, net, past>>

Locators == {LocCycle[i] : i \in 1 .. Len(LocCycle)}
Moves    == 0 .. MaxMoves

LocOf(m) == LocCycle[(m % Len(LocCycle)) + 1]

loc == LocOf(move)

\* The groups the mobile node has joined.
joined == {loc} \cup (IF phase = "handoff" THEN {LocOf(move - 1)} ELSE {})

Adv(l)       == [kind |-> "adv", src |-> l]
Update(l, m) == [kind |-> "update", src |-> l, move |-> m]
Ack(m)       == [kind |-> "ack", move |-> m]

Message == {Adv(l) : l \in Locators} \cup {Ack(m) : m \in Moves}
               \cup {Update(l, m) : l \in Locators, m \in Moves}

\* The correspondent has heard the mobile node and is in a session with it.
Init ==
    /\ move = 0 /\ phase = "rest"
    /\ interface = None /\ pending = FALSE /\ tries = 0
    /\ host_map = <<loc>> /\ known = {loc}
    /\ net = {}
    /\ heard = {} /\ struck_by = 0 /\ last_applied = 0 /\ missed = FALSE

-----------------------------------------------------------------------------
(***************************************************************************)
(* The mobile node                                                         *)
(***************************************************************************)

\* The snapshot has the interface that has been used so far, or None when its
\* route has expired; the new group is joined and advertised on.
BeginMove ==
    /\ phase = "rest"
    /\ move < MaxMoves
    /\ move' = move + 1
    /\ phase' = "handoff"
    /\ interface' \in {loc, None}
    /\ pending' = TRUE
    /\ tries' = 0
    /\ net' = net \cup {Adv(LocOf(move + 1))}
    /\ UNCHANGED <<peer, past>>

\* Mutant of SendUpdate: what is sent is taken for received.
SendUpdateOnce ==
    /\ phase = "handoff"
    /\ pending
    /\ tries' = tries + 1
    /\ \E l \in IF interface # None THEN {interface} ELSE joined :
          net' = net \cup {Update(l, move)}
    /\ pending' = FALSE
    /\ struck_by' = move
    /\ UNCHANGED <<move, phase, interface, peer, heard, last_applied, missed>>

\* The update leaves on the interface of the snapshot, or on the one the table
\* has for the correspondent by now.
SendUpdate ==
    /\ phase = "handoff"
    /\ pending
    /\ tries <= Retries
    /\ tries' = tries + 1
    /\ \E l \in IF interface # None THEN {interface} ELSE joined :
          net' = net \cup {Update(l, move)}
    /\ UNCHANGED <<move, phase, interface, pending, peer, past>>

\* handoff_time is over, and the old group is left.
EndHandoff ==
    /\ phase = "handoff"
    /\ pending => tries > Retries
    /\ phase' = "rest"
    /\ UNCHANGED <<move, interface, pending, tries, peer, net, past>>

\* An acknowledgement of any move strikes the session off.  It is addressed to
\* the locator the mobile node moved to then.
HandleAck(m) ==
    /\ Ack(m) \in net
    /\ net' = net \ {Ack(m)}
    /\ LocOf(m) \in joined
    /\ pending' = FALSE
    /\ struck_by' = IF pending THEN m ELSE struck_by
    /\ UNCHANGED <<move, phase, interface, tries, peer, heard, last_applied,
                   missed>>

\* The solicitations and advertisements of the discovery schedule.
Announce ==
    /\ net' = net \cup {Adv(loc)}
    /\ UNCHANGED <<node, peer, past>>

-----------------------------------------------------------------------------
(***************************************************************************)
(* The correspondent                                                       *)
(***************************************************************************)

\* Mutant of NewMap: the new locators come after the old ones.
NewMapAppended(l) == IF l \in Range(host_map) THEN host_map ELSE Append(host_map, l)

\* host_map[hst] = [(loc, nid, timestamp) for loc in new_locs]
NewMap(l) == <<l>>

\* discovery.locator_update.  The locators the node is known by stay what they
\* are: the entry of the old one is deleted and stored again.  The update is
\* acknowledged whether it has been applied or not.
HandleUpdate(l, m) ==
    /\ Update(l, m) \in net
    /\ net' = (net \ {Update(l, m)}) \cup {Ack(m)}
    /\ IF l \in known
       THEN /\ host_map' = NewMap(LocOf(m))
            /\ last_applied' = m
            /\ missed' = FALSE
       ELSE UNCHANGED <<host_map, last_applied, missed>>
    /\ heard' = heard \cup {m}
    /\ UNCHANGED <<node, known, struck_by>>

\* Mutant of Entered: an entry is appended without looking for it.
EnteredAgain(l) == Append(host_map, l)

\* Mutant of Entered: only entries that are there already are renewed.
RenewedOnly(l) == host_map

\* The table with an entry for l, at its end unless it is there already.
Entered(l) == IF l \in Range(host_map) THEN host_map ELSE Append(host_map, l)

\* discovery.process_message.
HandleAdv(l) ==
    /\ Adv(l) \in net
    /\ net' = net \ {Adv(l)}
    /\ known' = known \cup {l}
    /\ host_map' = Entered(l)
    /\ UNCHANGED <<node, past>>

\* discovery.getaddrinfo finds the ttl of an entry run out.  That may be one of a
\* locator where the mobile node is: the advertisements for it may have been lost,
\* and for the old one there are none any more in a handoff.
Expire(l) ==
    /\ \E i \in 1 .. Len(host_map) :
          /\ host_map[i] = l
          /\ host_map' = RemoveAt(host_map, i)
          /\ missed' = (missed \/ i = 1)
    /\ UNCHANGED <<node, known, net, heard, struck_by, last_applied>>

-----------------------------------------------------------------------------
Lose ==
    /\ \E msg \in net : net' = net \ {msg}
    /\ UNCHANGED <<node, peer, past>>

Next ==
    \/ BeginMove \/ SendUpdate \/ EndHandoff \/ Announce \/ Lose
    \/ \E m \in Moves : HandleAck(m)
    \/ \E l \in Locators : \/ HandleAdv(l) \/ Expire(l)
                           \/ \E m \in Moves : HandleUpdate(l, m)

Spec == Init /\ [][Next]_vars

\* A move ends, the schedule of discovery goes on, of the advertisements that are
\* sent again and again some are heard, and an entry that is not renewed expires.
\* So may one that is, for the advertisements that are heard may be far apart.
FairSpec ==
    /\ Spec
    /\ WF_vars(SendUpdate) /\ WF_vars(EndHandoff) /\ WF_vars(Announce)
    /\ SF_vars(HandleAdv(loc))
    /\ WF_vars(\E l \in Locators \ joined : Expire(l))

-----------------------------------------------------------------------------
(***************************************************************************)
(* Properties                                                              *)
(***************************************************************************)
\* The values of the variables; a table has no locator twice, though updates and
\* advertisements arrive in any order, and no update is sent more than once and
\* Retries times over in a move.
TypeOK ==
    /\ move \in Moves
    /\ phase \in {"rest", "handoff"} /\ (phase = "handoff" => move > 0)
    /\ interface \in Locators \cup {None}
    /\ pending \in BOOLEAN
    /\ tries \in 0 .. Retries + 1
    /\ host_map \in Seq(Locators)
    /\ \A i, j \in 1 .. Len(host_map) : host_map[i] = host_map[j] => i = j
    /\ known \subseteq Locators
    /\ net \subseteq Message
    /\ heard \subseteq Moves /\ struck_by \in Moves
    /\ last_applied \in Moves /\ missed \in BOOLEAN

\* Of which move the correspondent should have been told by now: it has the
\* time of a handoff for it.
Due == IF phase = "handoff" THEN move - 1 ELSE move

\* A node that told the correspondent in time of its last move can be reached
\* where the correspondent sends to, until the first entry is not renewed in
\* time: during a handoff at the old locator or at the new one, and after it at
\* the new one, whatever it missed of earlier moves, and whatever the
\* advertisements that overtake the updates put into the table.
Seamless ==
    last_applied >= Due /\ ~missed
        => host_map # << >> /\ Head(host_map) \in joined

\* The retries of a move end because an update was heard, though maybe ignored
\* as that of an unknown source; and when none of this move was, then because of
\* a late acknowledgement of an earlier one.
StruckExplained ==
    phase = "handoff" /\ ~pending =>
        /\ struck_by \in heard
        /\ move \in heard \/ struck_by < move

\* Whatever happened to the updates: when the mobile node does not move any more
\* the correspondent comes to send nowhere else, and finds it again and again,
\* although its entry may expire whenever advertisements are lost for a while.
Converges ==
    /\ <>[](Range(host_map) \subseteq {loc})
    /\ []<>(host_map = <<loc>>)
=============================================================================
