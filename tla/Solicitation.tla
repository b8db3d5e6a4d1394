---------------------------- MODULE Solicitation ---------------------------
(***************************************************************************)
(* The discovery schedule: the solicitation threads of the nodes of a      *)
(* network, in discrete time.  A node that hears a solicitation answers    *)
(* it, and does not solicit itself for a while.  The answer names the      *)
(* locator the solicitation was heard on and no other one; what the others *)
(* know of a locator that is not named again for discovery.ttl runs out.   *)
(*                                                                         *)
(* Threads act in no time: the clock ticks when every solicitation thread  *)
(* sleeps, or retries in vain without sleeping.  The moves of a node are   *)
(* the steps of Handoff on the locators and the groups it has joined; a    *)
(* move may stop for good after any of them.                               *)
(***************************************************************************)
EXTENDS Integers, Sequences

CONSTANTS
    Nodes,
    Locators,
    LocCycle,       \* node -> loc_cycle
    wait_time       \* discovery.wait_time, in ticks

ASSUME SolicitationAssumption ==
    /\ LocCycle \in [Nodes -> Seq(SUBSET Locators)]
    /\ \A n \in Nodes : Len(LocCycle[n]) > 0
    /\ \A n \in Nodes : \A i \in 1 .. Len(LocCycle[n]) : LocCycle[n][i] # {}
    /\ wait_time \in Nat \ {0}

VARIABLES
    leg,                    \* node -> loc_cycle_index + 1
    joined,                 \* node -> link.joined_mcast_grps
    sol_pc,                 \* node -> "sleep" or "solicit"
    wake,                   \* node -> ticks until it wakes up
    sol_todo,               \* node -> the locators still to solicit on
    solititation_timestamp, \* node -> its age in ticks, up to Stale
    silent,                 \* node -> locator -> ticks since n has named it in
                            \* a discovery message, up to Long
    settled                 \* node -> ticks it has been at this entry of its
                            \* cycle with all groups joined, up to Long

vars == <<leg, joined, sol_pc, wake, sol_todo, solititation_timestamp, silent,
          settled>>

\* An age above wait_time; also that of the initial timestamp 0.
Stale == wait_time + 1

\* Where the counts for the properties end.
Long == 2 * wait_time + 1

\* The lifetime of what nodes learn from a discovery message.
ttl == 3 * wait_time

locs_joined(n) == LocCycle[n][leg[n]]

\* Sends on the locators of n do not raise.
Settled(n) == locs_joined(n) \subseteq joined[n]

\* Discovery messages have been sent: the pairs of a node and a locator it named.
Named(pairs) ==
    [n \in Nodes |-> [loc \in Locators |->
        IF <<n, loc>> \in pairs THEN 0 ELSE silent[n][loc]]]

Init ==
    /\ leg = [n \in Nodes |-> 1]
    /\ joined = [n \in Nodes |-> LocCycle[n][1]]
    /\ sol_pc = [n \in Nodes |-> "sleep"]
    /\ wake = [n \in Nodes |-> 0]
    /\ sol_todo = [n \in Nodes |-> {}]
    /\ solititation_timestamp = [n \in Nodes |-> Stale]
    /\ silent = [n \in Nodes |-> [loc \in Locators |-> Long]]
    /\ settled = [n \in Nodes |-> 0]

-----------------------------------------------------------------------------
(***************************************************************************)
(* SolititationThread.run                                                  *)
(***************************************************************************)

\* Mutant of Sleep: half as long again.
SleepLonger(n) ==
    \E t \in wait_time .. wait_time + wait_time \div 2 :
        wake' = [wake EXCEPT ![n] = t]

\* time.sleep, from wait_time / 2 to wait_time.
Sleep(n) ==
    \E t \in (wait_time + 1) \div 2 .. wait_time :
        wake' = [wake EXCEPT ![n] = t]

Due(n) == solititation_timestamp[n] > wait_time

Awake(n) == sol_pc[n] = "sleep" /\ wake[n] = 0

Begin(n) ==
    /\ Awake(n)
    /\ Due(n)
    /\ sol_pc' = [sol_pc EXCEPT ![n] = "solicit"]
    /\ sol_todo' = [sol_todo EXCEPT ![n] = locs_joined(n)]
    /\ UNCHANGED <<leg, joined, wake, solititation_timestamp, silent, settled>>

Skip(n) ==
    /\ Awake(n)
    /\ ~Due(n)
    /\ Sleep(n)
    /\ UNCHANGED <<leg, joined, sol_pc, sol_todo, solititation_timestamp, silent,
                   settled>>

\* A discovery message is taken in on the locators where a node is; those it is
\* leaving, it ignores.
Ears == {p \in Nodes \X Locators : p[2] \in locs_joined(p[1]) \cap joined[p[1]]}

\* Mutant of Answers: those who hear a solicitation do not answer it.
NoAnswers(heard) == {{}}

\* The answers to a solicitation that has been heard by these nodes on these
\* locators.  Each one is sent on all locators of the node, one after the other;
\* if one of these sends raises, it may have been sent on none before.
Answers(heard) ==
    {answered \in SUBSET heard :
        \A p \in heard : Settled(p[1]) => p \in answered}

\* A solicitation on one locator.  Routers pass it on, and it may get lost: any
\* node may hear it anywhere, also the one that has sent it, from a router.
Solicit(n, loc, heard) ==
    /\ sol_pc[n] = "solicit"
    /\ loc \in sol_todo[n] \cap joined[n]
    /\ sol_todo' = [sol_todo EXCEPT ![n] = @ \ {loc}]
    /\ solititation_timestamp' =
           [m \in Nodes |-> IF \E p \in heard : p[1] = m THEN 0
                            ELSE solititation_timestamp[m]]
    /\ \E answered \in Answers(heard) : silent' = Named(answered \cup {<<n, loc>>})
    /\ UNCHANGED <<leg, joined, sol_pc, wake, settled>>

\* link.send raises IOError: the loop ends, and there is no sleep before the
\* next one.
SolicitRaises(n) ==
    /\ sol_pc[n] = "solicit"
    /\ ~(sol_todo[n] \subseteq joined[n])
    /\ sol_pc' = [sol_pc EXCEPT ![n] = "sleep"]
    /\ sol_todo' = [sol_todo EXCEPT ![n] = {}]
    /\ UNCHANGED <<leg, joined, wake, solititation_timestamp, silent, settled>>

Done(n) ==
    /\ sol_pc[n] = "solicit"
    /\ sol_todo[n] = {}
    /\ sol_pc' = [sol_pc EXCEPT ![n] = "sleep"]
    /\ solititation_timestamp' = [solititation_timestamp EXCEPT ![n] = 0]
    /\ Sleep(n)
    /\ UNCHANGED <<leg, joined, sol_todo, silent, settled>>

-----------------------------------------------------------------------------
(***************************************************************************)
(* MoveThread.run                                                          *)
(***************************************************************************)
Retarget(n) ==
    /\ leg' = [leg EXCEPT ![n] = (@ % Len(LocCycle[n])) + 1]
    /\ settled' = [settled EXCEPT ![n] = 0]
    /\ UNCHANGED <<joined, sol_pc, wake, sol_todo, solititation_timestamp, silent>>

\* A new group is joined and advertised on.
Join(n, loc) ==
    /\ loc \in locs_joined(n) \ joined[n]
    /\ joined' = [joined EXCEPT ![n] = @ \cup {loc}]
    /\ silent' = Named({<<n, loc>>})
    /\ UNCHANGED <<leg, sol_pc, wake, sol_todo, solititation_timestamp, settled>>

Leave(n, loc) ==
    /\ Settled(n)
    /\ loc \in joined[n] \ locs_joined(n)
    /\ joined' = [joined EXCEPT ![n] = @ \ {loc}]
    /\ UNCHANGED <<leg, sol_pc, wake, sol_todo, solititation_timestamp, silent,
                   settled>>

-----------------------------------------------------------------------------
\* One tick more.
Count(age) == IF age < Long THEN age + 1 ELSE Long

\* A thread that is awake acts first, unless its sends raise.
Tick ==
    /\ \A n \in Nodes : Settled(n) => sol_pc[n] = "sleep" /\ wake[n] > 0
    /\ wake' = [n \in Nodes |-> IF wake[n] > 0 THEN wake[n] - 1 ELSE 0]
    /\ solititation_timestamp' =
           [n \in Nodes |-> IF solititation_timestamp[n] = Stale THEN Stale
                            ELSE solititation_timestamp[n] + 1]
    /\ silent' = [n \in Nodes |-> [loc \in Locators |-> Count(silent[n][loc])]]
    /\ settled' = [n \in Nodes |-> IF Settled(n) THEN Count(settled[n]) ELSE 0]
    /\ UNCHANGED <<leg, joined, sol_pc, sol_todo>>

SolititationThread(n) ==
    \/ Begin(n) \/ Skip(n) \/ SolicitRaises(n) \/ Done(n)
    \/ \E loc \in Locators, heard \in SUBSET Ears : Solicit(n, loc, heard)

MoveThread(n) ==
    \/ Retarget(n)
    \/ \E loc \in Locators : Join(n, loc) \/ Leave(n, loc)

Next == Tick \/ \E n \in Nodes : SolititationThread(n) \/ MoveThread(n)

Spec == Init /\ [][Next]_vars

-----------------------------------------------------------------------------
(***************************************************************************)
(* Properties                                                              *)
(***************************************************************************)
\* The values of the variables: no thread sleeps for longer than wait_time.
TypeOK ==
    /\ leg \in [Nodes -> Nat]
    /\ \A n \in Nodes : leg[n] \in 1 .. Len(LocCycle[n])
    /\ joined \in [Nodes -> SUBSET Locators]
    /\ sol_pc \in [Nodes -> {"sleep", "solicit"}]
    /\ wake \in [Nodes -> 0 .. wait_time]
    /\ sol_todo \in [Nodes -> SUBSET Locators]
    /\ solititation_timestamp \in [Nodes -> 0 .. Stale]
    /\ silent \in [Nodes -> [Locators -> 0 .. Long]]
    /\ settled \in [Nodes -> 0 .. Long]

\* A node that can send on all its locators is announced by one of them at least
\* every two wait_times, however often the solicitations of others keep it from
\* soliciting, and whatever it has missed while its sends raised: what the
\* others have for it then has a third wait_time left.  A node with a single
\* locator is always known by it.  One with several may be kept from soliciting
\* by what it hears on one of them, and is then not announced by the others.
AnnouncedInTime ==
    \A n \in Nodes : settled[n] = Long =>
        \E loc \in locs_joined(n) : silent[n][loc] <= ttl - wait_time
=============================================================================
