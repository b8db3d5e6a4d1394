----------------------------- MODULE Experiment ----------------------------
(***************************************************************************)
(* The experiment application: nodes that send each other numbered         *)
(* messages until their time is over, and then one with the number 0, at   *)
(* which its receiver ends as well.                                        *)
(*                                                                         *)
(* Time passes in ticks of wait_time, the pause between two messages.      *)
(***************************************************************************)
EXTENDS Integers, Sequences

CONSTANTS
    Nodes,
    Setups,         \* the configurations: node -> its application section
    None            \* Python's None

\* remote_hostname, whether a port is bound, and run_time in ticks.
Setup == [remote : Nodes \cup {None}, bound : BOOLEAN, run_time : Nat]

ASSUME ExperimentAssumption ==
    /\ None \notin Nodes /\ None \notin Int
    /\ Setups \subseteq [Nodes -> Setup]
    /\ \A s \in Setups, n \in Nodes : s[n].remote # n

VARIABLES
    setup,
    pc,                 \* node -> where its main thread is
    elapsed,            \* node -> the time since start, or None
    sequence_number,    \* node -> that of the last message received
    inbox,              \* node -> the queue of its port
    net,                \* the messages on their way
    final               \* node -> what has become of the 0 sent to it

vars == <<setup, pc, elapsed, sequence_number, inbox, net, final>>

\* All numbers other than 0 are alike.
Numbers == {0, 1}
Message == [to : Nodes, number : Numbers]

\* set_receive_block(remote == None)
Blocks(n) == setup[n].bound /\ setup[n].remote = None

\* A node without an application of its own, only there to forward packets.
Router(n) == ~setup[n].bound /\ setup[n].remote = None

\* The beginning of a pass.
LoopTop(n) == IF setup[n].remote = None THEN "receive" ELSE "send"

\* Mutant of NoNumber: the number of the last message is initially 0.
NumberZero == 0

NoNumber == None

Init ==
    /\ setup \in Setups
    /\ pc = [n \in Nodes |-> LoopTop(n)]
    /\ elapsed = [n \in Nodes |-> IF Router(n) THEN 0 ELSE None]
    /\ sequence_number = [n \in Nodes |-> NoNumber]
    /\ inbox = [n \in Nodes |-> << >>]
    /\ net = {}
    /\ final = [n \in Nodes |-> "none"]

-----------------------------------------------------------------------------
Goto(n, p) == pc' = [pc EXCEPT ![n] = p]

Start(n) == elapsed' = [elapsed EXCEPT ![n] = IF @ = None THEN 0 ELSE @]

\* A numbered message, and a pause, but not after the first one.
SendData(n) ==
    /\ pc[n] = "send"
    /\ net' = net \cup {[to |-> setup[n].remote, number |-> 1]}
    /\ Start(n)
    /\ Goto(n, IF elapsed[n] = None THEN "receive" ELSE "pause")
    /\ UNCHANGED <<setup, sequence_number, inbox, final>>

\* NetworkException: the remote is not known, or there is no interface to it.
SendFails(n) ==
    /\ pc[n] = "send"
    /\ Goto(n, "receive")
    /\ UNCHANGED <<setup, elapsed, sequence_number, inbox, net, final>>

\* An exception that is not handled ends the main thread: IOError of link.send,
\* NameError of gethostbyaddr, or IndexError of a receive that is woken for a
\* message taken already.
Die(n) ==
    /\ \/ pc[n] = "send"
       \/ (pc[n] = "receive" /\ inbox[n] # << >>)
       \/ (pc[n] = "wait" /\ elapsed[n] # None)
    /\ Goto(n, "dead")
    /\ UNCHANGED <<setup, elapsed, sequence_number, inbox, net, final>>

\* Messages are received until there is none left, or one with number 0.
ReceiveOne(n) ==
    /\ pc[n] = "receive"
    /\ inbox[n] # << >>
    /\ LET number == Head(inbox[n]) IN
       /\ sequence_number' = [sequence_number EXCEPT ![n] = number]
       /\ Goto(n, IF number = 0 THEN "check" ELSE "receive")
    /\ inbox' = [inbox EXCEPT ![n] = Tail(@)]
    /\ Start(n)
    /\ UNCHANGED <<setup, net, final>>

\* Mutant of ReceiveNothing: every socket with a port blocks.
ReceiveNothingBlocks(n) ==
    /\ pc[n] = "receive"
    /\ inbox[n] = << >>
    /\ Goto(n, IF setup[n].bound THEN "empty" ELSE "check")
    /\ UNCHANGED <<setup, elapsed, sequence_number, inbox, net, final>>

ReceiveNothing(n) ==
    /\ pc[n] = "receive"
    /\ inbox[n] = << >>
    /\ Goto(n, IF Blocks(n) THEN "empty" ELSE "check")
    /\ UNCHANGED <<setup, elapsed, sequence_number, inbox, net, final>>

\* The queue has been found empty: wait for a notification, which may have
\* come too early.
Wait(n) ==
    /\ pc[n] = "empty"
    /\ Goto(n, "wait")
    /\ UNCHANGED <<setup, elapsed, sequence_number, inbox, net, final>>

Over(n) == elapsed[n] # None /\ elapsed[n] > setup[n].run_time

\* Mutant of EndMark: the last message is numbered like the others.
EndMarkOne == 1

EndMark == 0

\* The time is over: the receiver is told, and the process exits.
Finish(n) ==
    /\ pc[n] = "check"
    /\ Over(n)
    /\ LET r == setup[n].remote IN
       IF r = None THEN UNCHANGED <<net, final>>
       ELSE /\ net' = net \cup {[to |-> r, number |-> EndMark]}
            /\ final' = [final EXCEPT ![r] = "sent"]
    /\ Goto(n, "done")
    /\ UNCHANGED <<setup, elapsed, sequence_number, inbox>>

\* Any exception in doing so is not handled.
FinishRaises(n) ==
    /\ pc[n] = "check"
    /\ Over(n)
    /\ setup[n].remote # None
    /\ Goto(n, "dead")
    /\ UNCHANGED <<setup, elapsed, sequence_number, inbox, net, final>>

\* The end of a pass: a number 0 has been received, or there is another one.
Continue(n) ==
    /\ pc[n] = "check"
    /\ ~Over(n)
    /\ Goto(n, IF sequence_number[n] = 0 THEN "done"
               ELSE IF Router(n) THEN "pause" ELSE LoopTop(n))
    /\ UNCHANGED <<setup, elapsed, sequence_number, inbox, net, final>>

App(n) ==
    \/ SendData(n) \/ SendFails(n)
    \/ ReceiveOne(n) \/ ReceiveNothing(n) \/ Wait(n)
    \/ Finish(n) \/ FinishRaises(n) \/ Continue(n)

-----------------------------------------------------------------------------
\* The transport layer appends a message to the queue of the port and notifies
\* who waits there.
Deliver(msg) ==
    /\ net' = net \ {msg}
    /\ inbox' = [inbox EXCEPT ![msg.to] = Append(@, msg.number)]
    /\ IF pc[msg.to] = "wait" THEN Goto(msg.to, "receive") ELSE UNCHANGED pc
    /\ final' = IF msg.number = 0 /\ pc[msg.to] = "empty"
                THEN [final EXCEPT ![msg.to] = "missed"] ELSE final
    /\ UNCHANGED <<setup, elapsed, sequence_number>>

Lose(msg) ==
    /\ net' = net \ {msg}
    /\ final' = IF msg.number = 0 THEN [final EXCEPT ![msg.to] = "lost"] ELSE final
    /\ UNCHANGED <<setup, pc, elapsed, sequence_number, inbox>>

Network ==
    \E msg \in net :
        \/ setup[msg.to].bound /\ pc[msg.to] # "done" /\ Deliver(msg)
        \/ Lose(msg)

\* The application has come to an end, of one kind or the other.
Ended(n) == pc[n] \in {"done", "dead"}

\* Handling what has arrived takes no time.  The clock stops at what is more
\* than run_time.
Tick ==
    /\ \A n \in Nodes : pc[n] = "receive" => inbox[n] = << >>
    /\ pc' = [n \in Nodes |-> IF pc[n] = "pause" THEN "receive" ELSE pc[n]]
    /\ elapsed' = [n \in Nodes |->
                      IF elapsed[n] = None \/ Over(n) \/ Ended(n)
                      THEN elapsed[n] ELSE elapsed[n] + 1]
    /\ UNCHANGED <<setup, sequence_number, inbox, net, final>>

Next == Network \/ Tick \/ \E n \in Nodes : App(n) \/ Die(n)

Spec == Init /\ [][Next]_vars

\* Every application is scheduled, the messages arrive or are lost, and time
\* goes on.
FairSpec ==
    /\ Spec
    /\ WF_vars(Network) /\ SF_vars(Tick)
    /\ \A n \in Nodes : WF_vars(App(n))

-----------------------------------------------------------------------------
(***************************************************************************)
(* Properties                                                              *)
(***************************************************************************)
Pcs == {"send", "receive", "pause", "empty", "wait", "check", "done", "dead"}

\* The values of the variables; only a receiver without a remote ever blocks, so
\* that a sender, which has a schedule to keep to, never waits for messages.
TypeOK ==
    /\ setup \in Setups
    /\ pc \in [Nodes -> Pcs]
    /\ \A n \in Nodes :
          /\ pc[n] = "send" => setup[n].remote # None
          /\ pc[n] \in {"empty", "wait"} => Blocks(n)
    /\ elapsed \in [Nodes -> Nat \cup {None}]
    /\ sequence_number \in [Nodes -> Numbers \cup {None}]
    /\ inbox \in [Nodes -> Seq(Numbers)]
    /\ net \subseteq Message
    /\ final \in [Nodes -> {"none", "sent", "lost", "missed"}]

\* An experiment does not end early: the process of a node exits only when its
\* own time is over, or that of a node that sends to it.
EndsForAReason ==
    \A n \in Nodes : pc[n] = "done" =>
        \/ Over(n)
        \/ \E m \in Nodes : /\ setup[m].remote = n
                            /\ pc[m] = "done" /\ Over(m)

\* A receiver that blocks is left waiting: by a 0 that is lost, or that comes
\* without a notification, or by a sender that has died or never sent.
LeftWaiting(n) ==
    /\ Blocks(n)
    /\ \/ final[n] \in {"lost", "missed"}
       \/ \E m \in Nodes : /\ setup[m].remote = n
                            /\ (pc[m] = "dead" \/ elapsed[m] = None)

\* Every application that has begun comes to an end, except for receivers that
\* are left waiting.
Terminates ==
    <>[](\A n \in Nodes : Ended(n) \/ elapsed[n] = None \/ LeftWaiting(n))
=============================================================================
