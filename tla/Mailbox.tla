------------------------------ MODULE Mailbox ------------------------------
(***************************************************************************)
(* What the transport layer promises the applications of a node: for each  *)
(* port, the messages that reach the node are handed over in the order of  *)
(* their arrival, each of them once.  Only messages for a port that no     *)
(* socket is bound to are lost.                                            *)
(***************************************************************************)
EXTENDS Sequences

CONSTANTS Ports, Messages

VARIABLES
    mail,       \* port -> the messages on their way to its application
    bound       \* the ports a socket is bound to

vars == <<mail, bound>>

Init ==
    /\ mail = [p \in Ports |-> << >>]
    /\ bound = {}

Bind(p) ==
    /\ p \notin bound
    /\ bound' = bound \cup {p}
    /\ UNCHANGED mail

Post(p, m) ==
    /\ mail' = [mail EXCEPT ![p] = Append(@, m)]
    /\ UNCHANGED bound

Fetch(p) ==
    /\ p \in bound
    /\ mail[p] # << >>
    /\ mail' = [mail EXCEPT ![p] = Tail(@)]
    /\ UNCHANGED bound

Discard(p) ==
    /\ p \notin bound
    /\ mail[p] # << >>
    /\ mail' = [mail EXCEPT ![p] = Tail(@)]
    /\ UNCHANGED bound

Next ==
    \E p \in Ports :
        \/ Bind(p) \/ Fetch(p) \/ Discard(p)
        \/ \E m \in Messages : Post(p, m)

Spec == Init /\ [][Next]_vars
=============================================================================
