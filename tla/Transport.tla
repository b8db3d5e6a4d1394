----------------------------- MODULE Transport -----------------------------
(***************************************************************************)
(* The way of a message from the network layer to an application: two      *)
(* queues, each with a condition variable that its producer notifies and   *)
(* its consumer waits on without looking at the queue again.               *)
(*                                                                         *)
(*   network.ReceiveThread    appends to the queue of the next header      *)
(*   transport.ReceiveThread  moves messages to the queues of the ports    *)
(*   one reader for each port: the application thread in Socket.receive    *)
(*                                                                         *)
(* A wait has no timeout, so it ends only with a notification that comes   *)
(* while the thread waits; a notification to nobody is lost.               *)
(***************************************************************************)
EXTENDS Integers, Sequences, Dicts, Lists

CONSTANTS
    Ports,          \* the ports of this node
    Blocking,       \* those whose socket has set_receive_block(True)
    MaxMessages     \* bound: how many messages the node receives in a run

ASSUME TransportAssumption ==
    /\ Blocking \subseteq Ports
    /\ MaxMessages \in Nat

VARIABLES
    net_queue,      \* network.in_queues[PROTOCOL_NEXT_HEADER]
    net_pc,         \* network.ReceiveThread
    received,       \* how many messages have come in so far
    transport_pc,   \* transport.ReceiveThread
    message,        \* the message it has in hand, or <<>>
    in_queues,      \* port -> queue, for the ports that are bound
    reader_pc       \* port -> where its application is

vars == <<net_queue, net_pc, received, transport_pc, message, in_queues,
          reader_pc>>

\* A message is its destination port and a number that tells it from others.
Message == Ports \X (1 .. MaxMessages)

Bound(p) == p \in DOMAIN in_queues

Init ==
    /\ net_queue = << >>
    /\ net_pc = "receive"
    /\ received = 0
    /\ transport_pc = "take"
    /\ message = << >>
    /\ in_queues = EmptyDict
    /\ reader_pc = [p \in Ports |-> "unbound"]

-----------------------------------------------------------------------------
(***************************************************************************)
(* network.ReceiveThread.run                                               *)
(***************************************************************************)

\* A data packet for the node: its tuple is appended to the queue.
NetAppend(p) ==
    /\ net_pc = "receive"
    /\ received < MaxMessages
    /\ received' = received + 1
    /\ net_queue' = Append(net_queue, <<p, received + 1>>)
    /\ net_pc' = "notify"
    /\ UNCHANGED <<transport_pc, message, in_queues, reader_pc>>

\* Mutant of NetNotify: nobody is notified.
NetNotifyNobody ==
    /\ net_pc = "notify"
    /\ net_pc' = "receive"
    /\ UNCHANGED <<net_queue, received, transport_pc, message, in_queues,
                   reader_pc>>

\* receive_cvs[next_header].notify()
NetNotify ==
    /\ net_pc = "notify"
    /\ net_pc' = "receive"
    /\ transport_pc' = IF transport_pc = "waiting" THEN "take" ELSE transport_pc
    /\ UNCHANGED <<net_queue, received, message, in_queues, reader_pc>>

-----------------------------------------------------------------------------
(***************************************************************************)
(* transport.ReceiveThread.run                                             *)
(***************************************************************************)

\* Mutant of Take: pop() for popleft().
TakeLast ==
    /\ transport_pc = "take"
    /\ net_queue # << >>
    /\ message' = net_queue[Len(net_queue)]
    /\ net_queue' = SubSeq(net_queue, 1, Len(net_queue) - 1)
    /\ transport_pc' = "deliver"
    /\ UNCHANGED <<net_pc, received, in_queues, reader_pc>>

\* network.receive(PROTOCOL_NEXT_HEADER) returns a message.
Take ==
    /\ transport_pc = "take"
    /\ net_queue # << >>
    /\ message' = Head(net_queue)
    /\ net_queue' = Tail(net_queue)
    /\ transport_pc' = "deliver"
    /\ UNCHANGED <<net_pc, received, in_queues, reader_pc>>

\* It raises IndexError or KeyError: there is nothing in the queue, or there
\* is no queue yet.
TakeRaises ==
    /\ transport_pc = "take"
    /\ net_queue = << >>
    /\ transport_pc' = "to_wait"
    /\ UNCHANGED <<net_queue, net_pc, received, message, in_queues, reader_pc>>

\* network.receive_cvs[PROTOCOL_NEXT_HEADER].wait(), whatever has been
\* appended since the exception.
TransportWait ==
    /\ transport_pc = "to_wait"
    /\ transport_pc' = "waiting"
    /\ UNCHANGED <<net_queue, net_pc, received, message, in_queues, reader_pc>>

\* Mutant of Deliver: without the test of the port, setdefault makes a queue
\* that no socket reads.
DeliverUnchecked ==
    /\ transport_pc = "deliver"
    /\ LET p == message[1]
           queue == IF Bound(p) THEN in_queues[p] ELSE << >>
       IN  in_queues' = Put(in_queues, p, Append(queue, message))
    /\ transport_pc' = "notify"
    /\ UNCHANGED <<net_queue, net_pc, received, message, reader_pc>>

\* The message goes to the queue of its port, or is dropped when no socket is
\* bound to the port.
Deliver ==
    /\ transport_pc = "deliver"
    /\ LET p == message[1] IN
       IF Bound(p)
       THEN /\ in_queues' = [in_queues EXCEPT ![p] = Append(@, message)]
            /\ transport_pc' = "notify"
            /\ UNCHANGED message
       ELSE /\ transport_pc' = "take"
            /\ message' = << >>
            /\ UNCHANGED in_queues
    /\ UNCHANGED <<net_queue, net_pc, received, reader_pc>>

\* receive_cvs[dst_port].notify(), when the socket is a blocking one.
TransportNotify ==
    /\ transport_pc = "notify"
    /\ transport_pc' = "take"
    /\ message' = << >>
    /\ LET p == message[1] IN
       reader_pc' = IF reader_pc[p] = "waiting"
                    THEN [reader_pc EXCEPT ![p] = "woken"]
                    ELSE reader_pc
    /\ UNCHANGED <<net_queue, net_pc, received, in_queues>>

TransportThread ==
    Take \/ TakeRaises \/ TransportWait \/ Deliver \/ TransportNotify
-----------------------------------------------------------------------------
(***************************************************************************)
(* Socket.bind and Socket.receive                                          *)
(***************************************************************************)
Bind(p) ==
    /\ reader_pc[p] = "unbound"
    /\ reader_pc' = [reader_pc EXCEPT ![p] = "ready"]
    /\ in_queues' = Put(in_queues, p, << >>)
    /\ UNCHANGED <<net_queue, net_pc, received, transport_pc, message>>

\* popleft() for the application that is at pc.
PopLeft(p, pc) ==
    /\ reader_pc[p] = pc
    /\ in_queues[p] # << >>
    /\ in_queues' = [in_queues EXCEPT ![p] = Tail(@)]
    /\ reader_pc' = [reader_pc EXCEPT ![p] = "ready"]
    /\ UNCHANGED <<net_queue, net_pc, received, transport_pc, message>>

\* len(self.in_queue) > 0
ReceiveAtOnce(p) == PopLeft(p, "ready")

\* Nothing there, and a condition variable to wait on.  Without one there is
\* a NetworkException, and the application tries again later.
ReceiveEmpty(p) ==
    /\ p \in Blocking
    /\ reader_pc[p] = "ready"
    /\ in_queues[p] = << >>
    /\ reader_pc' = [reader_pc EXCEPT ![p] = "to_wait"]
    /\ UNCHANGED <<net_queue, net_pc, received, transport_pc, message,
                   in_queues>>

\* self.receive_cv.wait()
ReceiveWait(p) ==
    /\ reader_pc[p] = "to_wait"
    /\ reader_pc' = [reader_pc EXCEPT ![p] = "waiting"]
    /\ UNCHANGED <<net_queue, net_pc, received, transport_pc, message,
                   in_queues>>

ReceiveWoken(p) == PopLeft(p, "woken")

\* The message of the notification has been taken already: IndexError, which
\* no application catches.
ReceiveRaises(p) ==
    /\ reader_pc[p] = "woken"
    /\ in_queues[p] = << >>
    /\ reader_pc' = [reader_pc EXCEPT ![p] = "dead"]
    /\ UNCHANGED <<net_queue, net_pc, received, transport_pc, message,
                   in_queues>>

Receive(p) ==
    \/ ReceiveAtOnce(p) \/ ReceiveEmpty(p) \/ ReceiveWait(p)
    \/ ReceiveWoken(p) \/ ReceiveRaises(p)

-----------------------------------------------------------------------------
Next ==
    \/ NetNotify
    \/ TransportThread
    \/ \E p \in Ports : NetAppend(p) \/ Bind(p) \/ Receive(p)

Spec == Init /\ [][Next]_vars

\* The threads are scheduled; packets need not come.
FairSpec ==
    /\ Spec
    /\ WF_vars(NetNotify)
    /\ WF_vars(TransportThread)
    /\ \A p \in Ports : WF_vars(Receive(p))

-----------------------------------------------------------------------------
(***************************************************************************)
(* Properties                                                              *)
(***************************************************************************)
TypeOK ==
    /\ net_queue \in Seq(Message)
    /\ net_pc \in {"receive", "notify"}
    /\ received \in 0 .. MaxMessages
    /\ transport_pc \in {"take", "to_wait", "waiting", "deliver", "notify"}
    /\ message \in Message \cup {<< >>}
    /\ (message # << >>) <=> (transport_pc \in {"deliver", "notify"})
    /\ IsDict(in_queues, Ports, Seq(Message))
    /\ reader_pc \in [Ports -> {"unbound", "ready", "to_wait", "waiting",
                                "woken", "dead"}]
    /\ \A p \in Ports : Bound(p) <=> reader_pc[p] # "unbound"

\* The messages for p between the network layer and the application.
OnTheWay(p) ==
    LET ForP == {p} \X (1 .. MaxMessages)
    IN  (IF Bound(p) THEN in_queues[p] ELSE << >>)
        \o (IF transport_pc = "deliver" /\ message \in ForP THEN <<message>>
            ELSE << >>)
        \o Selected(net_queue, ForP)

\* Whatever the threads do, each port gets its messages in the order of their
\* arrival and each of them once; only what arrives for a port without a
\* socket is dropped.
MB == INSTANCE Mailbox
         WITH Messages <- Message,
              mail <- [p \in Ports |-> OnTheWay(p)],
              bound <- {p \in Ports : Bound(p)}

ImplementsMailbox == MB!Spec

Drained(p) == IF Bound(p) THEN in_queues[p] = << >> ELSE TRUE

\* The thread that hands messages to the reader of p is about to notify it.
Notifies(p) ==
    IF transport_pc = "notify" THEN message[1] = p ELSE FALSE

\* A message may be held up because the notification for it came too early,
\* in the queue of the network layer and in that of its port; but the next
\* message to get there wakes the thread that waits, which then takes all that
\* has queued up.
NextMessageFlushes ==
    /\ transport_pc = "waiting" /\ net_pc = "notify" ~> net_queue = << >>
    /\ \A p \in Ports :
          reader_pc[p] = "waiting" /\ Notifies(p)
             ~> Drained(p)
=============================================================================
