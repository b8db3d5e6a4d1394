------------------------------- MODULE Proxy -------------------------------
(***************************************************************************)
(* The UDP proxy, which lets programs that know nothing of ILNP use the    *)
(* overlay network.  proxy_create asks it to map a local port to a remote; *)
(* the program at that port then sends its datagrams to the proxy.         *)
(*                                                                         *)
(* Every run of proxy_create takes the same name, sock_client, from the    *)
(* one before it: the answers of the proxy go to whoever has it.           *)
(***************************************************************************)
EXTENDS Integers, Sequences, Dicts

CONSTANTS
    Clients,        \* runs of proxy_create, each for a program of its own
    Wanted,         \* client -> what it is run for: local port and remote
    Malformed,      \* those with arguments that are not three or no numbers
    None,
    MaxQueue        \* bound: datagrams of the programs in the buffer at a time

Ports   == {Wanted[c].port : c \in Clients}
Remotes == {Wanted[c].remote : c \in Clients}

ASSUME ProxyAssumption ==
    /\ None \notin Clients
    /\ Malformed \subseteq Clients
    /\ MaxQueue \in Nat

VARIABLES
    sock_client,    \* the client whose socket has the name, or None
    client_pc,      \* client -> where it is
    answers,        \* the clients with an answer in their buffers
    requests,       \* the buffer of unix_sock
    main_pc,        \* the main thread
    request,        \* the client whose request it works on, or None
    bound,          \* the ports in transport.in_queues
    proxy_map,      \* local port -> remote
    readers,        \* local port -> how many ReceiveThreads read it
    udp_buffer,     \* the datagrams at udp_sock, by the client they are from
    send_thread,    \* whether SendThread is alive
    relayed         \* the pairs of a client and where a datagram of it went

client == <<sock_client, client_pc>>
main   == <<request, bound, proxy_map>>
data   == <<udp_buffer, send_thread, relayed>>
vars   == <<client, answers, requests, main_pc, main, readers, data>>

Init ==
    /\ sock_client = None
    /\ client_pc = [c \in Clients |-> "start"]
    /\ answers = {}
    /\ requests = << >>
    /\ main_pc = "receive"
    /\ request = None
    /\ bound = {}
    /\ proxy_map = EmptyDict
    /\ readers = [p \in Ports |-> 0]
    /\ udp_buffer = << >>
    /\ send_thread = TRUE
    /\ relayed = {}

-----------------------------------------------------------------------------
(***************************************************************************)
(* proxy_create.py                                                         *)
(***************************************************************************)
ClientGoto(c, from, to) ==
    /\ client_pc[c] = from
    /\ client_pc' = [client_pc EXCEPT ![c] = to]
    /\ UNCHANGED <<main_pc, main, readers, data>>

\* os.remove, whoever has the name.
RemoveName(c) ==
    /\ ClientGoto(c, "start", "removed")
    /\ sock_client' = None
    /\ UNCHANGED <<answers, requests>>

BindName(c) ==
    /\ sock_client = None
    /\ ClientGoto(c, "removed", "bound")
    /\ sock_client' = c
    /\ UNCHANGED <<answers, requests>>

\* Another client was faster: OSError.
BindNameRaises(c) ==
    /\ sock_client # None
    /\ ClientGoto(c, "removed", "failed")
    /\ UNCHANGED <<sock_client, answers, requests>>

Ask(c) ==
    /\ ClientGoto(c, "bound", "asked")
    /\ requests' = Append(requests, c)
    /\ UNCHANGED <<sock_client, answers>>

\* Mutant of BeTold: the client does not wait for its answer.
BeToldAtOnce(c) ==
    /\ ClientGoto(c, "asked", "told")
    /\ UNCHANGED <<sock_client, answers, requests>>

\* The answer is printed and the process ends; its name stays behind.
BeTold(c) ==
    /\ c \in answers
    /\ ClientGoto(c, "asked", "told")
    /\ UNCHANGED <<sock_client, answers, requests>>

Client(c) ==
    RemoveName(c) \/ BindName(c) \/ BindNameRaises(c) \/ Ask(c) \/ BeTold(c)

-----------------------------------------------------------------------------
(***************************************************************************)
(* The main thread of the proxy                                            *)
(***************************************************************************)
MainGoto(from, to) ==
    /\ main_pc = from
    /\ main_pc' = to
    /\ UNCHANGED <<client, data>>

TakeRequest ==
    /\ requests # << >>
    /\ request' = Head(requests)
    /\ requests' = Tail(requests)
    /\ UNCHANGED <<answers, bound, proxy_map, readers>>

ReceiveRequest ==
    /\ TakeRequest
    /\ Head(requests) \notin Malformed
    /\ MainGoto("receive", "respond")

\* ValueError: the message does not split in three, or has no number where a port
\* should be.
ReceiveRaises ==
    /\ TakeRequest
    /\ Head(requests) \in Malformed
    /\ MainGoto("receive", "dead")

\* Whoever has the name is there to take an answer.
Listening == IF sock_client = None THEN FALSE
             ELSE client_pc[sock_client] \in {"bound", "asked"}

Respond ==
    /\ Listening
    /\ MainGoto("respond", "bind")
    /\ answers' = answers \cup {sock_client}
    /\ UNCHANGED <<requests, main, readers>>

\* sendto finds no socket of that name: OSError.
RespondRaises ==
    /\ ~Listening
    /\ MainGoto("respond", "dead")
    /\ UNCHANGED <<answers, requests, main, readers>>

Port == Wanted[request].port

\* Mutant of Bind: any port can be bound, again and again.
BindUnchecked ==
    /\ MainGoto("bind", "map")
    /\ bound' = bound \cup {Port}
    /\ UNCHANGED <<answers, requests, request, proxy_map, readers>>

\* bind and set_receive_block of a new socket.
Bind ==
    /\ MainGoto("bind", "map")
    /\ Port \notin bound
    /\ bound' = bound \cup {Port}
    /\ UNCHANGED <<answers, requests, request, proxy_map, readers>>

\* Mutant of BindRaises: the exception is caught, and the main thread goes on
\* with the next request.
BindRaisesCaught ==
    /\ MainGoto("bind", "receive")
    /\ Port \in bound
    /\ request' = None
    /\ UNCHANGED <<answers, requests, bound, proxy_map, readers>>

\* NetworkException: the port is bound already.
BindRaises ==
    /\ MainGoto("bind", "dead")
    /\ Port \in bound
    /\ UNCHANGED <<answers, requests, main, readers>>

\* Mutant of MapPort: the request is forgotten a step too early.
MapPortForgets ==
    /\ MainGoto("map", "start")
    /\ proxy_map' = Put(proxy_map, Port, Wanted[request].remote)
    /\ request' = None
    /\ UNCHANGED <<answers, requests, bound, readers>>

MapPort ==
    /\ MainGoto("map", "start")
    /\ proxy_map' = Put(proxy_map, Port, Wanted[request].remote)
    /\ UNCHANGED <<answers, requests, request, bound, readers>>

\* Mutant of StartReader: run() for start(), the main thread reads itself.
StartReaderRuns ==
    /\ MainGoto("start", "start")
    /\ readers' = [readers EXCEPT ![Port] = 1]
    /\ UNCHANGED <<answers, requests, main>>

StartReader ==
    /\ MainGoto("start", "receive")
    /\ readers' = [readers EXCEPT ![Port] = @ + 1]
    /\ request' = None
    /\ UNCHANGED <<answers, requests, bound, proxy_map>>

Main ==
    \/ ReceiveRequest \/ ReceiveRaises \/ Respond \/ RespondRaises
    \/ Bind \/ BindRaises \/ MapPort \/ StartReader

-----------------------------------------------------------------------------
(***************************************************************************)
(* SendThread and the ReceiveThreads                                       *)
(***************************************************************************)

\* The program of a client that has been told the port sends a datagram.
SendDatagram(c) ==
    /\ client_pc[c] = "told"
    /\ Len(udp_buffer) < MaxQueue
    /\ udp_buffer' = Append(udp_buffer, c)
    /\ UNCHANGED <<client, answers, requests, main_pc, main, readers, send_thread, relayed>>

\* SendThread takes a datagram.
TakeDatagram ==
    /\ send_thread
    /\ udp_buffer # << >>
    /\ udp_buffer' = Tail(udp_buffer)
    /\ UNCHANGED <<client, answers, requests, main_pc, main, readers>>

From == Wanted[Head(udp_buffer)].port

Relay ==
    /\ TakeDatagram
    /\ From \in DOMAIN proxy_map
    /\ relayed' = relayed \cup {<<Head(udp_buffer), proxy_map[From]>>}
    /\ UNCHANGED send_thread

\* KeyError, that the port is not mapped, or NetworkException, that the remote
\* is not known or there is no interface to it.
Drop ==
    /\ TakeDatagram
    /\ UNCHANGED <<send_thread, relayed>>

\* IOError of link.send is not handled.
RelayRaises ==
    /\ TakeDatagram
    /\ From \in DOMAIN proxy_map
    /\ send_thread' = FALSE
    /\ UNCHANGED relayed

\* A ReceiveThread ends with the IndexError of Socket.receive or the OSError of
\* sendto, which it does not expect.  The port stays bound.
ReaderDies(p) ==
    /\ readers[p] > 0
    /\ readers' = [readers EXCEPT ![p] = @ - 1]
    /\ UNCHANGED <<client, answers, requests, main_pc, main, data>>

Next ==
    \/ Main \/ Relay \/ Drop \/ RelayRaises
    \/ \E c \in Clients : Client(c) \/ SendDatagram(c)
    \/ \E p \in Ports : ReaderDies(p)

Spec == Init /\ [][Next]_vars

\* The main thread and the processes of proxy_create are scheduled.
FairSpec == Spec /\ WF_vars(Main) /\ \A c \in Clients : WF_vars(Client(c))

-----------------------------------------------------------------------------
(***************************************************************************)
(* Properties                                                              *)
(***************************************************************************)
TypeOK ==
    /\ sock_client \in Clients \cup {None}
    /\ client_pc \in [Clients ->
                         {"start", "removed", "bound", "asked", "told", "failed"}]
    /\ answers \subseteq Clients
    /\ requests \in Seq(Clients)
    /\ main_pc \in {"receive", "respond", "bind", "map", "start", "dead"}
    /\ request \in Clients \cup {None}
    /\ main_pc \in {"respond", "bind", "map", "start"} => request # None
    /\ bound \subseteq Ports
    /\ IsDict(proxy_map, Ports, Remotes)
    /\ readers \in [Ports -> Nat]
    /\ udp_buffer \in Seq(Clients)
    /\ send_thread \in BOOLEAN
    /\ relayed \subseteq Clients \X Remotes

Waits(c) == \E i \in 1 .. Len(requests) : requests[i] = c

\* The request of c is still to be carried out.
Pending(c) == Waits(c) \/ request = c

\* The answer comes before the mapping is made (line 80 and line 86), and perhaps
\* to another client than the one it is for.  A client that is told may have
\* to wait, and in vain when the main thread has died, but it is never forgotten:
\* its request is pending, or its port has the remote that it wanted.
ToldAreMapped ==
    \A c \in Clients : client_pc[c] = "told" =>
        \/ Pending(c)
        \/ /\ Wanted[c].port \in DOMAIN proxy_map
           /\ proxy_map[Wanted[c].port] = Wanted[c].remote

\* Two threads in Socket.receive of one port would take each other's messages: a
\* port has one reader at most, and none before it is mapped.
OneReader ==
    \A p \in Ports : readers[p] <= (IF p \in DOMAIN proxy_map THEN 1 ELSE 0)

\* Another client has taken the name before the answer was there.
Robbed(c) ==
    client_pc[c] \in {"bound", "asked"} /\ sock_client # c /\ c \notin answers

\* Two clients want the same port.
Rivals(c, d) == c # d /\ Wanted[c].port = Wanted[d].port

\* A datagram goes to the remote its client wants.  It goes to another one only
\* when the port is a rival's, by the answer to whose request the client knows
\* the proxy, and its own request is the death of the main thread.
RelayedAsWanted ==
    \A c \in Clients, r \in Remotes :
        <<c, r>> \in relayed /\ r # Wanted[c].remote =>
            /\ Pending(c)
            /\ \E d \in Clients : Rivals(c, d) /\ r = Wanted[d].remote

\* One client at a time, each with a port of its own, cannot do any harm if it asks
\* for something: the main thread dies only of a request it cannot read, of rivals,
\* or when one client takes the name of another.
MainSurvives ==
    main_pc = "dead" =>
        \/ request \in Malformed
        \/ \E c \in Clients : Robbed(c)
        \/ \E c, d \in Clients :
              Rivals(c, d) /\ {client_pc[c], client_pc[d]} \subseteq {"asked", "told"}

\* A client that has asked is told, unless the main thread dies or another client
\* has taken its name.
Answered ==
    \A c \in Clients :
        client_pc[c] = "asked" ~>
            client_pc[c] = "told" \/ main_pc = "dead" \/ Robbed(c)
=============================================================================
