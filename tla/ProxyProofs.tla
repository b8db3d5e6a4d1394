---------------------------- MODULE ProxyProofs ----------------------------
(***************************************************************************)
(* Proofs about Proxy, for any clients and whatever they want.             *)
(***************************************************************************)
EXTENDS Proxy, TLAPS

Asked(c) == client_pc[c] \in {"asked", "told"}

\* The main thread takes a request.
Received == ReceiveRequest \/ ReceiveRaises

Mapped(c) ==
    /\ Wanted[c].port \in DOMAIN proxy_map
    /\ proxy_map[Wanted[c].port] = Wanted[c].remote

\* A client asks once, and before that there is no request of it.
Queue ==
    /\ \A c \in Clients : Pending(c) => Asked(c)
    /\ \A i, j \in 1 .. Len(requests) : requests[i] = requests[j] => i = j
    /\ \A c \in Clients : request = c => ~Waits(c)
    /\ main_pc = "receive" => request = None

\* What the main thread knows of the port at hand.
Tables ==
    /\ DOMAIN proxy_map \subseteq bound
    /\ main_pc = "map" => Port \in bound \ DOMAIN proxy_map
    /\ main_pc = "start" => Mapped(request) /\ readers[Port] = 0
    /\ OneReader

\* No client that has asked is forgotten.
Served == \A c \in Clients : Asked(c) => Pending(c) \/ Mapped(c)

\* A bound port is that of a client whose turn has come.
HadItsTurn(d) ==
    /\ Asked(d)
    /\ ~Waits(d)
    /\ request = d => main_pc \notin {"respond", "bind"}

Owned == \A p \in bound : \E d \in Clients : Wanted[d].port = p /\ HadItsTurn(d)

\* A mapping is what a client wanted, and stays.
Relays ==
    /\ \A p \in DOMAIN proxy_map : \E d \in Clients :
          Wanted[d].port = p /\ Wanted[d].remote = proxy_map[p]
    /\ \A i \in 1 .. Len(udp_buffer) : client_pc[udp_buffer[i]] = "told"
    /\ \A pair \in relayed :
          /\ client_pc[pair[1]] = "told"
          /\ Wanted[pair[1]].port \in DOMAIN proxy_map
          /\ proxy_map[Wanted[pair[1]].port] = pair[2]

SomeRobbed == \E c \in Clients : Robbed(c)

\* A client that has an answer before its turn has that of one it has robbed.
Unanswered(c) ==
    client_pc[c] = "bound" \/ Waits(c) \/ (request = c /\ main_pc = "respond")

EarlyRobs ==
    /\ \A c \in answers : client_pc[c] \in {"bound", "asked", "told"}
    /\ \A c \in Clients :
        (c \in answers \/ client_pc[c] = "told") /\ Unanswered(c) => SomeRobbed

Inv ==
    /\ TypeOK /\ Queue /\ Tables /\ Served /\ Owned /\ Relays
    /\ EarlyRobs /\ MainSurvives

-----------------------------------------------------------------------------
LEMMA WantedType ==
    ASSUME NEW c \in Clients
    PROVE  Wanted[c].port \in Ports /\ Wanted[c].remote \in Remotes
BY DEF Ports, Remotes

LEMMA InitInv == Init => Inv
<1> SUFFICES ASSUME Init PROVE Inv
  OBVIOUS
<1> USE ProxyAssumption DEF Init, EmptyDict
<1>1. TypeOK
  BY DEF TypeOK, IsDict
<1>2. \A c \in Clients : ~Pending(c) /\ ~Asked(c) /\ client_pc[c] # "bound"
  BY DEF Pending, Waits, Asked
<1>3. Queue /\ Tables /\ Served /\ Owned
  BY <1>2 DEF Queue, Tables, OneReader, Served, Owned
<1>4. Relays /\ EarlyRobs /\ MainSurvives
  BY <1>2 DEF Relays, EarlyRobs, Unanswered, Pending, MainSurvives
<1> QED
  BY <1>1, <1>3, <1>4 DEF Inv

\* The next-state relation by its actions.
LEMMA Steps ==
    ASSUME Next, NEW P,
           \A c \in Clients : RemoveName(c) => P,
           \A c \in Clients : BindName(c) => P,
           \A c \in Clients : BindNameRaises(c) => P,
           \A c \in Clients : Ask(c) => P,
           \A c \in Clients : BeTold(c) => P,
           Received => P, Respond => P, RespondRaises => P,
           Bind => P, BindRaises => P, MapPort => P, StartReader => P,
           \A c \in Clients : SendDatagram(c) => P,
           Relay => P, Drop => P, RelayRaises => P,
           \A p \in Ports : ReaderDies(p) => P
    PROVE  P
BY DEF Next, Client, Main, Received

-----------------------------------------------------------------------------
LEMMA TypeStep == TypeOK /\ [Next]_vars => TypeOK'
<1> SUFFICES ASSUME TypeOK, [Next]_vars PROVE TypeOK'
  OBVIOUS
<1> USE ProxyAssumption, WantedType DEF TypeOK
<1>1. CASE UNCHANGED vars
  BY <1>1 DEF vars, client, main, data
<1>2. CASE Next
  <2> USE DEF client, main, data, ClientGoto, MainGoto, IsDict
  <2>1. ASSUME NEW c \in Clients, RemoveName(c) PROVE TypeOK'
    BY <2>1 DEF RemoveName
  <2>2. ASSUME NEW c \in Clients, BindName(c) PROVE TypeOK'
    BY <2>2 DEF BindName
  <2>3. ASSUME NEW c \in Clients, BindNameRaises(c) PROVE TypeOK'
    BY <2>3 DEF BindNameRaises
  <2>4. ASSUME NEW c \in Clients, Ask(c) PROVE TypeOK'
    <3>1. Append(requests, c) \in Seq(Clients)
      OBVIOUS
    <3> QED
      BY <2>4, <3>1 DEF Ask
  <2>5. ASSUME NEW c \in Clients, BeTold(c) PROVE TypeOK'
    BY <2>5 DEF BeTold
  <2>6. ASSUME Received PROVE TypeOK'
    <3>1. Head(requests) \in Clients /\ Tail(requests) \in Seq(Clients)
      BY <2>6 DEF Received, ReceiveRequest, ReceiveRaises, TakeRequest
    <3> QED
      BY <2>6, <3>1 DEF Received, ReceiveRequest, ReceiveRaises, TakeRequest
  <2>7. ASSUME Respond PROVE TypeOK'
    BY <2>7 DEF Respond, Listening
  <2>8. ASSUME RespondRaises PROVE TypeOK'
    BY <2>8 DEF RespondRaises
  <2>9. ASSUME Bind PROVE TypeOK'
    BY <2>9 DEF Bind, Port
  <2>10. ASSUME BindRaises PROVE TypeOK'
    BY <2>10 DEF BindRaises
  <2>11. ASSUME MapPort PROVE TypeOK'
    <3>1. Port \in Ports /\ Wanted[request].remote \in Remotes
      BY <2>11 DEF MapPort, Port
    <3>2. IsDict(Put(proxy_map, Port, Wanted[request].remote), Ports, Remotes)
      BY <3>1 DEF Put
    <3> QED
      BY <2>11, <3>2 DEF MapPort
  <2>12. ASSUME StartReader PROVE TypeOK'
    <3>1. Port \in Ports
      BY <2>12 DEF StartReader, Port
    <3> QED
      BY <2>12, <3>1 DEF StartReader
  <2>13. ASSUME NEW c \in Clients, SendDatagram(c) PROVE TypeOK'
    <3>1. Append(udp_buffer, c) \in Seq(Clients)
      OBVIOUS
    <3> QED
      BY <2>13, <3>1 DEF SendDatagram
  <2>14. ASSUME TakeDatagram
         PROVE  /\ Head(udp_buffer) \in Clients
                /\ Tail(udp_buffer) \in Seq(Clients)
    BY <2>14 DEF TakeDatagram
  <2>15. ASSUME Relay PROVE TypeOK'
    <3>1. <<Head(udp_buffer), proxy_map[From]>> \in Clients \X Remotes
      BY <2>14, <2>15 DEF Relay, From
    <3> QED
      BY <2>14, <2>15, <3>1 DEF Relay, TakeDatagram
  <2>16. ASSUME Drop PROVE TypeOK'
    BY <2>14, <2>16 DEF Drop, TakeDatagram
  <2>17. ASSUME RelayRaises PROVE TypeOK'
    BY <2>14, <2>17 DEF RelayRaises, TakeDatagram
  <2>18. ASSUME NEW p \in Ports, ReaderDies(p) PROVE TypeOK'
    BY <2>18 DEF ReaderDies
  <2> QED
    BY <1>2, <2>1, <2>2, <2>3, <2>4, <2>5, <2>6, <2>7, <2>8, <2>9, <2>10, <2>11,
       <2>12, <2>13, <2>15, <2>16, <2>17, <2>18, Steps
<1> QED
  BY <1>1, <1>2

\* The types of the variables, for any clients.
THEOREM TypeCorrect == Spec => []TypeOK
<1>1. Init => TypeOK
  BY InitInv DEF Inv
<1> QED
  BY <1>1, TypeStep, PTL DEF Spec

-----------------------------------------------------------------------------
(***************************************************************************)
(* The queue of requests                                                   *)
(***************************************************************************)
LEMMA AskWaits ==
    ASSUME TypeOK, NEW c \in Clients, Ask(c), NEW x \in Clients
    PROVE  Waits(x)' <=> Waits(x) \/ x = c
<1>1. requests \in Seq(Clients) /\ requests' = Append(requests, c)
  BY DEF TypeOK, Ask
<1>2. /\ Len(requests') = Len(requests) + 1
      /\ Len(requests) \in Nat
      /\ \A i \in 1 .. Len(requests) : requests'[i] = requests[i]
      /\ requests'[Len(requests) + 1] = c
  BY <1>1
<1>3. \A i \in 1 .. Len(requests') : i \in 1 .. Len(requests) \/ i = Len(requests) + 1
  BY <1>2
<1>4. \A i \in 1 .. Len(requests) : i \in 1 .. Len(requests')
  BY <1>2
<1>5. Len(requests) + 1 \in 1 .. Len(requests')
  BY <1>2
<1> QED
  BY <1>2, <1>3, <1>4, <1>5 DEF Waits

LEMMA Taken ==
    ASSUME TypeOK, Received
    PROVE  /\ request' \in Clients /\ request' = requests[1]
           /\ Len(requests) \in Nat \ {0}
           /\ Len(requests') = Len(requests) - 1
           /\ \A i \in 1 .. Len(requests') : /\ i + 1 \in 1 .. Len(requests)
                                             /\ requests'[i] = requests[i + 1]
<1>1. /\ requests \in Seq(Clients) /\ requests # << >>
      /\ request' = Head(requests) /\ requests' = Tail(requests)
  BY DEF TypeOK, Received, ReceiveRequest, ReceiveRaises, TakeRequest
<1> QED
  BY <1>1

LEMMA ReceiveWaits ==
    ASSUME TypeOK, Received, NEW x \in Clients
    PROVE  Waits(x) <=> Waits(x)' \/ x = request'
<1>1. \A i \in 1 .. Len(requests) : i = 1 \/ (i - 1 \in 1 .. Len(requests')
                                            /\ requests'[i - 1] = requests[i])
  <2> TAKE i \in 1 .. Len(requests)
  <2>1. i = 1 \/ i - 1 \in 1 .. Len(requests')
    BY Taken
  <2>2. ASSUME i - 1 \in 1 .. Len(requests') PROVE requests'[i - 1] = requests[i]
    <3>1. (i - 1) + 1 = i
      OBVIOUS
    <3> QED
      BY <2>2, <3>1, Taken
  <2> QED
    BY <2>1, <2>2
<1>2. Waits(x) => Waits(x)' \/ x = request'
  BY <1>1, Taken DEF Waits
<1>3. Waits(x)' => Waits(x)
  BY Taken DEF Waits
<1>4. 1 \in 1 .. Len(requests)
  BY Taken
<1> QED
  BY <1>2, <1>3, <1>4, Taken DEF Waits

LEMMA QueueStep == TypeOK /\ Queue /\ [Next]_vars => Queue'
<1> SUFFICES ASSUME TypeOK, Queue, [Next]_vars PROVE Queue'
  OBVIOUS
<1> USE ProxyAssumption DEF Queue, Asked, Pending
<1>1. ASSUME UNCHANGED <<requests, request>>, main_pc' # "receive" \/ main_pc' = main_pc,
             \A c \in Clients : Asked(c) => Asked(c)'
      PROVE  Queue'
  BY <1>1 DEF Waits
<1>2. CASE UNCHANGED vars
  BY <1>1, <1>2 DEF vars, client, main
<1>3. CASE Next
  <2> USE DEF client, main, data, ClientGoto, MainGoto
  <2>1. ASSUME NEW c \in Clients, RemoveName(c) PROVE Queue'
    BY <1>1, <2>1 DEF RemoveName, TypeOK
  <2>2. ASSUME NEW c \in Clients, BindName(c) PROVE Queue'
    BY <1>1, <2>2 DEF BindName, TypeOK
  <2>3. ASSUME NEW c \in Clients, BindNameRaises(c) PROVE Queue'
    BY <1>1, <2>3 DEF BindNameRaises, TypeOK
  <2>4. ASSUME NEW c \in Clients, Ask(c) PROVE Queue'
    <3>1. ~Waits(c) /\ request # c
      BY <2>4 DEF Ask
    <3>2. /\ requests \in Seq(Clients)
          /\ client_pc' = [client_pc EXCEPT ![c] = "asked"]
          /\ requests' = Append(requests, c)
          /\ request' = request /\ main_pc' = main_pc
      BY <2>4 DEF Ask, TypeOK
    <3>3. \A x \in Clients : Asked(x)' <=> Asked(x) \/ x = c
      BY <3>2 DEF TypeOK
    <3>4. \A x \in Clients : Pending(x)' => Asked(x)'
      BY <2>4, <3>2, <3>3, AskWaits
    <3>5. \A i, j \in 1 .. Len(requests') : requests'[i] = requests'[j] => i = j
      <4> SUFFICES ASSUME NEW i \in 1 .. Len(requests'), NEW j \in 1 .. Len(requests'),
                          requests'[i] = requests'[j]
                   PROVE  i = j
        OBVIOUS
      <4>1. \A k \in 1 .. Len(requests) : requests'[k] = requests[k] /\ requests[k] # c
        BY <3>1, <3>2 DEF Waits
      <4>2. requests'[Len(requests) + 1] = c
        BY <3>2
      <4>3. /\ i \in 1 .. Len(requests) \/ i = Len(requests) + 1
            /\ j \in 1 .. Len(requests) \/ j = Len(requests) + 1
        BY <3>2
      <4> QED
        BY <4>1, <4>2, <4>3
    <3>6. \A x \in Clients : request' = x => ~Waits(x)'
      BY <2>4, <3>1, <3>2, AskWaits
    <3> QED
      BY <3>2, <3>4, <3>5, <3>6
  <2>5. ASSUME NEW c \in Clients, BeTold(c) PROVE Queue'
    BY <1>1, <2>5 DEF BeTold, TypeOK
  <2>6. ASSUME Received PROVE Queue'
    <3>1. main_pc' # "receive" /\ client_pc' = client_pc
      BY <2>6 DEF Received, ReceiveRequest, ReceiveRaises, TakeRequest
    <3>2. \A i, j \in 1 .. Len(requests') : requests'[i] = requests'[j] => i = j
      <4> SUFFICES ASSUME NEW i \in 1 .. Len(requests'), NEW j \in 1 .. Len(requests'),
                          requests'[i] = requests'[j]
                   PROVE  i = j
        OBVIOUS
      <4>1. i + 1 = j + 1
        BY <2>6, Taken
      <4> QED
        BY <4>1
    <3>3. ASSUME NEW x \in Clients, request' = x, Waits(x)' PROVE FALSE
      <4> PICK i \in 1 .. Len(requests') : requests'[i] = request'
        BY <3>3 DEF Waits
      <4>1. i + 1 = 1
        BY <2>6, Taken
      <4> QED
        BY <4>1
    <3>4. \A x \in Clients : Pending(x)' => Pending(x)
      BY <2>6, ReceiveWaits
    <3>5. \A x \in Clients : request' = x => ~Waits(x)'
      BY <3>3
    <3> QED
      BY <3>1, <3>2, <3>4, <3>5
  <2>7. ASSUME Respond \/ RespondRaises \/ Bind \/ BindRaises \/ MapPort PROVE Queue'
    BY <1>1, <2>7 DEF Respond, RespondRaises, Bind, BindRaises, MapPort
  <2>8. ASSUME StartReader PROVE Queue'
    <3>1. UNCHANGED <<client_pc, requests>> /\ request' = None
      BY <2>8 DEF StartReader
    <3> QED
      BY <3>1 DEF Waits
  <2>9. ASSUME NEW c \in Clients, SendDatagram(c) PROVE Queue'
    BY <1>1, <2>9 DEF SendDatagram
  <2>10. ASSUME Relay \/ Drop \/ RelayRaises PROVE Queue'
    BY <1>1, <2>10 DEF Relay, Drop, RelayRaises, TakeDatagram
  <2>11. ASSUME NEW p \in Ports, ReaderDies(p) PROVE Queue'
    BY <1>1, <2>11 DEF ReaderDies
  <2> QED
    BY <1>3, <2>1, <2>2, <2>3, <2>4, <2>5, <2>6, <2>7, <2>8, <2>9, <2>10, <2>11, Steps
<1> QED
  BY <1>2, <1>3

-----------------------------------------------------------------------------
(***************************************************************************)
(* The tables of the proxy                                                 *)
(***************************************************************************)
LEMMA TablesStep == TypeOK /\ Tables /\ [Next]_vars => Tables'
<1> SUFFICES ASSUME TypeOK, Tables, [Next]_vars PROVE Tables'
  OBVIOUS
<1> USE ProxyAssumption, WantedType DEF Tables, OneReader, Port, Mapped
<1>1. ASSUME UNCHANGED <<request, bound, proxy_map, readers>>,
             main_pc' \notin {"map", "start"} \/ main_pc' = main_pc
      PROVE  Tables'
  BY <1>1
<1>2. CASE UNCHANGED vars
  BY <1>1, <1>2 DEF vars, main
<1>3. CASE Next
  <2> USE DEF client, main, data, ClientGoto, MainGoto
  <2>1. ASSUME NEW c \in Clients,
               \/ RemoveName(c) \/ BindName(c) \/ BindNameRaises(c) \/ Ask(c)
               \/ BeTold(c) \/ SendDatagram(c)
        PROVE  Tables'
    BY <1>1, <2>1 DEF RemoveName, BindName, BindNameRaises, Ask, BeTold, SendDatagram
  <2>2. ASSUME Respond \/ RespondRaises \/ BindRaises PROVE Tables'
    BY <1>1, <2>2 DEF Respond, RespondRaises, BindRaises
  <2>3. ASSUME Received PROVE Tables'
    BY <2>3 DEF Received, ReceiveRequest, ReceiveRaises, TakeRequest
  <2>4. ASSUME Bind PROVE Tables'
    BY <2>4 DEF Bind
  <2>5. ASSUME MapPort PROVE Tables'
    <3>1. /\ main_pc' = "start"
          /\ proxy_map' = Put(proxy_map, Port, Wanted[request].remote)
          /\ UNCHANGED <<request, bound, readers>>
          /\ Port \in bound \ DOMAIN proxy_map
          /\ Port \in Ports
      BY <2>5 DEF MapPort, TypeOK
    <3>2. /\ DOMAIN proxy_map' = DOMAIN proxy_map \cup {Port}
          /\ proxy_map'[Port] = Wanted[request].remote
      BY <3>1 DEF Put
    <3>3. readers[Port] = 0
      BY <3>1 DEF TypeOK
    <3>4. Port' = Port /\ readers'[Port'] = 0
      BY <3>1, <3>3
    <3>5. OneReader'
      BY <3>1, <3>2, <3>3 DEF TypeOK
    <3>6. (DOMAIN proxy_map \subseteq bound)'
      BY <2>5, <3>1, <3>2 DEF TypeOK
    <3>7. Mapped(request)'
      BY <3>1, <3>2
    <3> QED
      BY <3>1, <3>4, <3>5, <3>6, <3>7
  <2>6. ASSUME StartReader PROVE Tables'
    BY <2>6 DEF StartReader, TypeOK
  <2>7. ASSUME Relay \/ Drop \/ RelayRaises PROVE Tables'
    BY <1>1, <2>7 DEF Relay, Drop, RelayRaises, TakeDatagram
  <2>8. ASSUME NEW p \in Ports, ReaderDies(p) PROVE Tables'
    BY <2>8 DEF ReaderDies, TypeOK
  <2> QED
    BY <1>3, <2>1, <2>2, <2>3, <2>4, <2>5, <2>6, <2>7, <2>8, Steps
<1> QED
  BY <1>2, <1>3

LEMMA MapGrows ==
    ASSUME TypeOK, Tables, [Next]_vars, NEW p \in DOMAIN proxy_map
    PROVE  p \in DOMAIN proxy_map' /\ proxy_map'[p] = proxy_map[p]
<1>1. MapPort \/ UNCHANGED proxy_map
  BY DEF Next, Client, Main, vars, client, main, data, ClientGoto, MainGoto,
         RemoveName, BindName, BindNameRaises, Ask, BeTold, SendDatagram,
         Received, ReceiveRequest, ReceiveRaises, TakeRequest,
         Respond, RespondRaises, Bind, BindRaises, StartReader,
         Relay, Drop, RelayRaises, TakeDatagram, ReaderDies
<1>2. ASSUME MapPort PROVE p # Port
  BY <1>2 DEF MapPort, MainGoto, Tables
<1> QED
  BY <1>1, <1>2 DEF MapPort, Put

LEMMA ServedStep == TypeOK /\ Queue /\ Tables /\ Served /\ [Next]_vars => Served'
<1> SUFFICES ASSUME TypeOK, Queue, Tables, Served, [Next]_vars,
                    NEW c \in Clients, Asked(c)', ~Pending(c)'
             PROVE  Mapped(c)'
  BY DEF Served
<1>1. Mapped(c) => Mapped(c)'
  BY MapGrows DEF Mapped
<1>2. ASSUME Asked(c), ~Pending(c) PROVE Mapped(c)'
  BY <1>1, <1>2 DEF Served
<1>3. ASSUME UNCHANGED <<requests, request>>, Asked(c)' => Asked(c) PROVE Mapped(c)'
  BY <1>2, <1>3 DEF Pending, Waits
<1>4. CASE UNCHANGED vars
  BY <1>3, <1>4 DEF vars, client, main, Asked
<1>5. CASE Next
  <2> USE DEF client, main, data, ClientGoto, MainGoto, Asked
  <2>1. ASSUME NEW x \in Clients,
               \/ RemoveName(x) \/ BindName(x) \/ BindNameRaises(x) \/ BeTold(x)
               \/ SendDatagram(x)
        PROVE  Mapped(c)'
    BY <1>3, <2>1
    DEF RemoveName, BindName, BindNameRaises, BeTold, SendDatagram, TypeOK
  <2>2. ASSUME NEW x \in Clients, Ask(x) PROVE Mapped(c)'
    <3>1. c # x /\ ~Waits(c)
      BY <2>2, AskWaits DEF Pending
    <3> QED
      BY <1>2, <2>2, <3>1 DEF Ask, Pending, TypeOK
  <2>3. ASSUME Received PROVE Mapped(c)'
    <3>1. ~Waits(c)
      BY <2>3, ReceiveWaits DEF Pending
    <3>2. request # c
      BY <2>3, ProxyAssumption
         DEF Received, ReceiveRequest, ReceiveRaises, TakeRequest, Queue
    <3> QED
      BY <1>2, <2>3, <3>1, <3>2
         DEF Received, ReceiveRequest, ReceiveRaises, TakeRequest, Pending
  <2>4. ASSUME StartReader PROVE Mapped(c)'
    <3>1. CASE request = c
      BY <1>1, <2>4, <3>1 DEF StartReader, Tables
    <3>2. CASE request # c
      BY <1>2, <2>4, <3>2 DEF StartReader, Pending, Waits
    <3> QED
      BY <3>1, <3>2
  <2>5. ASSUME Respond \/ RespondRaises \/ Bind \/ BindRaises \/ MapPort
        PROVE  Mapped(c)'
    BY <1>3, <2>5 DEF Respond, RespondRaises, Bind, BindRaises, MapPort
  <2>6. ASSUME Relay \/ Drop \/ RelayRaises PROVE Mapped(c)'
    BY <1>3, <2>6 DEF Relay, Drop, RelayRaises, TakeDatagram
  <2>7. ASSUME NEW p \in Ports, ReaderDies(p) PROVE Mapped(c)'
    BY <1>3, <2>7 DEF ReaderDies
  <2> QED
    BY <1>5, <2>1, <2>2, <2>3, <2>4, <2>5, <2>6, <2>7, Steps
<1> QED
  BY <1>4, <1>5

-----------------------------------------------------------------------------
(***************************************************************************)
(* The clients                                                             *)
(***************************************************************************)
LEMMA Stays ==
    ASSUME TypeOK, [Next]_vars, NEW c \in Clients
    PROVE  /\ client_pc[c] = "told" => client_pc'[c] = "told"
           /\ Asked(c) => Asked(c)'
           /\ Robbed(c) => Robbed(c)'
<1> DEFINE P == /\ client_pc[c] = "told" => client_pc'[c] = "told"
                /\ Asked(c) => Asked(c)'
                /\ Robbed(c) => Robbed(c)'
<1> USE ProxyAssumption DEF TypeOK, Asked, Robbed
<1>1. ASSUME UNCHANGED <<sock_client, client_pc, answers>> PROVE P
  BY <1>1
<1>2. CASE UNCHANGED vars
  BY <1>1, <1>2 DEF vars, client
<1>3. CASE Next
  <2> USE DEF client, main, data, ClientGoto, MainGoto
  <2>1. ASSUME NEW x \in Clients, RemoveName(x) \/ BindNameRaises(x) PROVE P
    BY <2>1 DEF RemoveName, BindNameRaises
  <2>2. ASSUME NEW x \in Clients, BindName(x) PROVE P
    BY <2>2 DEF BindName
  <2>3. ASSUME NEW x \in Clients, Ask(x) \/ BeTold(x) PROVE P
    BY <2>3 DEF Ask, BeTold
  <2>4. ASSUME Respond PROVE P
    BY <2>4 DEF Respond
  <2>5. ASSUME \/ Received \/ RespondRaises \/ Bind \/ BindRaises \/ MapPort
               \/ StartReader
        PROVE  P
    BY <1>1, <2>5
       DEF Received, ReceiveRequest, ReceiveRaises, TakeRequest, RespondRaises, Bind,
           BindRaises, MapPort, StartReader
  <2>6. ASSUME NEW x \in Clients, SendDatagram(x) PROVE P
    BY <1>1, <2>6 DEF SendDatagram
  <2>7. ASSUME Relay \/ Drop \/ RelayRaises PROVE P
    BY <1>1, <2>7 DEF Relay, Drop, RelayRaises, TakeDatagram
  <2>8. ASSUME NEW p \in Ports, ReaderDies(p) PROVE P
    BY <1>1, <2>8 DEF ReaderDies
  <2> HIDE DEF P
  <2>9. P
    BY <1>3, <2>1, <2>2, <2>3, <2>4, <2>5, <2>6, <2>7, <2>8, Steps
  <2> QED
    BY <2>9 DEF P
<1> QED
  BY <1>2, <1>3

LEMMA RobbedStays == TypeOK /\ [Next]_vars /\ SomeRobbed => SomeRobbed'
BY Stays DEF SomeRobbed

\* Of the steps, three say whose turn it is.
LEMMA Turns ==
    ASSUME TypeOK, [Next]_vars
    PROVE  \/ Received
           \/ \E x \in Clients : Ask(x)
           \/ StartReader
           \/ /\ UNCHANGED <<requests, request>>
              /\ \/ main_pc' = main_pc
                 \/ main_pc = "respond"
                 \/ main_pc' \notin {"respond", "bind"}
<1> DEFINE P == \/ Received
                \/ \E x \in Clients : Ask(x)
                \/ StartReader
                \/ /\ UNCHANGED <<requests, request>>
                   /\ \/ main_pc' = main_pc
                      \/ main_pc = "respond"
                      \/ main_pc' \notin {"respond", "bind"}
<1>1. CASE UNCHANGED vars
  BY <1>1 DEF vars, main
<1>2. CASE Next
  <2> USE DEF main, data, ClientGoto, MainGoto
  <2>1. \A x \in Clients : RemoveName(x) => P
    BY DEF RemoveName
  <2>2. \A x \in Clients : BindName(x) => P
    BY DEF BindName
  <2>3. \A x \in Clients : BindNameRaises(x) => P
    BY DEF BindNameRaises
  <2>4. \A x \in Clients : Ask(x) => P
    OBVIOUS
  <2>5. \A x \in Clients : BeTold(x) => P
    BY DEF BeTold
  <2>6. Respond \/ RespondRaises \/ Bind \/ BindRaises \/ MapPort => P
    BY DEF Respond, RespondRaises, Bind, BindRaises, MapPort
  <2>7. \A x \in Clients : SendDatagram(x) => P
    BY DEF SendDatagram
  <2>8. Relay \/ Drop \/ RelayRaises => P
    BY DEF Relay, Drop, RelayRaises, TakeDatagram
  <2>9. \A p \in Ports : ReaderDies(p) => P
    BY DEF ReaderDies
  <2>10. Received \/ StartReader => P
    OBVIOUS
  <2> HIDE DEF P
  <2>11. P
    BY <1>2, <2>1, <2>2, <2>3, <2>4, <2>5, <2>6, <2>7, <2>8, <2>9, <2>10, Steps
  <2> QED
    BY <2>11 DEF P
<1> QED
  BY <1>1, <1>2

LEMMA TurnStays ==
    ASSUME TypeOK, Queue, [Next]_vars, NEW d \in Clients, HadItsTurn(d)
    PROVE  HadItsTurn(d)'
<1> USE ProxyAssumption DEF HadItsTurn
<1>1. Asked(d)'
  BY Stays
<1>2. CASE Received
  BY <1>1, <1>2, ReceiveWaits
<1>3. ASSUME NEW x \in Clients, Ask(x) PROVE HadItsTurn(d)'
  <2>1. x # d
    BY <1>3 DEF Ask, ClientGoto, Asked
  <2> QED
    BY <1>1, <1>3, <2>1, AskWaits DEF Ask, ClientGoto, main
<1>4. CASE StartReader
  BY <1>1, <1>4 DEF StartReader, Waits
<1>5. ASSUME UNCHANGED <<requests, request>>,
             \/ main_pc' = main_pc
             \/ main_pc = "respond"
             \/ main_pc' \notin {"respond", "bind"}
      PROVE  HadItsTurn(d)'
  BY <1>1, <1>5 DEF Waits
<1> QED
  BY <1>2, <1>3, <1>4, <1>5, Turns

LEMMA OwnedStep == TypeOK /\ Queue /\ Owned /\ [Next]_vars => Owned'
<1> SUFFICES ASSUME TypeOK, Queue, Owned, [Next]_vars, NEW p \in bound'
             PROVE  \E d \in Clients : Wanted[d].port = p /\ HadItsTurn(d)'
  BY DEF Owned
<1>1. CASE p \in bound
  BY <1>1, TurnStays DEF Owned
<1>2. CASE p \notin bound
  <2>1. Bind
    BY <1>2 DEF Next, Client, Main, vars, client, main, data, ClientGoto, MainGoto,
         RemoveName, BindName, BindNameRaises, Ask, BeTold, SendDatagram,
         Received, ReceiveRequest, ReceiveRaises, TakeRequest,
         Respond, RespondRaises, BindRaises, MapPort, StartReader,
         Relay, Drop, RelayRaises, TakeDatagram, ReaderDies
  <2>2. request \in Clients /\ Wanted[request].port = p
    BY <1>2, <2>1 DEF Bind, MainGoto, TypeOK, Port
  <2>3. Asked(request) /\ ~Waits(request)
    BY <2>2 DEF Queue, Pending
  <2>4. HadItsTurn(request)'
    BY <2>1, <2>3 DEF Bind, MainGoto, client, HadItsTurn, Asked, Waits
  <2>5. request' = request
    BY <2>1 DEF Bind
  <2> QED
    BY <2>2, <2>4, <2>5
<1> QED
  BY <1>1, <1>2

LEMMA RelaysStep == TypeOK /\ Tables /\ Relays /\ [Next]_vars => Relays'
<1> SUFFICES ASSUME TypeOK, Tables, Relays, [Next]_vars PROVE Relays'
  OBVIOUS
<1> USE ProxyAssumption
<1>1. \A p \in DOMAIN proxy_map' : \E d \in Clients :
          Wanted[d].port = p /\ Wanted[d].remote = proxy_map'[p]
  <2> TAKE p \in DOMAIN proxy_map'
  <2>1. CASE p \in DOMAIN proxy_map
    BY <2>1, MapGrows DEF Relays
  <2>2. CASE p \notin DOMAIN proxy_map
    <3>1. MapPort
      BY <2>2 DEF Next, Client, Main, vars, client, main, data, ClientGoto, MainGoto,
         RemoveName, BindName, BindNameRaises, Ask, BeTold, SendDatagram,
         Received, ReceiveRequest, ReceiveRaises, TakeRequest,
         Respond, RespondRaises, Bind, BindRaises, StartReader,
         Relay, Drop, RelayRaises, TakeDatagram, ReaderDies
    <3>2. request \in Clients
      BY <3>1 DEF MapPort, MainGoto, TypeOK
    <3>3. p = Wanted[request].port /\ proxy_map'[p] = Wanted[request].remote
      BY <2>2, <3>1 DEF MapPort, Put, Port
    <3> QED
      BY <3>2, <3>3
  <2> QED
    BY <2>1, <2>2
<1>2. ASSUME NEW x \in Clients, SendDatagram(x) PROVE Relays'
  <2>1. /\ client_pc' = client_pc /\ relayed' = relayed /\ proxy_map' = proxy_map
        /\ client_pc[x] = "told"
        /\ udp_buffer \in Seq(Clients) /\ udp_buffer' = Append(udp_buffer, x)
    BY <1>2 DEF SendDatagram, client, main, TypeOK
  <2>2. \A i \in 1 .. Len(udp_buffer') :
           udp_buffer'[i] = x \/ (i \in 1 .. Len(udp_buffer) /\ udp_buffer'[i] = udp_buffer[i])
    BY <2>1
  <2> QED
    BY <1>1, <2>1, <2>2 DEF Relays
<1>3. ASSUME TakeDatagram
      PROVE  /\ UNCHANGED <<client_pc, proxy_map>>
             /\ client_pc[Head(udp_buffer)] = "told"
             /\ \A i \in 1 .. Len(udp_buffer') : client_pc[udp_buffer'[i]] = "told"
  <2>1. /\ udp_buffer \in Seq(Clients) /\ udp_buffer # << >>
        /\ udp_buffer' = Tail(udp_buffer)
    BY <1>3 DEF TakeDatagram, TypeOK
  <2>2. /\ 1 \in 1 .. Len(udp_buffer) /\ Head(udp_buffer) = udp_buffer[1]
        /\ \A i \in 1 .. Len(udp_buffer') :
              i + 1 \in 1 .. Len(udp_buffer) /\ udp_buffer'[i] = udp_buffer[i + 1]
    BY <2>1
  <2> QED
    BY <1>3, <2>2 DEF Relays, TakeDatagram, client, main
<1>4. ASSUME Relay PROVE Relays'
  <2>1. relayed' = relayed \cup {<<Head(udp_buffer), proxy_map[From]>>}
    BY <1>4 DEF Relay
  <2>2. From \in DOMAIN proxy_map /\ From = Wanted[Head(udp_buffer)].port
    BY <1>4 DEF Relay, From
  <2>3. TakeDatagram
    BY <1>4 DEF Relay
  <2> QED
    BY <1>1, <1>3, <2>1, <2>2, <2>3 DEF Relays
<1>5. ASSUME Drop \/ RelayRaises PROVE Relays'
  BY <1>1, <1>3, <1>5 DEF Relays, Drop, RelayRaises
<1>6. ASSUME UNCHANGED <<udp_buffer, relayed>> PROVE Relays'
  <2>1. \A i \in 1 .. Len(udp_buffer) : udp_buffer[i] \in Clients
    BY DEF TypeOK
  <2>2. \A pair \in relayed : pair[1] \in Clients
    BY DEF TypeOK
  <2> QED
    BY <1>1, <1>6, <2>1, <2>2, Stays, MapGrows DEF Relays
<1>7. \/ \E x \in Clients : SendDatagram(x)
      \/ Relay \/ Drop \/ RelayRaises
      \/ UNCHANGED <<udp_buffer, relayed>>
  BY DEF Next, Client, Main, vars, data, ClientGoto, MainGoto, RemoveName, BindName,
         BindNameRaises, Ask, BeTold, Received, ReceiveRequest, ReceiveRaises,
         TakeRequest, Respond, RespondRaises, Bind,
         BindRaises, MapPort, StartReader, ReaderDies
<1> QED
  BY <1>2, <1>4, <1>5, <1>6, <1>7

\* The client whose turn it is has its answer already, by robbing another one, or
\* has been robbed itself, unless it is the one that listens.
LEMMA AtTurn ==
    ASSUME TypeOK, Queue, EarlyRobs, main_pc = "respond", request # sock_client \/ ~Listening
    PROVE  SomeRobbed
<1>1. request \in Clients /\ Asked(request)
  BY DEF TypeOK, Queue, Pending
<1>2. CASE request \in answers \/ client_pc[request] = "told"
  BY <1>1, <1>2 DEF EarlyRobs, Unanswered
<1>3. CASE ~(request \in answers \/ client_pc[request] = "told")
  <2>1. client_pc[request] = "asked"
    BY <1>1, <1>3 DEF Asked
  <2>2. sock_client # request
    BY <1>1, <2>1, ProxyAssumption DEF Listening
  <2> QED
    BY <1>1, <1>3, <2>1, <2>2 DEF SomeRobbed, Robbed
<1> QED
  BY <1>2, <1>3

LEMMA EarlyStep == TypeOK /\ Queue /\ EarlyRobs /\ [Next]_vars => EarlyRobs'
<1> SUFFICES ASSUME TypeOK, Queue, EarlyRobs, [Next]_vars PROVE EarlyRobs'
  OBVIOUS
<1> DEFINE Early(c) == (c \in answers \/ client_pc[c] = "told") /\ Unanswered(c)
<1> USE ProxyAssumption DEF EarlyRobs, Unanswered
<1>1. ASSUME \A c \in answers' : client_pc'[c] \in {"bound", "asked", "told"},
             \A c \in Clients : Early(c)' => Early(c)
      PROVE  EarlyRobs'
  BY <1>1, RobbedStays
<1>2. ASSUME UNCHANGED <<client_pc, answers, requests, request>>,
             main_pc' = "respond" => main_pc = "respond"
      PROVE  EarlyRobs'
  BY <1>1, <1>2 DEF Waits
<1>3. CASE UNCHANGED vars
  BY <1>2, <1>3 DEF vars, client, main
<1>4. CASE Next
  <2> USE DEF client, main, data, ClientGoto, MainGoto, TypeOK
  <2>1. ASSUME NEW x \in Clients, RemoveName(x) \/ BindNameRaises(x) PROVE EarlyRobs'
    BY <1>1, <2>1 DEF RemoveName, BindNameRaises, Waits
  <2>2. ASSUME NEW x \in Clients, BindName(x) PROVE EarlyRobs'
    BY <1>1, <2>2 DEF BindName, Waits
  <2>3. ASSUME NEW x \in Clients, Ask(x) PROVE EarlyRobs'
    <3>1. \A c \in Clients : Early(c)' => Early(c)
      BY <2>3, AskWaits DEF Ask
    <3> QED
      BY <1>1, <2>3, <3>1 DEF Ask
  <2>4. ASSUME NEW x \in Clients, BeTold(x) PROVE EarlyRobs'
    BY <1>1, <2>4 DEF BeTold, Waits
  <2>5. ASSUME Received PROVE EarlyRobs'
    <3>1. \A c \in Clients : Early(c)' => Early(c)
      BY <2>5, ReceiveWaits DEF Received, ReceiveRequest, ReceiveRaises, TakeRequest
    <3> QED
      BY <1>1, <2>5, <3>1 DEF Received, ReceiveRequest, ReceiveRaises, TakeRequest
  <2>6. ASSUME Respond PROVE EarlyRobs'
    <3>1. /\ answers' = answers \cup {sock_client} /\ main_pc' = "bind"
          /\ UNCHANGED <<client_pc, requests, request>>
          /\ client_pc[sock_client] \in {"bound", "asked"} /\ main_pc = "respond"
      BY <2>6 DEF Respond, Listening
    <3>2. CASE request # sock_client
      BY <2>6, <3>1, <3>2, AtTurn, RobbedStays
    <3>3. CASE request = sock_client
      <4>1. ~Waits(request) /\ client_pc[request] # "bound"
        BY <3>1 DEF Queue, Pending, Asked
      <4>2. \A c \in Clients : Early(c)' => Early(c)
        BY <3>1, <3>3, <4>1 DEF Waits
      <4> QED
        BY <1>1, <3>1, <4>2
    <3> QED
      BY <3>2, <3>3
  <2>7. ASSUME RespondRaises \/ Bind \/ BindRaises \/ MapPort PROVE EarlyRobs'
    BY <1>2, <2>7 DEF RespondRaises, Bind, BindRaises, MapPort
  <2>8. ASSUME StartReader PROVE EarlyRobs'
    BY <1>1, <2>8 DEF StartReader, Waits
  <2>9. ASSUME NEW x \in Clients, SendDatagram(x) PROVE EarlyRobs'
    BY <1>2, <2>9 DEF SendDatagram
  <2>10. ASSUME Relay \/ Drop \/ RelayRaises PROVE EarlyRobs'
    BY <1>2, <2>10 DEF Relay, Drop, RelayRaises, TakeDatagram
  <2>11. ASSUME NEW p \in Ports, ReaderDies(p) PROVE EarlyRobs'
    BY <1>2, <2>11 DEF ReaderDies
  <2> QED
    BY <1>4, <2>1, <2>2, <2>3, <2>4, <2>5, <2>6, <2>7, <2>8, <2>9, <2>10, <2>11, Steps
<1> QED
  BY <1>3, <1>4

-----------------------------------------------------------------------------
LEMMA SurvivesStep ==
    TypeOK /\ Queue /\ Owned /\ EarlyRobs /\ MainSurvives /\ [Next]_vars => MainSurvives'
<1> SUFFICES ASSUME TypeOK, Queue, Owned, EarlyRobs, MainSurvives, [Next]_vars,
                    main_pc' = "dead"
             PROVE  \/ request' \in Malformed
                    \/ SomeRobbed'
                    \/ \E c, d \in Clients : Rivals(c, d) /\ Asked(c)' /\ Asked(d)'
  BY DEF MainSurvives, SomeRobbed, Asked
<1>1. CASE main_pc = "dead"
  <2>1. request' = request
    BY <1>1 DEF Next, Client, Main, vars, client, main, data, ClientGoto, MainGoto,
         RemoveName, BindName, BindNameRaises, Ask, BeTold, SendDatagram,
         ReceiveRequest, ReceiveRaises, Respond, RespondRaises, Bind, BindRaises,
         MapPort, StartReader, Relay, Drop, RelayRaises, TakeDatagram, ReaderDies
  <2>2. \/ request \in Malformed
        \/ SomeRobbed
        \/ \E c, d \in Clients : Rivals(c, d) /\ Asked(c) /\ Asked(d)
    BY <1>1 DEF MainSurvives, SomeRobbed, Asked
  <2> QED
    BY <2>1, <2>2, RobbedStays, Stays
<1>2. CASE RespondRaises
  <2>1. main_pc = "respond" /\ ~Listening
    BY <1>2 DEF RespondRaises, MainGoto
  <2> QED
    BY <2>1, AtTurn, RobbedStays
<1>3. CASE BindRaises
  <2>1. main_pc = "bind" /\ Port \in bound /\ request \in Clients
    BY <1>3 DEF BindRaises, MainGoto, TypeOK
  <2>2. PICK d \in Clients : Wanted[d].port = Port /\ HadItsTurn(d)
    BY <2>1 DEF Owned
  <2>3. Rivals(request, d) /\ Asked(d)
    BY <2>1, <2>2 DEF Rivals, HadItsTurn, Port
  <2>4. Asked(request)
    BY <2>1 DEF Queue, Pending
  <2> QED
    BY <2>1, <2>3, <2>4, Stays
<1>4. CASE ReceiveRaises
  BY <1>4 DEF ReceiveRaises, TakeRequest
<1>5. main_pc = "dead" \/ RespondRaises \/ BindRaises \/ ReceiveRaises
  BY DEF Next, Client, Main, vars, client, main, data, ClientGoto, MainGoto,
         RemoveName, BindName, BindNameRaises, Ask, BeTold, SendDatagram,
         ReceiveRequest, Respond, Bind, MapPort, StartReader,
         Relay, Drop, RelayRaises, TakeDatagram, ReaderDies
<1> QED
  BY <1>1, <1>2, <1>3, <1>4, <1>5

LEMMA Invariance == Spec => []Inv
<1>1. Inv /\ [Next]_vars => Inv'
  BY TypeStep, QueueStep, TablesStep, ServedStep, OwnedStep, RelaysStep, EarlyStep,
     SurvivesStep DEF Inv
<1> QED
  BY InitInv, <1>1, PTL DEF Spec

\* A client that has been told the port of the proxy has its mapping, or its
\* request is still there.
THEOREM ToldMapped == Spec => []ToldAreMapped
<1>1. Inv => ToldAreMapped
  BY DEF Inv, Served, Asked, Mapped, ToldAreMapped
<1> QED
  BY Invariance, <1>1, PTL

\* The messages to a port are read by one thread.
THEOREM ReadByOne == Spec => []OneReader
<1>1. Inv => OneReader
  BY DEF Inv, Tables
<1> QED
  BY Invariance, <1>1, PTL

\* Datagrams go where their clients want, but for those of a rival.
THEOREM Relayed == Spec => []RelayedAsWanted
<1>1. Inv => RelayedAsWanted
  <2> SUFFICES ASSUME Inv, NEW c \in Clients, NEW r \in Remotes,
                      <<c, r>> \in relayed, r # Wanted[c].remote
               PROVE  /\ Pending(c)
                      /\ \E d \in Clients : Rivals(c, d) /\ r = Wanted[d].remote
    BY DEF RelayedAsWanted
  <2>1. /\ client_pc[c] = "told"
        /\ Wanted[c].port \in DOMAIN proxy_map
        /\ proxy_map[Wanted[c].port] = r
    BY DEF Inv, Relays
  <2>2. Pending(c)
    BY <2>1 DEF Inv, Served, Asked, Mapped
  <2>3. PICK d \in Clients : Wanted[d].port = Wanted[c].port /\ Wanted[d].remote = r
    BY <2>1 DEF Inv, Relays
  <2> QED
    BY <2>2, <2>3 DEF Rivals
<1> QED
  BY Invariance, <1>1, PTL

\* Clients that can be understood, and compete neither for a port nor for the name,
\* never end the main thread of the proxy.
THEOREM Survives == Spec => []MainSurvives
<1>1. Inv => MainSurvives
  BY DEF Inv
<1> QED
  BY Invariance, <1>1, PTL
=============================================================================
