-------------------------- MODULE TransportProofs --------------------------
(***************************************************************************)
(* Proofs about Transport, for any ports and any number of messages.       *)
(*                                                                         *)
(* That they are handed over in order is stated twice: by the numbers of   *)
(* their arrival, and by the refinement of Mailbox, which rests on the     *)
(* laws of the selection of the messages for a port.                       *)
(***************************************************************************)
EXTENDS Transport, WellFoundedInduction, SequenceTheorems, TLAPS

-----------------------------------------------------------------------------
LEMMA NoMessage == << >> \notin Message
<1> SUFFICES ASSUME NEW p \in Ports, NEW n \in 1 .. MaxMessages, <<p, n>> = << >>
             PROVE  FALSE
  BY DEF Message
<1>1. Len(<<p, n>>) = 2 /\ Len(<< >>) = 0
  OBVIOUS
<1> QED
  BY <1>1

LEMMA InitType == Init => TypeOK
BY TransportAssumption DEF Init, TypeOK, IsDict, EmptyDict, Bound

\* The next-state relation by its actions.
LEMMA Steps ==
    ASSUME Next, NEW P,
           \A p \in Ports : NetAppend(p) => P,
           NetNotify => P, Take => P, TakeRaises => P, TransportWait => P,
           Deliver => P, TransportNotify => P,
           \A p \in Ports : Bind(p) => P,
           \A p \in Ports : ReceiveAtOnce(p) => P,
           \A p \in Ports : ReceiveEmpty(p) => P,
           \A p \in Ports : ReceiveWait(p) => P,
           \A p \in Ports : ReceiveWoken(p) => P,
           \A p \in Ports : ReceiveRaises(p) => P
    PROVE  P
BY DEF Next, TransportThread, Receive

LEMMA PopType ==
    ASSUME TypeOK, NEW p \in Ports, NEW pc, pc # "unbound", PopLeft(p, pc)
    PROVE  TypeOK'
<1> USE TransportAssumption DEF TypeOK, PopLeft, IsDict, Bound
<1>1. p \in DOMAIN in_queues /\ in_queues[p] \in Seq(Message) /\ in_queues[p] # << >>
  OBVIOUS
<1>2. Tail(in_queues[p]) \in Seq(Message)
  BY <1>1
<1>3. IsDict(in_queues', Ports, Seq(Message)) /\ DOMAIN in_queues' = DOMAIN in_queues
  BY <1>1, <1>2
<1> QED
  BY <1>1, <1>3

LEMMA TypeStep == TypeOK /\ [Next]_vars => TypeOK'
<1> SUFFICES ASSUME TypeOK, [Next]_vars PROVE TypeOK'
  OBVIOUS
<1> USE TransportAssumption DEF TypeOK, IsDict, Bound
<1>1. CASE UNCHANGED vars
  BY <1>1 DEF vars
<1>2. CASE Next
  <2>1. ASSUME NEW p \in Ports, NetAppend(p) PROVE TypeOK'
    <3>1. <<p, received + 1>> \in Message
      BY <2>1 DEF NetAppend, Message
    <3>2. Append(net_queue, <<p, received + 1>>) \in Seq(Message)
      BY <3>1
    <3> QED
      BY <2>1, <3>2 DEF NetAppend
  <2>2. ASSUME NetNotify PROVE TypeOK'
    BY <2>2 DEF NetNotify
  <2>3. ASSUME Take PROVE TypeOK'
    <3>1. Head(net_queue) \in Message /\ Tail(net_queue) \in Seq(Message)
      BY <2>3 DEF Take
    <3>2. Head(net_queue) # << >>
      BY <3>1, NoMessage
    <3> QED
      BY <2>3, <3>1, <3>2 DEF Take
  <2>4. ASSUME TakeRaises PROVE TypeOK'
    BY <2>4 DEF TakeRaises
  <2>5. ASSUME TransportWait PROVE TypeOK'
    BY <2>5 DEF TransportWait
  <2>6. ASSUME Deliver PROVE TypeOK'
    <3>1. message \in Message /\ message # << >> /\ message[1] \in Ports
      BY <2>6 DEF Deliver, Message
    <3>2. CASE Bound(message[1])
      <4>1. Append(in_queues[message[1]], message) \in Seq(Message)
        BY <3>1, <3>2
      <4>2. /\ in_queues' = [in_queues EXCEPT ![message[1]] =
                                Append(in_queues[message[1]], message)]
            /\ transport_pc' = "notify" /\ message' = message
            /\ UNCHANGED <<net_queue, net_pc, received, reader_pc>>
        BY <2>6, <3>2 DEF Deliver
      <4> QED
        BY <3>1, <4>1, <4>2
    <3>3. CASE ~Bound(message[1])
      BY <2>6, <3>3 DEF Deliver
    <3> QED
      BY <3>2, <3>3
  <2>7. ASSUME TransportNotify PROVE TypeOK'
    BY <2>7 DEF TransportNotify, Message
  <2>8. ASSUME NEW p \in Ports, Bind(p) PROVE TypeOK'
    BY <2>8 DEF Bind, Put
  <2>9. ASSUME NEW p \in Ports, ReceiveAtOnce(p) \/ ReceiveWoken(p) PROVE TypeOK'
    <3>1. PICK pc \in {"ready", "woken"} : PopLeft(p, pc)
      BY <2>9 DEF ReceiveAtOnce, ReceiveWoken
    <3> QED
      BY <3>1, PopType
  <2>10. ASSUME NEW p \in Ports, ReceiveEmpty(p) \/ ReceiveWait(p) \/ ReceiveRaises(p)
         PROVE  TypeOK'
    BY <2>10 DEF ReceiveEmpty, ReceiveWait, ReceiveRaises
  <2> QED
    BY <1>2, <2>1, <2>2, <2>3, <2>4, <2>5, <2>6, <2>7, <2>8, <2>9, <2>10, Steps
<1> QED
  BY <1>1, <1>2

\* The types of the queues and of the threads, for any ports and messages.
THEOREM TypeCorrect == Spec => []TypeOK
BY InitType, TypeStep, PTL DEF Spec

-----------------------------------------------------------------------------
(***************************************************************************)
(* Order                                                                   *)
(***************************************************************************)
Elements(s) == {s[i] : i \in 1 .. Len(s)}

Ascends(s) == \A i, j \in 1 .. Len(s) : i < j => s[i][2] < s[j][2]

\* Messages after m on its way are later ones.
Before(m, s) == \A x \in Elements(s) : m[2] < x[2]

InHand == IF transport_pc = "deliver" THEN <<message>> ELSE << >>

\* The messages for each port are in the order of their arrival, from the head
\* of its queue to the last one that has come in.
InOrder ==
    /\ Ascends(net_queue)
    /\ \A x \in Elements(net_queue) : x[2] <= received
    /\ transport_pc = "deliver" => /\ Before(message, net_queue)
                                   /\ message[2] <= received
    /\ \A p \in DOMAIN in_queues :
          /\ Ascends(in_queues[p])
          /\ \A x \in Elements(in_queues[p]) :
                /\ x[1] = p /\ x[2] <= received
                /\ Before(x, net_queue)
                /\ transport_pc = "deliver" => x[2] < message[2]

LEMMA Appended ==
    ASSUME NEW s \in Seq(Message), NEW m \in Message, Ascends(s),
           \A x \in Elements(s) : x[2] < m[2]
    PROVE  /\ Ascends(Append(s, m))
           /\ Elements(Append(s, m)) = Elements(s) \cup {m}
<1> DEFINE t == Append(s, m)
<1>1. /\ Len(s) \in Nat /\ Len(t) = Len(s) + 1 /\ t[Len(s) + 1] = m
      /\ \A i \in 1 .. Len(s) : t[i] = s[i] /\ s[i] \in Elements(s)
  BY DEF Elements
<1> HIDE DEF t
<1>2. 1 .. Len(t) = (1 .. Len(s)) \cup {Len(s) + 1}
  BY <1>1
<1>3. Elements(t) = Elements(s) \cup {m}
  BY <1>1, <1>2 DEF Elements
<1>4. Ascends(t)
  <2> SUFFICES ASSUME NEW i \in 1 .. Len(t), NEW j \in 1 .. Len(t), i < j
               PROVE  t[i][2] < t[j][2]
    BY DEF Ascends
  <2>1. i \in 1 .. Len(s)
    BY <1>1, <1>2
  <2>2. CASE j = Len(s) + 1
    BY <1>1, <2>1, <2>2
  <2>3. CASE j \in 1 .. Len(s)
    BY <1>1, <2>1, <2>3 DEF Ascends
  <2> QED
    BY <1>2, <2>2, <2>3
<1> QED
  BY <1>3, <1>4 DEF t

LEMMA Taken ==
    ASSUME NEW s \in Seq(Message), s # << >>, Ascends(s)
    PROVE  /\ Head(s) \in Elements(s)
           /\ Elements(Tail(s)) \subseteq Elements(s)
           /\ Ascends(Tail(s)) /\ Before(Head(s), Tail(s))
<1>1. /\ Len(s) \in Nat \ {0} /\ Len(Tail(s)) = Len(s) - 1 /\ Head(s) = s[1]
      /\ \A i \in 1 .. Len(Tail(s)) : Tail(s)[i] = s[i + 1]
  OBVIOUS
<1>2. /\ 1 \in 1 .. Len(s)
      /\ \A i \in 1 .. Len(Tail(s)) : i + 1 \in 1 .. Len(s) /\ 1 < i + 1
  BY <1>1
<1>3. \A i, j \in 1 .. Len(Tail(s)) : i < j => i + 1 < j + 1
  BY <1>1
<1>4. Before(Head(s), Tail(s))
  BY <1>1, <1>2 DEF Before, Elements, Ascends
<1>5. Ascends(Tail(s))
  BY <1>1, <1>2, <1>3 DEF Ascends
<1> QED
  BY <1>1, <1>2, <1>4, <1>5 DEF Elements

LEMMA OrderInit == Init => InOrder
BY DEF Init, InOrder, Ascends, Elements, EmptyDict

LEMMA OrderStep == TypeOK /\ InOrder /\ [Next]_vars => InOrder'
<1> SUFFICES ASSUME TypeOK, InOrder, [Next]_vars PROVE InOrder'
  OBVIOUS
<1> USE TransportAssumption DEF InOrder, IsDict
<1>0. /\ received \in Nat /\ net_queue \in Seq(Message)
      /\ \A p \in DOMAIN in_queues : in_queues[p] \in Seq(Message)
      /\ \A x \in Message : x[2] \in Nat
      /\ \A x \in Elements(net_queue) : x \in Message
      /\ \A p \in DOMAIN in_queues : \A x \in Elements(in_queues[p]) : x \in Message
  BY DEF TypeOK, Message, Elements
<1>1. ASSUME UNCHANGED <<net_queue, in_queues, received>>,
             transport_pc' = "deliver" => transport_pc = "deliver" /\ message' = message
      PROVE  InOrder'
  BY <1>1 DEF Before
<1>2. CASE UNCHANGED vars
  BY <1>1, <1>2 DEF vars
<1>3. CASE Next
  <2>1. ASSUME NEW p \in Ports, NetAppend(p) PROVE InOrder'
    <3> DEFINE m == <<p, received + 1>>
    <3>1. m \in Message /\ m[2] = received + 1
      BY <2>1 DEF NetAppend, Message, TypeOK
    <3>2. /\ net_queue' = Append(net_queue, m) /\ received' = received + 1
          /\ UNCHANGED <<transport_pc, message, in_queues>>
      BY <2>1 DEF NetAppend
    <3> HIDE DEF m
    <3>3. \A x \in Elements(net_queue) : x[2] < m[2]
      BY <1>0, <3>1
    <3>4. Ascends(net_queue') /\ Elements(net_queue') = Elements(net_queue) \cup {m}
      BY <1>0, <3>1, <3>2, <3>3, Appended
    <3>5. \A x \in Elements(net_queue') : x[2] <= received'
      BY <1>0, <3>1, <3>2, <3>4
    <3>6. \A x \in Message :
             x[2] <= received /\ Before(x, net_queue) => Before(x, net_queue)'
      BY <1>0, <3>1, <3>2, <3>4 DEF Before
    <3>7. transport_pc = "deliver" => message \in Message
      BY DEF TypeOK
    <3> QED
      BY <1>0, <3>2, <3>4, <3>5, <3>6, <3>7
  <2>2. ASSUME NetNotify PROVE InOrder'
    BY <1>1, <2>2 DEF NetNotify
  <2>3. ASSUME Take PROVE InOrder'
    <3>1. /\ net_queue # << >> /\ transport_pc # "deliver"
          /\ message' = Head(net_queue) /\ net_queue' = Tail(net_queue)
          /\ UNCHANGED <<in_queues, received>>
      BY <2>3 DEF Take
    <3>2. /\ Head(net_queue) \in Elements(net_queue)
          /\ Elements(net_queue') \subseteq Elements(net_queue)
          /\ Ascends(net_queue') /\ Before(message', net_queue')
      BY <1>0, <3>1, Taken
    <3> QED
      BY <3>1, <3>2 DEF Before
  <2>4. ASSUME TakeRaises \/ TransportWait PROVE InOrder'
    BY <1>1, <2>4 DEF TakeRaises, TransportWait
  <2>5. ASSUME Deliver PROVE InOrder'
    <3>1. /\ message \in Message /\ transport_pc = "deliver" /\ transport_pc' # "deliver"
          /\ UNCHANGED <<net_queue, received>>
      BY <2>5 DEF Deliver, TypeOK
    <3>2. CASE Bound(message[1])
      <4>1. /\ message[1] \in DOMAIN in_queues
            /\ in_queues' = [in_queues EXCEPT ![message[1]] =
                                 Append(in_queues[message[1]], message)]
        BY <2>5, <3>2 DEF Deliver, Bound
      <4>2. /\ Ascends(in_queues'[message[1]])
            /\ Elements(in_queues'[message[1]]) =
                  Elements(in_queues[message[1]]) \cup {message}
        BY <1>0, <3>1, <4>1, Appended
      <4>3. \A p \in DOMAIN in_queues : p # message[1] => in_queues'[p] = in_queues[p]
        BY <4>1
      <4> QED
        BY <3>1, <4>1, <4>2, <4>3
    <3>3. CASE ~Bound(message[1])
      BY <2>5, <3>1, <3>3 DEF Deliver
    <3> QED
      BY <3>2, <3>3
  <2>6. ASSUME TransportNotify PROVE InOrder'
    BY <1>1, <2>6 DEF TransportNotify
  <2>7. ASSUME NEW p \in Ports, Bind(p) PROVE InOrder'
    <3>1. /\ in_queues' = Put(in_queues, p, << >>)
          /\ UNCHANGED <<net_queue, received, transport_pc, message>>
      BY <2>7 DEF Bind
    <3>2. Ascends(<< >>) /\ Elements(<< >>) = {}
      BY DEF Ascends, Elements
    <3> QED
      BY <3>1, <3>2 DEF Put
  <2>8. ASSUME NEW p \in Ports, ReceiveAtOnce(p) \/ ReceiveWoken(p) PROVE InOrder'
    <3>1. /\ p \in DOMAIN in_queues /\ in_queues[p] # << >>
          /\ in_queues' = [in_queues EXCEPT ![p] = Tail(in_queues[p])]
          /\ UNCHANGED <<net_queue, received, transport_pc, message>>
      BY <2>8 DEF ReceiveAtOnce, ReceiveWoken, PopLeft, TypeOK, Bound
    <3>2. /\ Ascends(in_queues'[p])
          /\ Elements(in_queues'[p]) \subseteq Elements(in_queues[p])
      BY <1>0, <3>1, Taken
    <3>3. \A q \in DOMAIN in_queues : q # p => in_queues'[q] = in_queues[q]
      BY <3>1
    <3> QED
      BY <3>1, <3>2, <3>3
  <2>9. ASSUME NEW p \in Ports, ReceiveEmpty(p) \/ ReceiveWait(p) \/ ReceiveRaises(p)
        PROVE  InOrder'
    BY <1>1, <2>9 DEF ReceiveEmpty, ReceiveWait, ReceiveRaises
  <2> QED
    BY <1>3, <2>1, <2>2, <2>3, <2>4, <2>5, <2>6, <2>7, <2>8, <2>9, Steps
<1> QED
  BY <1>2, <1>3

\* Messages never overtake one another on their way to a port, and none of them
\* is there twice.
THEOREM Fifo == Spec => []InOrder
<1>1. Spec => [](TypeOK /\ InOrder)
  BY InitType, TypeStep, OrderInit, OrderStep, PTL DEF Spec
<1> QED
  BY <1>1, PTL

\* What an application takes is the oldest message for its port that it has not
\* taken yet.
THEOREM TakesOldest ==
    ASSUME TypeOK, InOrder, NEW p \in Ports, ReceiveAtOnce(p) \/ ReceiveWoken(p)
    PROVE  LET m == Head(in_queues[p]) IN
           /\ m[1] = p
           /\ Before(m, in_queues'[p]) /\ Before(m, net_queue)
           /\ Before(m, InHand)
<1>1. /\ p \in DOMAIN in_queues /\ in_queues[p] # << >>
      /\ in_queues[p] \in Seq(Message)
      /\ in_queues'[p] = Tail(in_queues[p])
  BY DEF ReceiveAtOnce, ReceiveWoken, PopLeft, TypeOK, Bound, IsDict
<1>2. /\ Head(in_queues[p]) \in Elements(in_queues[p])
      /\ Before(Head(in_queues[p]), Tail(in_queues[p]))
  BY <1>1, Taken DEF InOrder
<1>3. ASSUME NEW x \in Elements(in_queues[p]) PROVE Before(x, InHand)
  BY <1>1, <1>3 DEF InOrder, InHand, Before, Elements
<1> QED
  BY <1>1, <1>2, <1>3 DEF InOrder

-----------------------------------------------------------------------------
(***************************************************************************)
(* Selections                                                              *)
(***************************************************************************)
Less == {p \in Nat \X Nat : p[1] < p[2]}

LEMMA LessWellFounded == IsWellFoundedOn(Less, Nat)
BY NatLessThanWellFounded DEF OpToRel, Less

LEMMA Induction ==
    ASSUME NEW T, 0 \in T, \A n \in Nat : n \in T => n + 1 \in T
    PROVE  Nat \subseteq T
<1> DEFINE U == Nat \ T
<1> SUFFICES ASSUME U # {} PROVE FALSE
  OBVIOUS
<1>1. PICK n \in U : \A m \in U : <<m, n>> \notin Less
  BY LessWellFounded, WFMin
<1>2. n \in Nat \ {0}
  OBVIOUS
<1>3. n - 1 \in Nat /\ <<n - 1, n>> \in Less
  BY <1>2 DEF Less
<1> QED
  BY <1>1, <1>2, <1>3

\* The elements of S among the first i of s, from those among the first i - 1.
Loop(f, s, S, i) ==
    IF i = 0 THEN << >>
    ELSE IF s[i] \in S THEN Append(f[i - 1], s[i]) ELSE f[i - 1]

\* The selections from the first elements of s, up to that from all of them.
Selects(f, s, S, E) ==
    /\ f \in [0 .. Len(s) -> Seq(E)]
    /\ \A i \in 0 .. Len(s) : f[i] = Loop(f, s, S, i)
    /\ Selected(s, S) = f[Len(s)]

\* The recursion of Selected has a solution, so Selected computes what its loop
\* says.
LEMMA Selection ==
    ASSUME NEW E, NEW s \in Seq(E), NEW S
    PROVE  \E f : Selects(f, s, S, E)
<1>0. Len(s) \in Nat /\ \A i \in 1 .. Len(s) : s[i] \in E
  OBVIOUS
<1> DEFINE P(n) == \E f \in [0 .. n -> Seq(E)] :
                      \A i \in 0 .. n : f[i] = Loop(f, s, S, i)
           T == {n \in Nat : n <= Len(s) => P(n)}
<1>1. 0 \in T
  <2> DEFINE f == [i \in 0 .. 0 |-> << >>]
  <2>1. f \in [0 .. 0 -> Seq(E)]
    OBVIOUS
  <2>2. \A i \in 0 .. 0 : f[i] = Loop(f, s, S, i)
    BY DEF Loop
  <2> HIDE DEF f
  <2>3. P(0)
    BY <2>1, <2>2
  <2> QED
    BY <2>3
<1>2. ASSUME NEW n \in Nat, n \in T PROVE n + 1 \in T
  <2> SUFFICES ASSUME n + 1 <= Len(s) PROVE P(n + 1)
    <3> HIDE DEF P
    <3> QED
      OBVIOUS
  <2>1. PICK f \in [0 .. n -> Seq(E)] : \A i \in 0 .. n : f[i] = Loop(f, s, S, i)
    BY <1>2
  <2> DEFINE g == [i \in 0 .. n + 1 |->
                      IF i = n + 1 THEN Loop(f, s, S, i) ELSE f[i]]
  <2>2. (n + 1) - 1 = n /\ s[n + 1] \in E /\ f[n] \in Seq(E)
    OBVIOUS
  <2>3. Loop(f, s, S, n + 1) \in Seq(E)
    BY <2>2 DEF Loop
  <2>4. g \in [0 .. n + 1 -> Seq(E)]
    BY <2>3
  <2>5. ASSUME NEW i \in 0 .. n + 1 PROVE g[i] = Loop(g, s, S, i)
    <3>1. i # 0 => g[i - 1] = f[i - 1]
      OBVIOUS
    <3>2. g[i] = Loop(f, s, S, i)
      BY <2>1
    <3> HIDE DEF g
    <3> QED
      BY <3>1, <3>2 DEF Loop
  <2> HIDE DEF g
  <2> QED
    BY <2>4, <2>5
<1> HIDE DEF T
<1>3. P(Len(s))
  <2>1. Len(s) \in T
    BY <1>0, <1>1, <1>2, Induction
  <2> QED
    BY <1>0, <2>1 DEF T
<1> DEFINE R(f) == f = [i \in 0 .. Len(s) |-> Loop(f, s, S, i)]
           sel  == CHOOSE f : R(f)
<1>4. R(sel)
  <2>1. PICK f \in [0 .. Len(s) -> Seq(E)] :
                \A i \in 0 .. Len(s) : f[i] = Loop(f, s, S, i)
    BY <1>3
  <2>2. R(f)
    BY <2>1
  <2> QED
    BY <2>2
<1>5. Selected(s, S) = sel[Len(s)]
  BY DEF Selected, Loop
<1> HIDE DEF sel
<1>6. \A i \in 0 .. Len(s) : sel[i] = Loop(sel, s, S, i)
  BY <1>4
<1> DEFINE U == {n \in Nat : n <= Len(s) => sel[n] \in Seq(E)}
<1>7. 0 \in U
  <2>1. sel[0] = Loop(sel, s, S, 0)
    BY <1>0, <1>6
  <2>2. sel[0] = << >>
    BY <2>1 DEF Loop
  <2>3. sel[0] \in Seq(E)
    BY <2>2
  <2> QED
    BY <2>3
<1>8. ASSUME NEW n \in Nat, n \in U PROVE n + 1 \in U
  <2> SUFFICES ASSUME n + 1 <= Len(s) PROVE sel[n + 1] \in Seq(E)
    OBVIOUS
  <2>1. /\ n + 1 \in 0 .. Len(s) /\ n + 1 # 0 /\ (n + 1) - 1 = n
        /\ sel[n] \in Seq(E) /\ s[n + 1] \in E
    BY <1>0, <1>8
  <2>2. sel[n + 1] = Loop(sel, s, S, n + 1)
    BY <1>6, <2>1
  <2> QED
    BY <2>1, <2>2 DEF Loop
<1> HIDE DEF U
<1>9. Nat \subseteq U
  BY <1>7, <1>8, Induction
<1>10. sel \in [0 .. Len(s) -> Seq(E)]
  BY <1>0, <1>4, <1>9 DEF U
<1> QED
  BY <1>5, <1>6, <1>10 DEF Selects

LEMMA Unrolled ==
    ASSUME NEW E, NEW s \in Seq(E), NEW S, NEW f, Selects(f, s, S, E)
    PROVE  /\ Len(s) \in Nat /\ f[0] = << >> /\ Selected(s, S) = f[Len(s)]
           /\ \A n \in 0 .. Len(s) : f[n] \in Seq(E)
           /\ \A n \in Nat : n < Len(s) =>
                 f[n + 1] = IF s[n + 1] \in S THEN Append(f[n], s[n + 1]) ELSE f[n]
<1>1. Len(s) \in Nat /\ \A n \in 0 .. Len(s) : f[n] \in Seq(E)
  BY DEF Selects
<1>2. f[0] = << >>
  <2>1. f[0] = Loop(f, s, S, 0)
    BY <1>1 DEF Selects
  <2> QED
    BY <2>1 DEF Loop
<1>3. ASSUME NEW n \in Nat, n < Len(s)
      PROVE  f[n + 1] = IF s[n + 1] \in S THEN Append(f[n], s[n + 1]) ELSE f[n]
  <2>1. n + 1 \in 0 .. Len(s) /\ n + 1 # 0 /\ (n + 1) - 1 = n
    BY <1>1, <1>3
  <2>2. f[n + 1] = Loop(f, s, S, n + 1)
    BY <2>1 DEF Selects
  <2> QED
    BY <2>1, <2>2 DEF Loop
<1> QED
  BY <1>1, <1>2, <1>3 DEF Selects

LEMMA ConcatAppend ==
    ASSUME NEW E, NEW s \in Seq(E), NEW t \in Seq(E), NEW e \in E
    PROVE  s \o Append(t, e) = Append(s \o t, e)
<1>1. <<e>> \in Seq(E) /\ s \o t \in Seq(E)
  BY ConcatProperties
<1>2. Append(t, e) = t \o <<e>> /\ Append(s \o t, e) = (s \o t) \o <<e>>
  BY <1>1, AppendIsConcat
<1> QED
  BY <1>1, <1>2, ConcatAssociative

LEMMA ConcatTail ==
    ASSUME NEW E, NEW s \in Seq(E), s # << >>, NEW t \in Seq(E)
    PROVE  s \o t # << >> /\ Tail(s \o t) = Tail(s) \o t
<1> DEFINE u == s \o t
           v == Tail(s) \o t
<1>1. /\ Len(s) \in Nat \ {0} /\ Len(t) \in Nat
      /\ Tail(s) \in Seq(E) /\ Len(Tail(s)) = Len(s) - 1
      /\ \A i \in 1 .. Len(Tail(s)) : Tail(s)[i] = s[i + 1]
  OBVIOUS
<1>2. /\ u \in Seq(E) /\ Len(u) = Len(s) + Len(t)
      /\ \A i \in 1 .. Len(s) + Len(t) :
            u[i] = IF i <= Len(s) THEN s[i] ELSE t[i - Len(s)]
  BY ConcatProperties
<1>3. /\ v \in Seq(E) /\ Len(v) = (Len(s) - 1) + Len(t)
      /\ \A i \in 1 .. (Len(s) - 1) + Len(t) :
            v[i] = IF i <= Len(s) - 1 THEN s[i + 1] ELSE t[i - (Len(s) - 1)]
  BY <1>1, ConcatProperties
<1> HIDE DEF u, v
<1>4. u # << >>
  BY <1>1, <1>2
<1>5. /\ Tail(u) \in Seq(E) /\ Len(Tail(u)) = Len(u) - 1
      /\ \A i \in 1 .. Len(Tail(u)) : Tail(u)[i] = u[i + 1]
  BY <1>2, <1>4, HeadTailProperties
<1>6. ASSUME NEW i \in 1 .. Len(Tail(u)) PROVE Tail(u)[i] = v[i]
  <2>1. /\ i \in Nat /\ i + 1 \in 1 .. Len(s) + Len(t)
        /\ i \in 1 .. (Len(s) - 1) + Len(t)
        /\ (i + 1) - Len(s) = i - (Len(s) - 1)
        /\ i + 1 <= Len(s) <=> i <= Len(s) - 1
    BY <1>1, <1>2, <1>5
  <2> QED
    BY <1>2, <1>3, <1>5, <2>1
<1>7. Tail(u) = v
  BY <1>1, <1>2, <1>3, <1>5, <1>6, SeqEqual
<1> QED
  BY <1>4, <1>7 DEF u, v

LEMMA SelectedNothing ==
    ASSUME NEW S
    PROVE  Selected(<< >>, S) = << >>
<1>1. << >> \in Seq(S) /\ Len(<< >>) = 0
  OBVIOUS
<1>2. ASSUME NEW s \in Seq(S), Len(s) = 0 PROVE Selected(s, S) = << >>
  <2>1. PICK f : Selects(f, s, S, S)
    BY Selection
  <2>2. Selected(s, S) = f[Len(s)] /\ f[0] = << >>
    BY <2>1, Unrolled
  <2> QED
    BY <1>2, <2>2
<1> QED
  BY <1>1, <1>2

\* A new element goes to the end of the selection.
LEMMA SelectedAppend ==
    ASSUME NEW E, NEW s \in Seq(E), NEW e \in E, NEW S
    PROVE  /\ Selected(s, S) \in Seq(E)
           /\ Selected(Append(s, e), S) =
                 IF e \in S THEN Append(Selected(s, S), e) ELSE Selected(s, S)
<1> DEFINE t == Append(s, e)
<1>1. /\ t \in Seq(E) /\ Len(s) \in Nat /\ Len(t) = Len(s) + 1
      /\ t[Len(s) + 1] = e /\ \A i \in 1 .. Len(s) : t[i] = s[i]
  OBVIOUS
<1> HIDE DEF t
<1>2. PICK f : Selects(f, s, S, E)
  BY Selection
<1>3. PICK g : Selects(g, t, S, E)
  BY <1>1, Selection
<1> DEFINE T == {n \in Nat : n <= Len(s) => g[n] = f[n]}
<1>4. 0 \in T
  BY <1>1, <1>2, <1>3, Unrolled
<1>5. ASSUME NEW n \in Nat, n \in T PROVE n + 1 \in T
  <2> SUFFICES ASSUME n + 1 <= Len(s) PROVE g[n + 1] = f[n + 1]
    OBVIOUS
  <2>1. n < Len(s) /\ n < Len(t) /\ t[n + 1] = s[n + 1] /\ g[n] = f[n]
    BY <1>1, <1>5
  <2>2. f[n + 1] = IF s[n + 1] \in S THEN Append(f[n], s[n + 1]) ELSE f[n]
    BY <1>2, <2>1, Unrolled
  <2>3. g[n + 1] = IF t[n + 1] \in S THEN Append(g[n], t[n + 1]) ELSE g[n]
    BY <1>1, <1>3, <2>1, Unrolled
  <2> QED
    BY <2>1, <2>2, <2>3
<1> HIDE DEF T
<1>6. Len(s) \in T
  BY <1>1, <1>4, <1>5, Induction
<1>7. g[Len(s)] = f[Len(s)]
  BY <1>1, <1>6 DEF T
<1>8. g[Len(s) + 1] = IF t[Len(s) + 1] \in S
                      THEN Append(g[Len(s)], t[Len(s) + 1]) ELSE g[Len(s)]
  BY <1>1, <1>3, Unrolled
<1>9. Selected(s, S) = f[Len(s)] /\ f[Len(s)] \in Seq(E)
  BY <1>1, <1>2, Unrolled
<1>10. Selected(t, S) = g[Len(s) + 1]
  BY <1>1, <1>3, Unrolled
<1> QED
  BY <1>1, <1>7, <1>8, <1>9, <1>10 DEF t

\* The first element is the head of the selection, if it is selected.
LEMMA SelectedTail ==
    ASSUME NEW E, NEW s \in Seq(E), s # << >>, NEW S
    PROVE  /\ Selected(Tail(s), S) \in Seq(E)
           /\ Selected(s, S) = (IF Head(s) \in S THEN <<Head(s)>> ELSE << >>)
                               \o Selected(Tail(s), S)
<1> DEFINE t == Tail(s)
           first == IF Head(s) \in S THEN <<Head(s)>> ELSE << >>
<1>1. /\ t \in Seq(E) /\ Len(t) \in Nat /\ Len(s) = Len(t) + 1
      /\ Head(s) = s[1] /\ s[1] \in E /\ \A i \in 1 .. Len(t) : t[i] = s[i + 1]
  OBVIOUS
<1>2. first \in Seq(E)
  BY <1>1
<1> HIDE DEF t, first
<1>3. PICK f : Selects(f, s, S, E)
  BY Selection
<1>4. PICK g : Selects(g, t, S, E)
  BY <1>1, Selection
<1> DEFINE T == {n \in Nat : n <= Len(t) => f[n + 1] = first \o g[n]}
<1>5. 0 \in T
  <2>1. f[0] = << >> /\ g[0] = << >>
    BY <1>1, <1>3, <1>4, Unrolled
  <2>2. f[0 + 1] = IF s[0 + 1] \in S THEN Append(f[0], s[0 + 1]) ELSE f[0]
    BY <1>1, <1>3, Unrolled
  <2>3. Append(<< >>, s[1]) = <<s[1]>>
    OBVIOUS
  <2>4. f[0 + 1] = first
    BY <1>1, <2>1, <2>2, <2>3 DEF first
  <2>5. first \o << >> = first
    BY <1>2, ConcatEmptySeq
  <2> QED
    BY <2>1, <2>4, <2>5
<1>6. ASSUME NEW n \in Nat, n \in T PROVE n + 1 \in T
  <2> SUFFICES ASSUME n + 1 <= Len(t) PROVE f[(n + 1) + 1] = first \o g[n + 1]
    OBVIOUS
  <2>1. /\ n < Len(t) /\ n + 1 \in Nat /\ n + 1 < Len(s) /\ n \in 0 .. Len(t)
        /\ t[n + 1] = s[(n + 1) + 1] /\ t[n + 1] \in E
    BY <1>1
  <2>2. f[n + 1] = first \o g[n]
    BY <1>1, <1>6, <2>1
  <2>3. f[(n + 1) + 1] = IF s[(n + 1) + 1] \in S
                         THEN Append(f[n + 1], s[(n + 1) + 1]) ELSE f[n + 1]
    BY <1>3, <2>1, Unrolled
  <2>4. /\ g[n + 1] = IF t[n + 1] \in S THEN Append(g[n], t[n + 1]) ELSE g[n]
        /\ g[n] \in Seq(E)
    BY <1>1, <1>4, <2>1, Unrolled
  <2>5. first \o Append(g[n], t[n + 1]) = Append(first \o g[n], t[n + 1])
    <3> DEFINE x == t[n + 1]
               list == g[n]
    <3>1. x \in E /\ list \in Seq(E)
      BY <2>1, <2>4
    <3> HIDE DEF x, list
    <3>2. first \o Append(list, x) = Append(first \o list, x)
      BY <1>2, <3>1, ConcatAppend
    <3> QED
      BY <3>2 DEF x, list
  <2> QED
    BY <2>1, <2>2, <2>3, <2>4, <2>5
<1> HIDE DEF T
<1>7. Len(t) \in T
  BY <1>1, <1>5, <1>6, Induction
<1>8. f[Len(t) + 1] = first \o g[Len(t)]
  BY <1>1, <1>7 DEF T
<1>9. Selected(s, S) = f[Len(t) + 1]
  BY <1>1, <1>3, Unrolled
<1>10. Selected(t, S) = g[Len(t)] /\ g[Len(t)] \in Seq(E)
  BY <1>1, <1>4, Unrolled
<1> QED
  BY <1>8, <1>9, <1>10 DEF t, first

-----------------------------------------------------------------------------
(***************************************************************************)
(* Transport implements Mailbox                                            *)
(***************************************************************************)
ForPort(p) == {p} \X (1 .. MaxMessages)

\* The three parts of what is on the way to p: in the queue of the port, in
\* the hand of the thread, and in the queue of the network layer.
Queue(p) == IF Bound(p) THEN in_queues[p] ELSE << >>
Hand(p)  == IF transport_pc = "deliver" /\ message \in ForPort(p)
            THEN <<message>> ELSE << >>
Net(p)   == Selected(net_queue, ForPort(p))

LEMMA Parts ==
    ASSUME NEW p
    PROVE  OnTheWay(p) = (Queue(p) \o Hand(p)) \o Net(p)
BY DEF OnTheWay, Queue, Hand, Net, ForPort

LEMMA PartsType ==
    ASSUME TypeOK, NEW p \in Ports
    PROVE  /\ Queue(p) \in Seq(Message) /\ Hand(p) \in Seq(Message)
           /\ Net(p) \in Seq(Message)
<1>1. net_queue \in Seq(Message)
  BY DEF TypeOK
<1>2. Net(p) \in Seq(Message)
  <2>1. CASE net_queue = << >>
    <3>1. Net(p) = << >>
      BY <2>1, SelectedNothing DEF Net
    <3> QED
      BY <3>1
  <2>2. CASE net_queue # << >>
    <3>1. Head(net_queue) \in Message
      BY <1>1, <2>2
    <3> QED
      BY <1>1, <3>1, SelectedAppend DEF Net
  <2> QED
    BY <2>1, <2>2
<1>3. Queue(p) \in Seq(Message)
  <2>1. CASE Bound(p)
    BY <2>1 DEF Queue, Bound, TypeOK, IsDict
  <2>2. CASE ~Bound(p)
    <3>1. Queue(p) = << >>
      BY <2>2 DEF Queue
    <3> QED
      BY <3>1
  <2> QED
    BY <2>1, <2>2
<1>4. Hand(p) \in Seq(Message)
  <2>1. CASE transport_pc = "deliver" /\ message \in ForPort(p)
    <3>1. message \in Message /\ Hand(p) = <<message>>
      BY <2>1 DEF Hand, TypeOK
    <3> QED
      BY <3>1
  <2>2. CASE ~(transport_pc = "deliver" /\ message \in ForPort(p))
    <3>1. Hand(p) = << >>
      BY <2>2 DEF Hand
    <3> QED
      BY <3>1
  <2> QED
    BY <2>1, <2>2
<1> QED
  BY <1>2, <1>3, <1>4

\* The port a message is for.
LEMMA ForItsPort ==
    ASSUME NEW m \in Message, NEW p \in Ports
    PROVE  m \in ForPort(p) <=> m[1] = p
BY DEF Message, ForPort

\* Nothing moves for the mailbox.
LEMMA Stutters ==
    ASSUME \A p \in Ports : OnTheWay(p)' = OnTheWay(p),
           \A p \in Ports : Bound(p)' = Bound(p)
    PROVE  UNCHANGED MB!vars
BY DEF MB!vars

LEMMA StuttersByParts ==
    ASSUME \A p \in Ports : UNCHANGED <<Queue(p), Hand(p), Net(p)>>,
           \A p \in Ports : Bound(p)' = Bound(p)
    PROVE  UNCHANGED MB!vars
<1>1. ASSUME NEW p \in Ports PROVE OnTheWay(p)' = OnTheWay(p)
  <2>1. OnTheWay(p)' = (Queue(p)' \o Hand(p)') \o Net(p)'
    BY DEF OnTheWay, Queue, Hand, Net, ForPort
  <2> QED
    BY <2>1, Parts
<1> QED
  BY <1>1, Stutters

\* A packet that comes in is a message that is posted.
LEMMA NetAppendPosts ==
    ASSUME TypeOK, NEW p \in Ports, NetAppend(p)
    PROVE  MB!Post(p, <<p, received + 1>>) /\ <<p, received + 1>> \in Message
<1> DEFINE m == <<p, received + 1>>
<1>1. /\ m \in Message /\ m[1] = p
      /\ net_queue' = Append(net_queue, m) /\ net_queue \in Seq(Message)
      /\ UNCHANGED <<transport_pc, message, in_queues>>
  BY TransportAssumption DEF NetAppend, TypeOK, Message
<1> HIDE DEF m
<1>2. ASSUME NEW q \in Ports
      PROVE  /\ Queue(q)' = Queue(q) /\ Hand(q)' = Hand(q)
             /\ Net(q)' = IF q = p THEN Append(Net(q), m) ELSE Net(q)
  <2>1. Queue(q)' = Queue(q) /\ Hand(q)' = Hand(q)
    BY <1>1 DEF Queue, Hand, Bound
  <2>2. Net(q)' = Selected(Append(net_queue, m), ForPort(q))
    BY <1>1 DEF Net, ForPort
  <2>3. Net(q)' = IF m \in ForPort(q) THEN Append(Net(q), m) ELSE Net(q)
    BY <1>1, <2>2, SelectedAppend DEF Net
  <2> QED
    BY <1>1, <2>1, <2>3, ForItsPort
<1>3. ASSUME NEW q \in Ports
      PROVE  OnTheWay(q)' = (Queue(q)' \o Hand(q)') \o Net(q)'
  BY DEF OnTheWay, Queue, Hand, Net, ForPort
<1>4. OnTheWay(p)' = Append(OnTheWay(p), m)
  <2> DEFINE s == Queue(p) \o Hand(p)
             t == Net(p)
  <2>1. s \in Seq(Message) /\ t \in Seq(Message)
    BY PartsType, ConcatProperties
  <2>2. OnTheWay(p)' = s \o Append(t, m) /\ OnTheWay(p) = s \o t
    BY <1>2, <1>3, Parts
  <2> HIDE DEF s, t
  <2>3. s \o Append(t, m) = Append(s \o t, m)
    BY <1>1, <2>1, ConcatAppend
  <2> QED
    BY <2>2, <2>3
<1>5. \A q \in Ports : q # p => OnTheWay(q)' = OnTheWay(q)
  BY <1>2, <1>3, Parts
<1>6. \A q \in Ports : Bound(q)' = Bound(q)
  BY <1>1 DEF Bound
<1>7. MB!Post(p, m)
  BY <1>4, <1>5, <1>6 DEF MB!Post
<1> QED
  BY <1>1, <1>7 DEF m

\* A message that goes from the queue of the network layer into the hand of
\* the thread stays where it is among those for its port.
LEMMA TakeStutters ==
    ASSUME TypeOK, Take
    PROVE  UNCHANGED MB!vars
<1>1. /\ transport_pc = "take" /\ transport_pc' = "deliver"
      /\ net_queue \in Seq(Message) /\ net_queue # << >>
      /\ message' = Head(net_queue) /\ net_queue' = Tail(net_queue)
      /\ UNCHANGED in_queues
  BY DEF Take, TypeOK
<1>2. ASSUME NEW q \in Ports PROVE OnTheWay(q)' = OnTheWay(q)
  <2>1. Queue(q)' = Queue(q) /\ Hand(q) = << >>
    BY <1>1 DEF Queue, Hand, Bound
  <2>2. Hand(q)' = IF Head(net_queue) \in ForPort(q) THEN <<Head(net_queue)>>
                   ELSE << >>
    BY <1>1 DEF Hand, ForPort
  <2>3. Net(q)' = Selected(Tail(net_queue), ForPort(q))
    BY <1>1 DEF Net, ForPort
  <2>4. Net(q) = Hand(q)' \o Net(q)' /\ Net(q)' \in Seq(Message)
    BY <1>1, <2>2, <2>3, SelectedTail DEF Net
  <2>5. Hand(q)' \in Seq(Message)
    <3>1. Head(net_queue) \in Message
      BY <1>1
    <3>2. <<Head(net_queue)>> \in Seq(Message) /\ << >> \in Seq(Message)
      BY <3>1
    <3> QED
      BY <2>2, <3>2
  <2>6. OnTheWay(q)' = (Queue(q)' \o Hand(q)') \o Net(q)'
    BY DEF OnTheWay, Queue, Hand, Net, ForPort
  <2>7. OnTheWay(q) = (Queue(q) \o << >>) \o (Hand(q)' \o Net(q)')
    BY <2>1, <2>4, Parts
  <2> DEFINE s == Queue(q)
             t == Hand(q)'
             u == Net(q)'
  <2>8. s \in Seq(Message) /\ t \in Seq(Message) /\ u \in Seq(Message)
    BY <2>4, <2>5, PartsType
  <2>9. OnTheWay(q)' = (s \o t) \o u /\ OnTheWay(q) = (s \o << >>) \o (t \o u)
    BY <2>1, <2>6, <2>7
  <2> HIDE DEF s, t, u
  <2>10. (s \o t) \o u = (s \o << >>) \o (t \o u)
    BY <2>8, ConcatEmptySeq, ConcatAssociative
  <2> QED
    BY <2>9, <2>10
<1>3. \A q \in Ports : Bound(q)' = Bound(q)
  BY <1>1 DEF Bound
<1> QED
  BY <1>2, <1>3, Stutters

\* The thread has a message for p in its hand.
LEMMA InHandFor ==
    ASSUME TypeOK, Deliver, NEW p \in Ports, p = message[1]
    PROVE  /\ message \in Message
           /\ Hand(p) = <<message>> /\ Hand(p)' = << >>
           /\ \A q \in Ports : q # p => Hand(q) = << >> /\ Hand(q)' = << >>
           /\ \A q \in Ports : Net(q)' = Net(q)
<1>1. /\ message \in Message /\ transport_pc = "deliver"
      /\ transport_pc' # "deliver" /\ UNCHANGED net_queue
  BY DEF Deliver, TypeOK
<1> QED
  BY <1>1, ForItsPort DEF Hand, Net, ForPort

\* A message that is put into the queue of its port stays where it is.
LEMMA DeliverStutters ==
    ASSUME TypeOK, Deliver, Bound(message[1])
    PROVE  UNCHANGED MB!vars
<1>0. PICK p \in Ports : p = message[1]
  BY DEF Deliver, TypeOK, Message
<1>1. /\ message \in Message
      /\ Hand(p) = <<message>> /\ Hand(p)' = << >>
      /\ \A q \in Ports : q # p => Hand(q) = << >> /\ Hand(q)' = << >>
      /\ \A q \in Ports : Net(q)' = Net(q)
  BY <1>0, InHandFor
<1>2. /\ p \in DOMAIN in_queues
      /\ in_queues' = [in_queues EXCEPT ![p] = Append(in_queues[p], message)]
  BY <1>0 DEF Deliver, Bound
<1>3. \A q \in Ports : Bound(q)' = Bound(q)
  BY <1>2 DEF Bound
<1>4. Queue(p)' = Append(Queue(p), message)
  BY <1>2 DEF Queue, Bound
<1>5. \A q \in Ports : q # p => Queue(q)' = Queue(q)
  BY <1>2 DEF Queue, Bound
<1>6. ASSUME NEW q \in Ports PROVE OnTheWay(q)' = OnTheWay(q)
  <2>1. OnTheWay(q)' = (Queue(q)' \o Hand(q)') \o Net(q)'
    BY DEF OnTheWay, Queue, Hand, Net, ForPort
  <2>2. CASE q # p
    BY <1>1, <1>5, <2>1, <2>2, Parts
  <2>3. CASE q = p
    <3> DEFINE s == Queue(p)
    <3>1. s \in Seq(Message)
      BY <1>1, PartsType
    <3>2. /\ OnTheWay(q)' = (Append(s, message) \o << >>) \o Net(q)
          /\ OnTheWay(q) = (s \o <<message>>) \o Net(q)
      BY <1>1, <1>4, <2>1, <2>3, Parts
    <3> HIDE DEF s
    <3>3. Append(s, message) \in Seq(Message) /\ Append(s, message) = s \o <<message>>
      BY <1>1, <3>1, AppendProperties, AppendIsConcat
    <3>4. Append(s, message) \o << >> = Append(s, message)
      BY <3>3, ConcatEmptySeq
    <3> QED
      BY <3>2, <3>3, <3>4
  <2> QED
    BY <2>2, <2>3
<1> QED
  BY <1>3, <1>6, Stutters

\* A message for a port without a socket is discarded.
LEMMA DeliverDiscards ==
    ASSUME TypeOK, Deliver, ~Bound(message[1])
    PROVE  \E p \in Ports : MB!Discard(p)
<1>0. PICK p \in Ports : p = message[1]
  BY DEF Deliver, TypeOK, Message
<1>1. /\ message \in Message
      /\ Hand(p) = <<message>> /\ Hand(p)' = << >>
      /\ \A q \in Ports : q # p => Hand(q) = << >> /\ Hand(q)' = << >>
      /\ \A q \in Ports : Net(q)' = Net(q)
  BY <1>0, InHandFor
<1>2. UNCHANGED in_queues /\ ~Bound(p)
  BY <1>0 DEF Deliver
<1>3. \A q \in Ports : Queue(q)' = Queue(q) /\ Bound(q)' = Bound(q)
  BY <1>2 DEF Queue, Bound
<1>4. Queue(p) = << >>
  BY <1>2 DEF Queue
<1>5. ASSUME NEW q \in Ports
      PROVE  OnTheWay(q)' = (Queue(q)' \o Hand(q)') \o Net(q)'
  BY DEF OnTheWay, Queue, Hand, Net, ForPort
<1>6. OnTheWay(p) # << >> /\ OnTheWay(p)' = Tail(OnTheWay(p))
  <2> DEFINE t == Net(p)
  <2>1. t \in Seq(Message)
    BY <1>1, PartsType
  <2>2. /\ OnTheWay(p) = (<< >> \o <<message>>) \o t
        /\ OnTheWay(p)' = (<< >> \o << >>) \o t
    BY <1>1, <1>3, <1>4, <1>5, Parts
  <2> HIDE DEF t
  <2>3. /\ <<message>> \in Seq(Message) /\ << >> \in Seq(Message)
        /\ Tail(<<message>>) = << >> /\ <<message>> # << >>
    BY <1>1
  <2>4. << >> \o <<message>> = <<message>> /\ << >> \o << >> = << >>
    BY <2>3, ConcatEmptySeq
  <2>5. <<message>> \o t # << >> /\ Tail(<<message>> \o t) = << >> \o t
    BY <2>1, <2>3, ConcatTail
  <2> QED
    BY <2>2, <2>4, <2>5
<1>7. \A q \in Ports : q # p => OnTheWay(q)' = OnTheWay(q)
  BY <1>1, <1>3, <1>5, Parts
<1>8. MB!Discard(p)
  BY <1>1, <1>2, <1>3, <1>6, <1>7 DEF MB!Discard
<1> QED
  BY <1>8

LEMMA BindBinds ==
    ASSUME TypeOK, NEW p \in Ports, Bind(p)
    PROVE  MB!Bind(p)
<1>1. /\ ~Bound(p) /\ in_queues' = Put(in_queues, p, << >>)
      /\ UNCHANGED <<net_queue, transport_pc, message>>
  BY DEF Bind, TypeOK
<1>2. \A q \in Ports : Bound(q)' <=> (Bound(q) \/ q = p)
  BY <1>1 DEF Put, Bound
<1>3. \A q \in Ports : UNCHANGED <<Queue(q), Hand(q), Net(q)>>
  BY <1>1 DEF Put, Bound, Queue, Hand, Net, ForPort
<1>4. ASSUME NEW q \in Ports
      PROVE  OnTheWay(q)' = (Queue(q)' \o Hand(q)') \o Net(q)'
  BY DEF OnTheWay, Queue, Hand, Net, ForPort
<1>5. \A q \in Ports : OnTheWay(q)' = OnTheWay(q)
  BY <1>3, <1>4, Parts
<1> QED
  BY <1>1, <1>2, <1>5 DEF MB!Bind

LEMMA PopFetches ==
    ASSUME TypeOK, NEW p \in Ports, NEW pc, pc # "unbound", PopLeft(p, pc)
    PROVE  MB!Fetch(p)
<1>1. /\ Bound(p) /\ in_queues[p] # << >>
      /\ in_queues' = [in_queues EXCEPT ![p] = Tail(in_queues[p])]
      /\ UNCHANGED <<net_queue, transport_pc, message>>
  BY DEF PopLeft, TypeOK
<1>2. \A q \in Ports : Bound(q)' = Bound(q)
  BY <1>1 DEF Bound
<1>3. Queue(p)' = Tail(Queue(p)) /\ Queue(p) # << >>
  BY <1>1 DEF Queue, Bound
<1>4. \A q \in Ports : q # p => Queue(q)' = Queue(q)
  BY <1>1 DEF Queue, Bound
<1>5. \A q \in Ports : Hand(q)' = Hand(q) /\ Net(q)' = Net(q)
  BY <1>1 DEF Hand, Net, ForPort
<1>6. ASSUME NEW q \in Ports
      PROVE  OnTheWay(q)' = (Queue(q)' \o Hand(q)') \o Net(q)'
  BY DEF OnTheWay, Queue, Hand, Net, ForPort
<1>7. OnTheWay(p) # << >> /\ OnTheWay(p)' = Tail(OnTheWay(p))
  <2> DEFINE s == Queue(p)
             t == Hand(p)
             u == Net(p)
  <2>1. s \in Seq(Message) /\ s # << >> /\ t \in Seq(Message) /\ u \in Seq(Message)
    BY <1>3, PartsType
  <2>2. OnTheWay(p) = (s \o t) \o u /\ OnTheWay(p)' = (Tail(s) \o t) \o u
    BY <1>3, <1>5, <1>6, Parts
  <2> HIDE DEF s, t, u
  <2>3. s \o t \in Seq(Message)
    BY <2>1, ConcatProperties
  <2>4. s \o t # << >> /\ Tail(s \o t) = Tail(s) \o t
    BY <2>1, ConcatTail
  <2>5. (s \o t) \o u # << >> /\ Tail((s \o t) \o u) = Tail(s \o t) \o u
    BY <2>1, <2>3, <2>4, ConcatTail
  <2> QED
    BY <2>2, <2>4, <2>5
<1>8. \A q \in Ports : q # p => OnTheWay(q)' = OnTheWay(q)
  BY <1>4, <1>5, <1>6, Parts
<1> QED
  BY <1>1, <1>2, <1>7, <1>8 DEF MB!Fetch

\* The other steps move no message.
LEMMA OthersStutter ==
    ASSUME UNCHANGED <<net_queue, in_queues>>,
           \/ UNCHANGED <<transport_pc, message>>
           \/ transport_pc # "deliver" /\ transport_pc' # "deliver"
    PROVE  UNCHANGED MB!vars
<1>1. \A p \in Ports : UNCHANGED <<Queue(p), Hand(p), Net(p)>>
  BY DEF Queue, Hand, Net, ForPort, Bound
<1>2. \A p \in Ports : Bound(p)' = Bound(p)
  BY DEF Bound
<1> QED
  BY <1>1, <1>2, StuttersByParts

LEMMA InitMailbox == Init => MB!Init
<1> SUFFICES ASSUME Init PROVE MB!Init
  OBVIOUS
<1>1. \A p \in Ports : ~Bound(p)
  BY DEF Init, Bound, EmptyDict
<1>2. ASSUME NEW p \in Ports PROVE OnTheWay(p) = << >>
  <2>1. Queue(p) = << >> /\ Hand(p) = << >> /\ Net(p) = << >>
    BY <1>1, SelectedNothing DEF Queue, Hand, Net, Init
  <2> QED
    BY <2>1, Parts
<1> QED
  BY <1>1, <1>2 DEF MB!Init

LEMMA StepMailbox == TypeOK /\ [Next]_vars => [MB!Next]_(MB!vars)
<1> SUFFICES ASSUME TypeOK, [Next]_vars PROVE MB!Next \/ UNCHANGED MB!vars
  OBVIOUS
<1>1. CASE UNCHANGED vars
  BY <1>1, OthersStutter DEF vars
<1>2. CASE Next
  <2>1. ASSUME NEW p \in Ports, NetAppend(p) PROVE MB!Next
    BY <2>1, NetAppendPosts DEF MB!Next
  <2>2. ASSUME NetNotify PROVE UNCHANGED MB!vars
    BY <2>2, OthersStutter DEF NetNotify
  <2>3. ASSUME Take PROVE UNCHANGED MB!vars
    BY <2>3, TakeStutters
  <2>4. ASSUME TakeRaises \/ TransportWait \/ TransportNotify
        PROVE  UNCHANGED MB!vars
    BY <2>4, OthersStutter DEF TakeRaises, TransportWait, TransportNotify
  <2>5. ASSUME Deliver PROVE MB!Next \/ UNCHANGED MB!vars
    BY <2>5, DeliverStutters, DeliverDiscards DEF MB!Next
  <2>6. ASSUME NEW p \in Ports, Bind(p) PROVE MB!Next
    BY <2>6, BindBinds DEF MB!Next
  <2>7. ASSUME NEW p \in Ports, ReceiveAtOnce(p) \/ ReceiveWoken(p) PROVE MB!Next
    <3>1. PICK pc \in {"ready", "woken"} : PopLeft(p, pc)
      BY <2>7 DEF ReceiveAtOnce, ReceiveWoken
    <3>2. MB!Fetch(p)
      BY <3>1, PopFetches
    <3> QED
      BY <3>2 DEF MB!Next
  <2>8. ASSUME NEW p \in Ports, ReceiveEmpty(p) \/ ReceiveWait(p) \/ ReceiveRaises(p)
        PROVE  UNCHANGED MB!vars
    BY <2>8, OthersStutter DEF ReceiveEmpty, ReceiveWait, ReceiveRaises
  <2> QED
    BY <1>2, <2>1, <2>2, <2>3, <2>4, <2>5, <2>6, <2>7, <2>8
       DEF Next, TransportThread, Receive
<1> QED
  BY <1>1, <1>2

\* The two queues and the threads between them are a mailbox for each port:
\* whatever the interleaving, messages are neither lost, duplicated nor
\* reordered on their way, except those for a port without a socket.
THEOREM Refinement == Spec => ImplementsMailbox
<1>1. TypeOK /\ [Next]_vars => [MB!Next]_(MB!vars)
  BY StepMailbox
<1>2. Spec => MB!Init /\ [][MB!Next]_(MB!vars)
  BY <1>1, InitMailbox, InitType, TypeStep, PTL DEF Spec
<1> QED
  BY <1>2, PTL DEF ImplementsMailbox, MB!Spec
=============================================================================
