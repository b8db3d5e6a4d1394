-------------------------- MODULE ExperimentProofs --------------------------
(***************************************************************************)
(* Proofs about Experiment, for any nodes and configurations.              *)
(*                                                                         *)
(* A node may end because it has received a number 0, so the invariant     *)
(* says of every such number, from when it is sent on, why there is one.   *)
(***************************************************************************)
EXTENDS Experiment, TLAPS

\* m has ended because its time was over.
Through(m) == pc[m] = "done" /\ Over(m)

\* A node that sends to n has.
Told(n) == \E m \in Nodes : setup[m].remote = n /\ Through(m)

\* There is a number 0 for n.
Marked(n) ==
    \/ sequence_number[n] = 0
    \/ \E i \in 1 .. Len(inbox[n]) : inbox[n][i] = 0
    \/ \E msg \in net : msg.to = n /\ msg.number = 0

MarksTold == \A n \in Nodes : Marked(n) => Told(n)

Inv == TypeOK /\ MarksTold /\ EndsForAReason

-----------------------------------------------------------------------------
LEMMA SetupType ==
    ASSUME setup \in Setups, NEW n \in Nodes
    PROVE  /\ setup[n].remote \in Nodes \cup {None}
           /\ setup[n].bound \in BOOLEAN
           /\ setup[n].run_time \in Nat
           /\ setup[n].remote # n
BY ExperimentAssumption DEF Setup

LEMMA InitInv == Init => Inv
<1> SUFFICES ASSUME Init PROVE Inv
  OBVIOUS
<1> USE ExperimentAssumption
<1>1. TypeOK
  <2>1. setup \in Setups
    BY DEF Init
  <2>2. pc \in [Nodes -> Pcs]
    BY DEF Init, LoopTop, Pcs
  <2>3. \A n \in Nodes : /\ pc[n] = "send" => setup[n].remote # None
                         /\ pc[n] \in {"empty", "wait"} => Blocks(n)
    BY DEF Init, LoopTop
  <2>4. elapsed \in [Nodes -> Nat \cup {None}]
    BY DEF Init
  <2>5. sequence_number \in [Nodes -> Numbers \cup {None}]
    BY DEF Init, NoNumber
  <2>6. inbox \in [Nodes -> Seq(Numbers)]
    BY DEF Init
  <2>7. net \subseteq Message /\ final \in [Nodes -> {"none", "sent", "lost", "missed"}]
    BY DEF Init
  <2> QED
    BY <2>1, <2>2, <2>3, <2>4, <2>5, <2>6, <2>7 DEF TypeOK
<1>2. ASSUME NEW n \in Nodes PROVE ~Marked(n) /\ pc[n] # "done"
  <2>1. sequence_number[n] = None /\ inbox[n] = << >> /\ net = {}
    BY DEF Init, NoNumber
  <2>2. Len(inbox[n]) = 0 /\ None # 0
    BY <2>1
  <2>3. pc[n] # "done"
    BY DEF Init, LoopTop
  <2> QED
    BY <2>1, <2>2, <2>3 DEF Marked
<1> QED
  BY <1>1, <1>2 DEF Inv, MarksTold, EndsForAReason

-----------------------------------------------------------------------------
\* The next-state relation by its actions.
LEMMA Steps ==
    ASSUME Next, NEW P,
           \A n \in Nodes : SendData(n) => P,
           \A n \in Nodes : SendFails(n) => P,
           \A n \in Nodes : ReceiveOne(n) => P,
           \A n \in Nodes : ReceiveNothing(n) => P,
           \A n \in Nodes : Wait(n) => P,
           \A n \in Nodes : Finish(n) => P,
           \A n \in Nodes : FinishRaises(n) => P,
           \A n \in Nodes : Continue(n) => P,
           \A n \in Nodes : Die(n) => P,
           \A msg \in net : setup[msg.to].bound /\ pc[msg.to] # "done" /\ Deliver(msg) => P,
           \A msg \in net : Lose(msg) => P,
           Tick => P
    PROVE  P
BY DEF Next, App, Network

LEMMA TypeStep == TypeOK /\ [Next]_vars => TypeOK'
<1> SUFFICES ASSUME TypeOK, [Next]_vars PROVE TypeOK'
  OBVIOUS
<1> USE ExperimentAssumption, SetupType DEF TypeOK
<1>1. CASE UNCHANGED vars
  BY <1>1 DEF vars, Blocks
<1>2. CASE Next
  <2>1. ASSUME NEW n \in Nodes, SendData(n) PROVE TypeOK'
    <3>1. [to |-> setup[n].remote, number |-> 1] \in Message
      BY <2>1 DEF SendData, Message, Numbers
    <3> QED
      BY <2>1, <3>1 DEF SendData, Start, Goto, Pcs, Blocks
  <2>2. ASSUME NEW n \in Nodes, SendFails(n) PROVE TypeOK'
    BY <2>2 DEF SendFails, Goto, Pcs, Blocks
  <2>3. ASSUME NEW n \in Nodes, ReceiveOne(n) PROVE TypeOK'
    <3>1. /\ Head(inbox[n]) \in Numbers
          /\ Tail(inbox[n]) \in Seq(Numbers)
      BY <2>3 DEF ReceiveOne
    <3> QED
      BY <2>3, <3>1 DEF ReceiveOne, Start, Goto, Pcs, Blocks
  <2>4. ASSUME NEW n \in Nodes, ReceiveNothing(n) PROVE TypeOK'
    BY <2>4 DEF ReceiveNothing, Goto, Pcs, Blocks
  <2>5. ASSUME NEW n \in Nodes, Wait(n) PROVE TypeOK'
    BY <2>5 DEF Wait, Goto, Pcs, Blocks
  <2>6. ASSUME NEW n \in Nodes, Finish(n) PROVE TypeOK'
    <3>1. setup[n].remote # None =>
              [to |-> setup[n].remote, number |-> EndMark] \in Message
      BY DEF Message, Numbers, EndMark
    <3>2. /\ net' \subseteq Message
          /\ final' \in [Nodes -> {"none", "sent", "lost", "missed"}]
      <4>1. CASE setup[n].remote = None
        BY <2>6, <4>1 DEF Finish
      <4>2. CASE setup[n].remote # None
        <5>1. net' = net \cup {[to |-> setup[n].remote, number |-> EndMark]}
          BY <2>6, <4>2 DEF Finish
        <5>2. final' = [final EXCEPT ![setup[n].remote] = "sent"]
          BY <2>6, <4>2 DEF Finish
        <5>3. net' \subseteq Message
          BY <3>1, <4>2, <5>1
        <5> QED
          BY <5>2, <5>3
      <4> QED
        BY <4>1, <4>2
    <3>3. /\ pc' = [pc EXCEPT ![n] = "done"]
          /\ UNCHANGED <<setup, elapsed, sequence_number, inbox>>
      BY <2>6 DEF Finish, Goto
    <3> QED
      BY <3>2, <3>3 DEF Pcs, Blocks
  <2>7. ASSUME NEW n \in Nodes, FinishRaises(n) PROVE TypeOK'
    BY <2>7 DEF FinishRaises, Goto, Pcs, Blocks
  <2>8. ASSUME NEW n \in Nodes, Continue(n) PROVE TypeOK'
    BY <2>8 DEF Continue, LoopTop, Goto, Pcs, Blocks
  <2>9. ASSUME NEW n \in Nodes, Die(n) PROVE TypeOK'
    BY <2>9 DEF Die, Goto, Pcs, Blocks
  <2>10. ASSUME NEW msg \in net, Deliver(msg) PROVE TypeOK'
    <3>1. msg.to \in Nodes /\ msg.number \in Numbers
      BY DEF Message
    <3>2. Append(inbox[msg.to], msg.number) \in Seq(Numbers)
      BY <3>1
    <3> QED
      BY <2>10, <3>1, <3>2 DEF Deliver, Goto, Pcs, Blocks
  <2>11. ASSUME NEW msg \in net, Lose(msg) PROVE TypeOK'
    BY <2>11 DEF Lose, Blocks, Message
  <2>12. ASSUME Tick PROVE TypeOK'
    BY <2>12 DEF Tick, Pcs, Blocks
  <2> QED
    BY <1>2, <2>1, <2>2, <2>3, <2>4, <2>5, <2>6, <2>7, <2>8, <2>9, <2>10, <2>11,
       <2>12, Steps
<1> QED
  BY <1>1, <1>2

\* The types of the variables, for any nodes and configurations.
THEOREM TypeCorrect == Spec => []TypeOK
<1>1. Init => TypeOK
  BY InitInv DEF Inv
<1> QED
  BY <1>1, TypeStep, PTL DEF Spec

-----------------------------------------------------------------------------
\* A node that is through stays so: its clock has stopped.
LEMMA StaysThrough ==
    ASSUME TypeOK, [Next]_vars, NEW m \in Nodes, Through(m)
    PROVE  Through(m)'
<1> USE ExperimentAssumption, SetupType DEF TypeOK, Through, Over
<1>1. CASE UNCHANGED vars
  BY <1>1 DEF vars
<1>2. CASE Next
  <2>1. ASSUME NEW n \in Nodes, SendData(n) PROVE Through(m)'
    BY <2>1 DEF SendData, Start, Goto
  <2>2. ASSUME NEW n \in Nodes, SendFails(n) PROVE Through(m)'
    BY <2>2 DEF SendFails, Goto
  <2>3. ASSUME NEW n \in Nodes, ReceiveOne(n) PROVE Through(m)'
    BY <2>3 DEF ReceiveOne, Start, Goto
  <2>4. ASSUME NEW n \in Nodes, ReceiveNothing(n) PROVE Through(m)'
    BY <2>4 DEF ReceiveNothing, Goto
  <2>5. ASSUME NEW n \in Nodes, Wait(n) PROVE Through(m)'
    BY <2>5 DEF Wait, Goto
  <2>6. ASSUME NEW n \in Nodes, Finish(n) PROVE Through(m)'
    BY <2>6 DEF Finish, Goto
  <2>7. ASSUME NEW n \in Nodes, FinishRaises(n) PROVE Through(m)'
    BY <2>7 DEF FinishRaises, Goto
  <2>8. ASSUME NEW n \in Nodes, Continue(n) PROVE Through(m)'
    BY <2>8 DEF Continue, Goto
  <2>9. ASSUME NEW n \in Nodes, Die(n) PROVE Through(m)'
    BY <2>9 DEF Die, Goto
  <2>10. ASSUME NEW msg \in net, Deliver(msg) PROVE Through(m)'
    BY <2>10 DEF Deliver, Goto
  <2>11. ASSUME NEW msg \in net, Lose(msg) PROVE Through(m)'
    BY <2>11 DEF Lose
  <2>12. ASSUME Tick PROVE Through(m)'
    BY <2>12 DEF Tick
  <2> QED
    BY <1>2, <2>1, <2>2, <2>3, <2>4, <2>5, <2>6, <2>7, <2>8, <2>9, <2>10, <2>11,
       <2>12, Steps
<1> QED
  BY <1>1, <1>2

LEMMA SetupFixed == [Next]_vars => setup' = setup
BY DEF Next, App, Network, vars, SendData, SendFails, ReceiveOne, ReceiveNothing, Wait,
       Finish, FinishRaises, Continue, Die, Deliver, Lose, Tick

LEMMA StaysTold ==
    ASSUME TypeOK, [Next]_vars, NEW n \in Nodes, Told(n)
    PROVE  Told(n)'
<1>1. PICK m \in Nodes : setup[m].remote = n /\ Through(m)
  BY DEF Told
<1> QED
  BY <1>1, StaysThrough, SetupFixed DEF Told

\* Only a node that finishes marks another.
LEMMA MarksStep ==
    ASSUME TypeOK, MarksTold, [Next]_vars
    PROVE  MarksTold'
<1> SUFFICES ASSUME NEW k \in Nodes, Marked(k)', ~Marked(k)
             PROVE  Told(k)'
  BY StaysTold DEF MarksTold
<1> USE ExperimentAssumption, SetupType
<1>1. CASE UNCHANGED vars
  BY <1>1 DEF vars, Marked
<1>2. CASE Next
  <2>1. ASSUME NEW n \in Nodes, SendData(n) PROVE FALSE
    BY <2>1 DEF SendData, Marked
  <2>2. ASSUME NEW n \in Nodes, SendFails(n) PROVE FALSE
    BY <2>2 DEF SendFails, Marked
  <2>3. ASSUME NEW n \in Nodes, ReceiveOne(n) PROVE FALSE
    <3>1. /\ inbox[n] \in Seq(Numbers)
          /\ inbox[n] # << >>
          /\ sequence_number' = [sequence_number EXCEPT ![n] = inbox[n][1]]
          /\ inbox' = [inbox EXCEPT ![n] = Tail(@)]
          /\ net' = net
      BY <2>3 DEF ReceiveOne, TypeOK
    <3>2. CASE k = n
      <4>1. \A i \in 1 .. Len(inbox[n]) : inbox[n][i] # 0
        BY <3>2 DEF Marked
      <4>2. /\ Len(Tail(inbox[n])) = Len(inbox[n]) - 1
            /\ Len(inbox[n]) \in Nat \ {0}
            /\ \A i \in 1 .. Len(Tail(inbox[n])) : Tail(inbox[n])[i] = inbox[n][i + 1]
        BY <3>1
      <4>3. \A i \in 1 .. Len(Tail(inbox[n])) : Tail(inbox[n])[i] # 0
        BY <4>1, <4>2
      <4>4. inbox[n][1] # 0
        BY <4>1, <4>2
      <4>5. sequence_number'[n] = inbox[n][1] /\ inbox'[n] = Tail(inbox[n])
        BY <3>1 DEF TypeOK
      <4> QED
        BY <3>1, <3>2, <4>3, <4>4, <4>5 DEF Marked
    <3>3. CASE k # n
      BY <3>1, <3>3 DEF Marked, TypeOK
    <3> QED
      BY <3>2, <3>3
  <2>4. ASSUME NEW n \in Nodes, ReceiveNothing(n) PROVE FALSE
    BY <2>4 DEF ReceiveNothing, Marked
  <2>5. ASSUME NEW n \in Nodes, Wait(n) PROVE FALSE
    BY <2>5 DEF Wait, Marked
  <2>6. ASSUME NEW n \in Nodes, Finish(n) PROVE Told(k)'
    <3>1. setup[n].remote = k
      BY <2>6 DEF Finish, Marked
    <3>2. Through(n)'
      BY <2>6 DEF Finish, Goto, Through, Over, TypeOK
    <3> QED
      BY <3>1, <3>2, SetupFixed DEF Told
  <2>7. ASSUME NEW n \in Nodes, FinishRaises(n) PROVE FALSE
    BY <2>7 DEF FinishRaises, Marked
  <2>8. ASSUME NEW n \in Nodes, Continue(n) PROVE FALSE
    BY <2>8 DEF Continue, Marked
  <2>9. ASSUME NEW n \in Nodes, Die(n) PROVE FALSE
    BY <2>9 DEF Die, Marked
  <2>10. ASSUME NEW msg \in net, Deliver(msg) PROVE FALSE
    <3>1. /\ inbox[k] \in Seq(Numbers)
          /\ msg.to \in Nodes /\ msg.number \in Numbers
      BY DEF TypeOK, Message
    <3>2. \A i \in 1 .. Len(inbox[k]) : inbox[k][i] # 0
      BY DEF Marked
    <3>3. /\ sequence_number' = sequence_number
          /\ net' = net \ {msg}
          /\ inbox' = [inbox EXCEPT ![msg.to] = Append(@, msg.number)]
      BY <2>10 DEF Deliver
    <3>4. CASE k = msg.to
      <4>1. msg.number # 0
        BY <3>4 DEF Marked
      <4>2. \A i \in 1 .. Len(Append(inbox[k], msg.number)) :
               Append(inbox[k], msg.number)[i] # 0
        BY <3>1, <3>2, <4>1
      <4>3. inbox'[k] = Append(inbox[k], msg.number)
        BY <3>3, <3>4 DEF TypeOK
      <4> QED
        BY <3>3, <4>2, <4>3 DEF Marked
    <3>5. CASE k # msg.to
      BY <3>3, <3>5 DEF Marked, TypeOK
    <3> QED
      BY <3>4, <3>5
  <2>11. ASSUME NEW msg \in net, Lose(msg) PROVE FALSE
    BY <2>11 DEF Lose, Marked
  <2>12. ASSUME Tick PROVE FALSE
    BY <2>12 DEF Tick, Marked
  <2> QED
    BY <1>2, <2>1, <2>2, <2>3, <2>4, <2>5, <2>6, <2>7, <2>8, <2>9, <2>10, <2>11,
       <2>12, Steps
<1> QED
  BY <1>1, <1>2

\* A node ends at Finish, or at Continue with a 0 that it was told.
LEMMA ReasonStep ==
    ASSUME Inv, [Next]_vars
    PROVE  EndsForAReason'
<1> SUFFICES ASSUME NEW k \in Nodes, pc'[k] = "done"
             PROVE  Over(k)' \/ Told(k)'
  BY DEF EndsForAReason, Told, Through
<1>1. CASE pc[k] = "done"
  <2>1. Over(k) \/ Told(k)
    BY <1>1 DEF Inv, EndsForAReason, Told, Through
  <2>2. Over(k) => Over(k)'
    BY <1>1, StaysThrough DEF Inv, Through
  <2> QED
    BY <2>1, <2>2, StaysTold DEF Inv
<1>2. CASE pc[k] # "done"
  <2> USE DEF Inv, TypeOK
  <2>1. Finish(k) \/ Continue(k)
    <3>1. Next
      BY <1>2 DEF vars
    <3> DEFINE P == Finish(k) \/ Continue(k)
    <3>2. \A n \in Nodes : SendData(n) => P
      BY <1>2 DEF SendData, Goto
    <3>3. \A n \in Nodes : SendFails(n) => P
      BY <1>2 DEF SendFails, Goto
    <3>4. \A n \in Nodes : ReceiveOne(n) => P
      BY <1>2 DEF ReceiveOne, Goto
    <3>5. \A n \in Nodes : ReceiveNothing(n) => P
      BY <1>2 DEF ReceiveNothing, Goto
    <3>6. \A n \in Nodes : Wait(n) => P
      BY <1>2 DEF Wait, Goto
    <3>7. \A n \in Nodes : Finish(n) => P
      BY <1>2 DEF Finish, Goto
    <3>8. \A n \in Nodes : FinishRaises(n) => P
      BY <1>2 DEF FinishRaises, Goto
    <3>9. \A n \in Nodes : Continue(n) => P
      BY <1>2 DEF Continue, Goto
    <3>10. \A n \in Nodes : Die(n) => P
      BY <1>2 DEF Die, Goto
    <3>11. \A msg \in net : Deliver(msg) => P
      BY <1>2 DEF Deliver, Goto
    <3>12. \A msg \in net : Lose(msg) => P
      BY <1>2 DEF Lose
    <3>13. Tick => P
      BY <1>2 DEF Tick
    <3> HIDE DEF P
    <3>14. P
      BY <3>1, <3>2, <3>3, <3>4, <3>5, <3>6, <3>7, <3>8, <3>9, <3>10, <3>11, <3>12,
         <3>13, Steps
    <3> QED
      BY <3>14 DEF P
  <2>2. CASE Finish(k)
    BY <2>2 DEF Finish, Over
  <2>3. CASE Continue(k)
    <3>1. sequence_number[k] = 0
      BY <2>3 DEF Continue, Goto, LoopTop
    <3>2. Told(k)
      BY <3>1 DEF MarksTold, Marked
    <3> QED
      BY <3>2, StaysTold
  <2> QED
    BY <2>1, <2>2, <2>3
<1> QED
  BY <1>1, <1>2

\* A process exits only when its own time is over, or that of a node that sends
\* to it, however messages are lost, delayed and reordered.
THEOREM EndsRight == Spec => []EndsForAReason
<1>1. Inv /\ [Next]_vars => Inv'
  BY TypeStep, MarksStep, ReasonStep DEF Inv
<1>2. Inv => EndsForAReason
  BY DEF Inv
<1> QED
  BY InitInv, <1>1, <1>2, PTL DEF Spec
=============================================================================
