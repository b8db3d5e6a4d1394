---------------------------- MODULE SessionProofs ---------------------------
(***************************************************************************)
(* Proofs about Session, for any cycle of locators, any number of moves    *)
(* and of retries.                                                         *)
(*                                                                         *)
(* Seamless is about the moves the correspondent should know of.  It       *)
(* follows from what the first entry is after any update, until it expires. *)
(***************************************************************************)
EXTENDS Session, SequenceTheorems, TLAPS

\* Nothing is heard of a move that has not begun.
Timely ==
    /\ last_applied <= move
    /\ \A m \in Moves : Ack(m) \in net => m <= move /\ m \in heard
    /\ \A l \in Locators, m \in Moves : Update(l, m) \in net => m <= move

\* The correspondent sends to where the last update has told it to.
SendsAsTold ==
    ~missed => host_map # << >> /\ Head(host_map) = LocOf(last_applied)

Inv == TypeOK /\ Timely /\ SendsAsTold /\ StruckExplained

-----------------------------------------------------------------------------
(***************************************************************************)
(* Locators and tables                                                     *)
(***************************************************************************)
LEMMA LocOfType == ASSUME NEW m \in Nat PROVE LocOf(m) \in Locators
<1>1. Len(LocCycle) \in Nat /\ Len(LocCycle) > 1
  BY SessionAssumption
<1>2. (m % Len(LocCycle)) + 1 \in 1 .. Len(LocCycle)
  BY <1>1
<1> QED
  BY <1>2 DEF LocOf, Locators

LEMMA LocTypes ==
    ASSUME TypeOK
    PROVE  /\ move \in Nat /\ loc \in Locators /\ joined \subseteq Locators
           /\ phase = "handoff" => LocOf(move - 1) \in Locators
<1>1. move \in Nat /\ (phase = "handoff" => move - 1 \in Nat)
  BY SessionAssumption DEF TypeOK, Moves
<1> QED
  BY <1>1, LocOfType DEF loc, joined

\* The messages are told apart by their kind and contents.
LEMMA Messages ==
    /\ \A l \in Locators : Adv(l) \in Message
    /\ \A m \in Moves : Ack(m) \in Message
    /\ \A l \in Locators, m \in Moves : Update(l, m) \in Message
    /\ \A l, k, m : /\ Adv(l) # Ack(m) /\ Adv(l) # Update(k, m)
    /\ \A l, k, m : Ack(m) # Update(l, k)
    /\ \A k, m : Ack(k) = Ack(m) => k = m
    /\ \A l, k, m, n : Update(l, k) = Update(m, n) => l = m /\ k = n
<1>1. /\ \A l \in Locators : Adv(l) \in Message
      /\ \A m \in Moves : Ack(m) \in Message
      /\ \A l \in Locators, m \in Moves : Update(l, m) \in Message
  BY DEF Message
<1>2. /\ \A l : Adv(l).kind = "adv"
      /\ \A m : Ack(m).kind = "ack" /\ Ack(m).move = m
      /\ \A l, m : /\ Update(l, m).kind = "update"
                   /\ Update(l, m).src = l /\ Update(l, m).move = m
  BY DEF Adv, Ack, Update
<1> QED
  BY <1>1, <1>2

\* A table without the entry i.
LEMMA Removed ==
    ASSUME NEW s \in Seq(Locators), NEW i \in 1 .. Len(s)
    PROVE  /\ RemoveAt(s, i) \in Seq(Locators)
           /\ Len(RemoveAt(s, i)) = Len(s) - 1
           /\ \A j \in 1 .. Len(s) - 1 :
                 RemoveAt(s, i)[j] = IF j < i THEN s[j] ELSE s[j + 1]
<1> DEFINE before == SubSeq(s, 1, i - 1)
           after  == SubSeq(s, i + 1, Len(s))
<1>1. /\ before \in Seq(Locators) /\ Len(before) = i - 1
      /\ \A j \in 1 .. i - 1 : before[j] = s[j]
  OBVIOUS
<1>2. /\ after \in Seq(Locators) /\ Len(after) = Len(s) - i
      /\ \A j \in 1 .. Len(s) - i : after[j] = s[i + j]
  <2>1. \A j \in i + 1 .. Len(s) : s[j] \in Locators
    OBVIOUS
  <2>2. i + 1 \in Int /\ Len(s) \in Int /\ Len(s) >= i
    OBVIOUS
  <2>3. /\ after \in Seq(Locators)
        /\ Len(after) = IF i + 1 <= Len(s) THEN Len(s) - (i + 1) + 1 ELSE 0
        /\ \A j \in 1 .. Len(s) - (i + 1) + 1 : after[j] = s[i + 1 + j - 1]
    BY <2>1, <2>2, SubSeqProperties
  <2> HIDE DEF after
  <2>4. Len(after) = Len(s) - i
    BY <2>2, <2>3
  <2>5. ASSUME NEW j \in 1 .. Len(s) - i PROVE after[j] = s[i + j]
    <3>1. j \in 1 .. Len(s) - (i + 1) + 1 /\ i + 1 + j - 1 = i + j
      BY <2>2
    <3> QED
      BY <2>3, <3>1
  <2> QED
    BY <2>3, <2>4, <2>5
<1>3. RemoveAt(s, i) = before \o after
  BY DEF RemoveAt
<1> HIDE DEF before, after
<1>4. /\ before \o after \in Seq(Locators)
      /\ Len(before \o after) = Len(s) - 1
      /\ \A j \in 1 .. Len(s) - 1 :
            (before \o after)[j] = IF j <= i - 1 THEN before[j]
                                   ELSE after[j - (i - 1)]
  <2>1. /\ before \o after \in Seq(Locators)
        /\ Len(before \o after) = Len(before) + Len(after)
        /\ \A j \in 1 .. Len(before) + Len(after) :
              (before \o after)[j] = IF j <= Len(before) THEN before[j]
                                     ELSE after[j - Len(before)]
    BY <1>1, <1>2, ConcatProperties
  <2> QED
    BY <1>1, <1>2, <2>1
<1>5. ASSUME NEW j \in 1 .. Len(s) - 1
      PROVE  (before \o after)[j] = IF j < i THEN s[j] ELSE s[j + 1]
  <2>1. CASE j < i
    <3>1. j \in 1 .. i - 1 /\ j <= i - 1
      BY <2>1
    <3> QED
      BY <1>1, <1>4, <2>1, <3>1
  <2>2. CASE ~(j < i)
    <3>1. /\ ~(j <= i - 1)
          /\ j - (i - 1) \in 1 .. Len(s) - i /\ i + (j - (i - 1)) = j + 1
      BY <2>2
    <3>2. after[j - (i - 1)] = s[j + 1]
      BY <1>2, <3>1
    <3> QED
      BY <1>4, <2>2, <3>1, <3>2
  <2> QED
    BY <2>1, <2>2
<1> QED
  BY <1>3, <1>4, <1>5

\* The entries of a table are different ones.
NoneTwice(s) == \A i, j \in 1 .. Len(s) : s[i] = s[j] => i = j

LEMMA EnteredOnce ==
    ASSUME NEW l \in Locators, host_map \in Seq(Locators), NoneTwice(host_map)
    PROVE  /\ Entered(l) \in Seq(Locators) /\ NoneTwice(Entered(l))
           /\ host_map # << >> => /\ Entered(l) # << >>
                                  /\ Head(Entered(l)) = Head(host_map)
<1>1. CASE l \in Range(host_map)
  BY <1>1 DEF Entered
<1>2. CASE l \notin Range(host_map)
  <2>1. Entered(l) = Append(host_map, l)
    BY <1>2 DEF Entered
  <2>2. \A i \in 1 .. Len(host_map) : host_map[i] # l
    BY <1>2 DEF Range
  <2>3. /\ Append(host_map, l) \in Seq(Locators)
        /\ Append(host_map, l) # << >>
        /\ Len(Append(host_map, l)) = Len(host_map) + 1
        /\ \A i \in 1 .. Len(host_map) : Append(host_map, l)[i] = host_map[i]
        /\ Append(host_map, l)[Len(host_map) + 1] = l
    BY AppendProperties
  <2>4. NoneTwice(Append(host_map, l))
    BY <2>2, <2>3 DEF NoneTwice
  <2>5. host_map # << >> => Head(Append(host_map, l)) = Head(host_map)
    BY HeadTailAppend
  <2> QED
    BY <2>1, <2>3, <2>4, <2>5
<1> QED
  BY <1>1, <1>2

\* When an entry expires the others stay, and so does the first one, unless that
\* was it.
LEMMA Expired ==
    ASSUME NEW l, host_map \in Seq(Locators), NoneTwice(host_map), Expire(l)
    PROVE  /\ host_map' \in Seq(Locators) /\ NoneTwice(host_map')
           /\ host_map # << >> /\ ~missed'
                 => ~missed /\ host_map' # << >> /\ Head(host_map') = Head(host_map)
<1>1. PICK i \in 1 .. Len(host_map) :
         /\ host_map' = RemoveAt(host_map, i)
         /\ missed' = (missed \/ i = 1)
  BY DEF Expire
<1>2. /\ host_map' \in Seq(Locators)
      /\ Len(host_map') = Len(host_map) - 1
      /\ \A j \in 1 .. Len(host_map) - 1 :
            host_map'[j] = IF j < i THEN host_map[j] ELSE host_map[j + 1]
  BY <1>1, Removed
<1>3. NoneTwice(host_map')
  <2> SUFFICES ASSUME NEW j \in 1 .. Len(host_map'),
                      NEW k \in 1 .. Len(host_map'),
                      host_map'[j] = host_map'[k]
               PROVE  j = k
    BY DEF NoneTwice
  <2> DEFINE at(x) == IF x < i THEN x ELSE x + 1
  <2>1. host_map[at(j)] = host_map[at(k)]
    BY <1>2
  <2>2. at(j) \in 1 .. Len(host_map) /\ at(k) \in 1 .. Len(host_map)
    BY <1>2
  <2>3. at(j) = at(k)
    BY <2>1, <2>2 DEF NoneTwice
  <2> QED
    BY <2>3, <1>2
<1>4. ASSUME host_map # << >>, ~missed'
      PROVE  ~missed /\ host_map' # << >> /\ Head(host_map') = Head(host_map)
  <2>1. Head(host_map) = host_map[1]
    BY <1>4
  <2>2. ~missed /\ i # 1
    BY <1>1, <1>4, Zenon
  <2>3. host_map'[1] = host_map[1] /\ Len(host_map') > 0
    <3>1. i > 1 /\ Len(host_map) > 1
      BY <2>2
    <3> QED
      BY <1>2, <3>1
  <2> QED
    BY <1>2, <2>1, <2>2, <2>3
<1> QED
  BY <1>2, <1>3, <1>4

-----------------------------------------------------------------------------
(***************************************************************************)
(* Types                                                                   *)
(***************************************************************************)
LEMMA InitInv == Init => Inv
<1> SUFFICES ASSUME Init PROVE Inv
  OBVIOUS
<1> USE SessionAssumption
<1>1. loc \in Locators
  BY LocOfType DEF Init, loc
<1>2. /\ host_map = <<loc>> /\ host_map \in Seq(Locators)
      /\ Len(host_map) = 1 /\ Head(host_map) = loc /\ host_map # << >>
  BY <1>1 DEF Init
<1>3. TypeOK
  <2>1. \A i, j \in 1 .. Len(host_map) : i = j
    BY <1>2
  <2>2. 0 \in Moves /\ tries \in 0 .. Retries + 1
    BY DEF Init, Moves
  <2> QED
    BY <1>1, <1>2, <2>1, <2>2 DEF Init, TypeOK
<1>4. Timely
  BY DEF Init, Timely
<1> QED
  BY <1>2, <1>3, <1>4 DEF Init, Inv, SendsAsTold, StruckExplained, loc

LEMMA TypeStep == TypeOK /\ [Next]_vars => TypeOK'
<1> SUFFICES ASSUME TypeOK, [Next]_vars PROVE TypeOK'
  OBVIOUS
<1> USE SessionAssumption
<1>1. /\ move \in Nat /\ Moves \subseteq Nat /\ loc \in Locators
      /\ joined \subseteq Locators
  BY LocTypes DEF Moves
<1>2. CASE BeginMove
  <2>1. move + 1 \in Moves
    BY <1>1, <1>2 DEF BeginMove, Moves
  <2>2. Adv(LocOf(move + 1)) \in Message
    BY <1>1, LocOfType, Messages
  <2> QED
    BY <1>1, <1>2, <2>1, <2>2 DEF BeginMove, TypeOK, peer, past
<1>3. CASE SendUpdate
  <2>1. PICK l \in IF interface # None THEN {interface} ELSE joined :
           net' = net \cup {Update(l, move)}
    BY <1>3 DEF SendUpdate
  <2>2. l \in Locators /\ move \in Moves
    BY <1>1, <2>1 DEF TypeOK
  <2>3. net' \subseteq Message
    BY <2>1, <2>2, Messages DEF TypeOK
  <2> QED
    BY <1>3, <2>3 DEF SendUpdate, TypeOK, peer, past
<1>4. CASE EndHandoff
  BY <1>4 DEF EndHandoff, TypeOK, peer, past
<1>5. ASSUME NEW m \in Moves, HandleAck(m) PROVE TypeOK'
  BY <1>5 DEF HandleAck, TypeOK, peer
<1>6. CASE Announce
  BY <1>1, <1>6, Messages DEF Announce, TypeOK, node, peer, past
<1>7. ASSUME NEW l \in Locators, NEW m \in Moves, HandleUpdate(l, m)
      PROVE  TypeOK'
  <2>1. Ack(m) \in Message
    BY Messages
  <2>2. LocOf(m) \in Locators
    BY <1>1, LocOfType
  <2>3. /\ NewMap(LocOf(m)) \in Seq(Locators)
        /\ Len(NewMap(LocOf(m))) = 1
    BY <2>2 DEF NewMap
  <2>4. /\ host_map' \in Seq(Locators)
        /\ \A i, j \in 1 .. Len(host_map') :
              host_map'[i] = host_map'[j] => i = j
    BY <1>7, <2>3 DEF HandleUpdate, TypeOK
  <2> QED
    BY <1>7, <2>1, <2>4 DEF HandleUpdate, TypeOK, node
<1>8. ASSUME NEW l \in Locators, HandleAdv(l) PROVE TypeOK'
  <2>1. host_map' \in Seq(Locators) /\ NoneTwice(host_map')
    BY <1>8, EnteredOnce DEF HandleAdv, TypeOK, NoneTwice
  <2> QED
    BY <1>8, <2>1 DEF HandleAdv, TypeOK, NoneTwice, node, past
<1>9. ASSUME NEW l \in Locators, Expire(l) PROVE TypeOK'
  <2>1. host_map' \in Seq(Locators) /\ NoneTwice(host_map')
    BY <1>9, Expired DEF TypeOK, NoneTwice
  <2> QED
    BY <1>9, <2>1 DEF Expire, TypeOK, NoneTwice, node, past
<1>10. CASE Lose
  BY <1>10 DEF Lose, TypeOK, node, peer, past
<1>11. CASE UNCHANGED vars
  BY <1>11 DEF vars, TypeOK, node, peer, past
<1> QED
  BY <1>2, <1>3, <1>4, <1>5, <1>6, <1>7, <1>8, <1>9, <1>10, <1>11 DEF Next

\* The types, for any cycle and any number of moves and retries.
THEOREM TypeCorrect == Spec => []TypeOK
<1>1. Init => TypeOK
  BY InitInv DEF Inv
<1> QED
  BY <1>1, TypeStep, PTL DEF Spec

-----------------------------------------------------------------------------
(***************************************************************************)
(* Updates                                                                 *)
(***************************************************************************)

\* What has been heard of, and is still to be heard of, has been sent.
LEMMA TimelyStep ==
    ASSUME Inv, [Next]_vars
    PROVE  Timely'
<1> USE SessionAssumption
<1>1. /\ TypeOK /\ Timely /\ move \in Nat /\ move \in Moves
      /\ last_applied \in Nat /\ Moves \subseteq Nat /\ joined \subseteq Locators
  BY LocTypes DEF Inv, TypeOK, Moves
<1>2. CASE BeginMove
  <2>1. move' = move + 1 /\ last_applied' = last_applied /\ heard' = heard
        /\ net' = net \cup {Adv(LocOf(move + 1))}
    BY <1>2 DEF BeginMove, past
  <2> QED
    BY <1>1, <2>1, Messages DEF Timely
<1>3. CASE SendUpdate
  <2>1. /\ move' = move /\ last_applied' = last_applied /\ heard' = heard
        /\ \E l : net' = net \cup {Update(l, move)}
    BY <1>3 DEF SendUpdate, past
  <2> QED
    BY <1>1, <2>1, Messages DEF Timely
<1>4. CASE EndHandoff \/ Lose
  BY <1>1, <1>4 DEF EndHandoff, Lose, node, past, Timely
<1>5. ASSUME NEW m \in Moves, HandleAck(m) PROVE Timely'
  BY <1>1, <1>5 DEF HandleAck, Timely
<1>6. CASE Announce
  BY <1>1, <1>6, Messages DEF Announce, Timely, node, past
<1>7. ASSUME NEW l \in Locators, NEW m \in Moves, HandleUpdate(l, m)
      PROVE  Timely'
  <2>1. m <= move
    BY <1>1, <1>7 DEF HandleUpdate, Timely
  <2>2. /\ net' = (net \ {Update(l, m)}) \cup {Ack(m)} /\ move' = move
        /\ heard' = heard \cup {m}
        /\ last_applied' = last_applied \/ last_applied' = m
    BY <1>7 DEF HandleUpdate, node
  <2> QED
    BY <1>1, <2>1, <2>2, Messages DEF Timely
<1>8. ASSUME NEW l \in Locators, HandleAdv(l) \/ Expire(l) PROVE Timely'
  BY <1>1, <1>8 DEF HandleAdv, Expire, Timely, node, past
<1>9. CASE UNCHANGED vars
  BY <1>1, <1>9 DEF vars, node, peer, past, Timely
<1> QED
  BY <1>2, <1>3, <1>4, <1>5, <1>6, <1>7, <1>8, <1>9 DEF Next

LEMMA StruckStep ==
    ASSUME Inv, [Next]_vars
    PROVE  StruckExplained'
<1>1. TypeOK /\ Timely /\ StruckExplained
  BY DEF Inv
<1>2. CASE BeginMove
  BY <1>2 DEF BeginMove, StruckExplained
<1>3. ASSUME NEW m \in Moves, HandleAck(m) PROVE StruckExplained'
  <2>1. m <= move /\ m \in heard /\ m \in Nat /\ move \in Nat
    BY <1>1, <1>3 DEF HandleAck, Timely, TypeOK, Moves
  <2> QED
    BY <1>1, <1>3, <2>1 DEF HandleAck, StruckExplained
<1>4. ASSUME NEW l \in Locators, NEW m \in Moves, HandleUpdate(l, m)
      PROVE  StruckExplained'
  <2>1. /\ heard \subseteq heard' /\ struck_by' = struck_by
        /\ move' = move /\ phase' = phase /\ pending' = pending
    BY <1>4 DEF HandleUpdate, node
  <2> QED
    BY <1>1, <2>1 DEF StruckExplained
<1> QED
  BY <1>1, <1>2, <1>3, <1>4
     DEF Next, SendUpdate, EndHandoff, Announce, HandleAdv, Expire, Lose,
         StruckExplained, vars, node, peer, past

\* An update replaces the whole table, and what comes after it is appended; so the
\* first entry stays until it expires.
LEMMA ToldStep ==
    ASSUME Inv, [Next]_vars
    PROVE  SendsAsTold'
<1>1. /\ TypeOK /\ SendsAsTold
      /\ host_map \in Seq(Locators) /\ NoneTwice(host_map)
  BY DEF Inv, TypeOK, NoneTwice
<1>2. ASSUME NEW l \in Locators, NEW m \in Moves, HandleUpdate(l, m)
      PROVE  SendsAsTold'
  <2>1. CASE l \in known
    <3>1. host_map' = <<LocOf(m)>> /\ last_applied' = m
      BY <1>2, <2>1 DEF HandleUpdate, NewMap
    <3>2. host_map' # << >> /\ Head(host_map') = LocOf(m)
      BY <3>1
    <3> QED
      BY <3>1, <3>2 DEF SendsAsTold, LocOf
  <2>2. CASE l \notin known
    BY <1>1, <1>2, <2>2 DEF HandleUpdate, SendsAsTold, LocOf
  <2> QED
    BY <2>1, <2>2
<1>3. ASSUME NEW l \in Locators, HandleAdv(l) PROVE SendsAsTold'
  <2>1. host_map' = Entered(l) /\ last_applied' = last_applied /\ missed' = missed
    BY <1>3 DEF HandleAdv, past
  <2> QED
    BY <1>1, <2>1, EnteredOnce DEF SendsAsTold, LocOf
<1>4. ASSUME NEW l \in Locators, Expire(l) PROVE SendsAsTold'
  <2>1. last_applied' = last_applied /\ (missed => missed')
    BY <1>4 DEF Expire
  <2>2. host_map # << >> /\ ~missed'
           => ~missed /\ host_map' # << >> /\ Head(host_map') = Head(host_map)
    BY <1>1, <1>4, Expired
  <2> QED
    BY <1>1, <2>1, <2>2 DEF SendsAsTold, LocOf
<1>5. CASE UNCHANGED <<host_map, last_applied, missed>>
  BY <1>1, <1>5 DEF SendsAsTold, LocOf
<1> QED
  BY <1>2, <1>3, <1>4, <1>5
     DEF Next, BeginMove, SendUpdate, EndHandoff, HandleAck, Announce, Lose, vars,
         node, peer, past

LEMMA InvStep == Inv /\ [Next]_vars => Inv'
BY TypeStep, TimelyStep, StruckStep, ToldStep DEF Inv

\* A node is found where the correspondent sends to when the correspondent was told
\* of its last move in time and its first entry has not expired since, however
\* long the cycle, and however many moves and retries there are.
THEOREM SeamlessMoves == Spec => []Seamless
<1>1. ASSUME Inv PROVE Seamless
  <2>1. TypeOK /\ SendsAsTold /\ last_applied <= move
    BY <1>1 DEF Inv, Timely
  <2>2. move \in Nat /\ last_applied \in Nat
    BY <2>1, SessionAssumption DEF TypeOK, Moves
  <2>3. ASSUME last_applied >= Due PROVE LocOf(last_applied) \in joined
    <3>1. CASE phase = "handoff"
      <4>1. last_applied = move \/ last_applied = move - 1
        BY <2>1, <2>2, <2>3, <3>1 DEF Due
      <4> QED
        BY <3>1, <4>1 DEF joined, loc
    <3>2. CASE phase # "handoff"
      <4>1. last_applied = move
        BY <2>1, <2>2, <2>3, <3>2 DEF Due
      <4> QED
        BY <4>1 DEF joined, loc
    <3> QED
      BY <3>1, <3>2
  <2> QED
    BY <2>1, <2>3 DEF Seamless, SendsAsTold
<1> QED
  BY <1>1, InitInv, InvStep, PTL DEF Spec

\* Why the retries of a move end.
THEOREM Struck == Spec => []StruckExplained
<1>1. Inv => StruckExplained
  BY DEF Inv
<1> QED
  BY <1>1, InitInv, InvStep, PTL DEF Spec
=============================================================================
