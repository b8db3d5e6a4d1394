------------------------ MODULE SolicitationProofs -------------------------
(***************************************************************************)
(* Proofs about Solicitation, for any nodes, locators and wait_time.       *)
(*                                                                         *)
(* AnnouncedInTime is not inductive: that a node will be announced in time *)
(* depends on how long its thread still sleeps, and that on the timestamp. *)
(* Inv relates the two to the silence on the locator heard of last.        *)
(***************************************************************************)
EXTENDS Solicitation, TLAPS

\* For no more than so many ticks has n been where it is without a word of one of
\* its locators.
Recent(n, ticks) ==
    \/ settled[n] <= ticks
    \/ \E loc \in locs_joined(n) : silent[n][loc] <= ticks

\* No tick counts while sends raise.
Moving(n) == ~Settled(n) => settled[n] = 0

\* A node has been silent for no longer than its timestamp says, or it is
\* time to solicit.
Paced(n) == solititation_timestamp[n] = Stale \/ Recent(n, solititation_timestamp[n])

\* It wakes up in time.
WakesInTime(n) == Recent(n, 2 * wait_time - wake[n])

\* While it solicits no tick counts, or it has named what it has been through.
Covered(n) ==
    sol_pc[n] = "solicit" =>
        /\ wake[n] = 0
        /\ \/ settled[n] = 0
           \/ \A loc \in locs_joined(n) \ sol_todo[n] : silent[n][loc] = 0

Timely(n) == Moving(n) /\ Paced(n) /\ WakesInTime(n) /\ Covered(n)

Inv ==
    /\ TypeOK
    /\ \A n \in Nodes : Timely(n)

-----------------------------------------------------------------------------
LEMMA InitInv == Init => Inv
<1> SUFFICES ASSUME Init PROVE Inv
  OBVIOUS
<1>1. TypeOK
  BY SolicitationAssumption DEF Init, TypeOK, Stale, Long
<1>2. ASSUME NEW n \in Nodes PROVE Timely(n)
  BY SolicitationAssumption
     DEF Init, Timely, Moving, Paced, WakesInTime, Covered, Recent, Stale
<1> QED
  BY <1>1, <1>2 DEF Inv

\* What is named is named now, and nothing else changes.
LEMMA NamedNow ==
    ASSUME TypeOK, NEW pairs
    PROVE  /\ Named(pairs) \in [Nodes -> [Locators -> 0 .. Long]]
           /\ \A n \in Nodes, loc \in Locators :
                 Named(pairs)[n][loc] =
                    IF <<n, loc>> \in pairs THEN 0 ELSE silent[n][loc]
BY SolicitationAssumption DEF TypeOK, Named, Long

LEMMA CountBounds ==
    ASSUME NEW age \in 0 .. Long
    PROVE  Count(age) \in 0 .. Long /\ Count(age) <= age + 1
BY SolicitationAssumption DEF Count, Long

LEMMA TypeStep == TypeOK /\ [Next]_vars => TypeOK'
<1> SUFFICES ASSUME TypeOK, [Next]_vars PROVE TypeOK'
  OBVIOUS
<1> USE SolicitationAssumption
<1>1. CASE Tick
  <2>1. wake' \in [Nodes -> 0 .. wait_time]
    BY <1>1 DEF Tick, TypeOK
  <2>2. solititation_timestamp' \in [Nodes -> 0 .. Stale]
    BY <1>1 DEF Tick, Stale, TypeOK
  <2>3. silent' \in [Nodes -> [Locators -> 0 .. Long]]
    <3>1. \A n \in Nodes, loc \in Locators : Count(silent[n][loc]) \in 0 .. Long
      BY CountBounds DEF TypeOK
    <3> QED
      BY <1>1, <3>1 DEF Tick
  <2>4. settled' \in [Nodes -> 0 .. Long]
    <3>1. \A n \in Nodes : Count(settled[n]) \in 0 .. Long
      BY CountBounds DEF TypeOK
    <3> QED
      BY <1>1, <3>1 DEF Tick, Long
  <2> QED
    BY <1>1, <2>1, <2>2, <2>3, <2>4 DEF Tick, TypeOK
<1>2. ASSUME NEW n \in Nodes, SolititationThread(n) PROVE TypeOK'
  <2>1. CASE Begin(n)
    BY <2>1 DEF Begin, locs_joined, TypeOK
  <2>2. CASE Skip(n)
    BY <2>2 DEF Skip, Sleep, TypeOK
  <2>3. CASE SolicitRaises(n)
    BY <2>3 DEF SolicitRaises, TypeOK
  <2>4. CASE Done(n)
    BY <2>4 DEF Done, Sleep, Stale, TypeOK
  <2>5. ASSUME NEW loc \in Locators, NEW heard \in SUBSET Ears,
               Solicit(n, loc, heard)
        PROVE  TypeOK'
    <3>1. silent' \in [Nodes -> [Locators -> 0 .. Long]]
      BY <2>5, NamedNow DEF Solicit
    <3>2. solititation_timestamp' \in [Nodes -> 0 .. Stale]
      BY <2>5 DEF Solicit, Stale, TypeOK
    <3> QED
      BY <2>5, <3>1, <3>2 DEF Solicit, TypeOK
  <2> QED
    BY <1>2, <2>1, <2>2, <2>3, <2>4, <2>5 DEF SolititationThread
<1>3. ASSUME NEW n \in Nodes, MoveThread(n) PROVE TypeOK'
  <2>1. CASE Retarget(n)
    <3>1. /\ leg' \in [Nodes -> Nat]
          /\ \A m \in Nodes : leg'[m] \in 1 .. Len(LocCycle[m])
      <4>1. (leg[n] % Len(LocCycle[n])) + 1 \in 1 .. Len(LocCycle[n])
        BY DEF TypeOK
      <4> QED
        BY <2>1, <4>1 DEF Retarget, TypeOK
    <3>2. settled' \in [Nodes -> 0 .. Long]
      BY <2>1 DEF Retarget, TypeOK, Long
    <3> QED
      BY <2>1, <3>1, <3>2 DEF Retarget, TypeOK
  <2>2. ASSUME NEW loc \in Locators, Join(n, loc) PROVE TypeOK'
    <3>1. silent' \in [Nodes -> [Locators -> 0 .. Long]]
      BY <2>2, NamedNow DEF Join
    <3> QED
      BY <2>2, <3>1 DEF Join, TypeOK
  <2>3. ASSUME NEW loc \in Locators, Leave(n, loc) PROVE TypeOK'
    BY <2>3 DEF Leave, TypeOK
  <2> QED
    BY <1>3, <2>1, <2>2, <2>3 DEF MoveThread
<1>4. CASE UNCHANGED vars
  BY <1>4 DEF vars, TypeOK
<1> QED
  BY <1>1, <1>2, <1>3, <1>4 DEF Next

\* The types, for any nodes, cycles of locators and wait_time.
THEOREM TypeCorrect == Spec => []TypeOK
<1>1. Init => TypeOK
  BY InitInv DEF Inv
<1> QED
  BY <1>1, TypeStep, PTL DEF Spec

-----------------------------------------------------------------------------
\* The bounds of the numbers of a node, and that it is somewhere.
LEMMA Bounds ==
    ASSUME TypeOK, NEW n \in Nodes
    PROVE  /\ \A loc \in Locators : silent[n][loc] \in 0 .. Long
           /\ settled[n] \in 0 .. Long
           /\ wake[n] \in 0 .. wait_time
           /\ solititation_timestamp[n] \in 0 .. Stale
           /\ locs_joined(n) \subseteq Locators
           /\ locs_joined(n) # {}
           /\ wait_time \in Nat /\ Stale = wait_time + 1
BY SolicitationAssumption DEF TypeOK, Stale, locs_joined

\* If not more is counted than before, nothing becomes less recent.
LEMMA StaysRecent ==
    ASSUME TypeOK, TypeOK', NEW n \in Nodes, NEW ticks \in Int, Recent(n, ticks),
           \/ settled'[n] = 0 /\ ticks >= 0
           \/ /\ settled'[n] = settled[n]
              /\ locs_joined(n)' = locs_joined(n)
              /\ \A loc \in Locators : silent'[n][loc] <= silent[n][loc]
    PROVE  Recent(n, ticks)'
<1>1. /\ \A loc \in Locators : silent'[n][loc] \in 0 .. Long
      /\ settled'[n] \in 0 .. Long
  BY DEF TypeOK
<1>2. CASE settled'[n] = 0 /\ ticks >= 0
  BY <1>2 DEF Recent
<1>3. CASE /\ settled'[n] = settled[n]
           /\ locs_joined(n)' = locs_joined(n)
           /\ \A loc \in Locators : silent'[n][loc] <= silent[n][loc]
  <2>1. CASE settled[n] <= ticks
    BY <1>3, <2>1 DEF Recent
  <2>2. ASSUME NEW loc \in locs_joined(n), silent[n][loc] <= ticks
        PROVE  Recent(n, ticks)'
    <3>1. loc \in Locators /\ loc \in locs_joined(n)'
      BY <1>3, <2>2, Bounds
    <3>2. silent'[n][loc] <= ticks
      BY <1>1, <1>3, <2>2, <3>1, Bounds
    <3> QED
      BY <3>1, <3>2 DEF Recent
  <2> QED
    BY <2>1, <2>2 DEF Recent
<1> QED
  BY <1>2, <1>3

\* One more tick of silence is one less of sleep; and where a node is not with
\* all its groups, nothing is counted.
LEMMA TimelyTick ==
    ASSUME Inv, Tick, NEW n \in Nodes
    PROVE  Timely(n)'
<1>1. Timely(n) /\ TypeOK
  BY DEF Inv
<1>2. /\ \A loc \in Locators : silent'[n][loc] = Count(silent[n][loc])
      /\ settled'[n] = IF Settled(n) THEN Count(settled[n]) ELSE 0
      /\ wake'[n] = IF wake[n] > 0 THEN wake[n] - 1 ELSE 0
      /\ solititation_timestamp'[n] =
            IF solititation_timestamp[n] = Stale THEN Stale
            ELSE solititation_timestamp[n] + 1
      /\ sol_pc'[n] = sol_pc[n] /\ sol_todo'[n] = sol_todo[n]
      /\ Settled(n) => sol_pc[n] = "sleep" /\ wake[n] > 0
  BY DEF Tick
<1>3. /\ locs_joined(n)' = locs_joined(n)
      /\ Settled(n)' <=> Settled(n)
  BY DEF Tick, locs_joined, Settled
<1>4. CASE ~Settled(n)
  <2>1. settled'[n] = 0 /\ wake'[n] \in 0 .. wait_time
        /\ solititation_timestamp'[n] \in Nat
        /\ sol_pc[n] = "solicit" => wake'[n] = 0
    BY <1>1, <1>2, <1>4, Bounds DEF Timely, Covered
  <2> QED
    BY <1>2, <1>3, <1>4, <2>1, Bounds, <1>1
       DEF Timely, Moving, Paced, WakesInTime, Covered, Recent
<1>5. CASE Settled(n)
  <2>1. ASSUME NEW ticks \in Int, Recent(n, ticks)
        PROVE  Recent(n, ticks + 1)'
    <3>1. settled[n] <= ticks => settled'[n] <= ticks + 1
      BY <1>1, <1>2, <1>5, Bounds, CountBounds,
         SolicitationAssumption DEF Long
    <3>2. \A loc \in locs_joined(n) :
             silent[n][loc] <= ticks => silent'[n][loc] <= ticks + 1
      <4> SUFFICES ASSUME NEW loc \in locs_joined(n), silent[n][loc] <= ticks
                   PROVE  silent'[n][loc] <= ticks + 1
        OBVIOUS
      <4>1. loc \in Locators /\ silent[n][loc] \in 0 .. Long
        BY <1>1, Bounds
      <4>2. /\ silent'[n][loc] \in 0 .. Long
            /\ silent'[n][loc] <= silent[n][loc] + 1
        BY <1>2, <4>1, CountBounds
      <4> QED
        BY <4>1, <4>2, SolicitationAssumption DEF Long
    <3> QED
      BY <1>3, <2>1, <3>1, <3>2 DEF Recent
  <2>2. Paced(n)'
    <3>1. CASE solititation_timestamp[n] = Stale
      BY <1>2, <3>1 DEF Paced, Stale
    <3>2. CASE solititation_timestamp[n] # Stale
      <4>1. PICK age \in Int : /\ age = solititation_timestamp[n]
                              /\ age + 1 = solititation_timestamp'[n]
        BY <1>1, <1>2, <3>2, Bounds
      <4>2. Recent(n, age + 1)'
        <5>1. Recent(n, age)
          BY <1>1, <3>2, <4>1 DEF Timely, Paced
        <5> QED
          BY <2>1, <5>1
      <4> QED
        BY <4>1, <4>2 DEF Paced
    <3> QED
      BY <3>1, <3>2
  <2>3. WakesInTime(n)'
    <3>1. PICK left \in Int : /\ left = 2 * wait_time - wake[n]
                             /\ left + 1 = 2 * wait_time - wake'[n]
      BY <1>1, <1>2, <1>5, Bounds
    <3>2. Recent(n, left + 1)'
      <4>1. Recent(n, left)
        BY <1>1, <3>1 DEF Timely, WakesInTime
      <4> QED
        BY <2>1, <4>1
    <3> QED
      BY <3>1, <3>2 DEF WakesInTime
  <2>4. Moving(n)' /\ Covered(n)'
    BY <1>2, <1>3, <1>5 DEF Moving, Covered
  <2> QED
    BY <2>2, <2>3, <2>4 DEF Timely
<1> QED
  BY <1>4, <1>5

\* The solicitation thread of m sleeps only when m was announced less than a
\* wait_time ago, or just now; and what a node hears it answers.
LEMMA TimelySolicitation ==
    ASSUME Inv, TypeOK', NEW m \in Nodes, SolititationThread(m), NEW n \in Nodes
    PROVE  Timely(n)'
<1>1. Timely(n) /\ TypeOK
  BY DEF Inv
<1>2. /\ locs_joined(n)' = locs_joined(n)
      /\ Settled(n)' <=> Settled(n)
      /\ settled' = settled
  BY DEF SolititationThread, Begin, Skip, SolicitRaises, Done, Solicit,
         locs_joined, Settled
<1>3. Moving(n)'
  BY <1>1, <1>2 DEF Timely, Moving
<1>4. CASE Begin(m)
  <2>1. /\ silent' = silent /\ wake' = wake
        /\ solititation_timestamp' = solititation_timestamp
    BY <1>4 DEF Begin
  <2>2. Paced(n)' /\ WakesInTime(n)'
    BY <1>1, <1>2, <2>1 DEF Timely, Paced, WakesInTime, Recent, Stale
  <2>3. Covered(n)'
    BY <1>1, <1>2, <1>4, <2>1 DEF Begin, Awake, Timely, Covered, TypeOK
  <2> QED
    BY <1>3, <2>2, <2>3 DEF Timely
<1>5. CASE Skip(m)
  <2>1. /\ silent' = silent /\ solititation_timestamp' = solititation_timestamp
        /\ sol_pc' = sol_pc /\ sol_todo' = sol_todo
    BY <1>5 DEF Skip
  <2>2. Paced(n)'
    BY <1>1, <1>2, <2>1 DEF Timely, Paced, Recent, Stale
  <2>3. CASE n = m
    <3>1. wake'[n] \in 0 .. wait_time /\ sol_pc[n] = "sleep"
      BY <1>1, <1>5, <2>3 DEF Skip, Awake, Sleep, TypeOK
    <3>2. Recent(n, wait_time)
      BY <1>1, <1>5, <2>3, Bounds DEF Skip, Due, Timely, Paced, Recent
    <3>3. WakesInTime(n)'
      BY <1>1, <1>2, <2>1, <3>1, <3>2, Bounds DEF WakesInTime, Recent
    <3>4. Covered(n)'
      BY <2>1, <3>1 DEF Covered
    <3> QED
      BY <1>3, <2>2, <3>3, <3>4 DEF Timely
  <2>4. CASE n # m
    <3>1. wake'[n] = wake[n]
      BY <1>1, <1>5, <2>4 DEF Skip, Sleep, TypeOK
    <3>2. WakesInTime(n)' /\ Covered(n)'
      BY <1>1, <1>2, <2>1, <3>1 DEF Timely, WakesInTime, Covered, Recent
    <3> QED
      BY <1>3, <2>2, <3>2 DEF Timely
  <2> QED
    BY <2>3, <2>4
<1>6. CASE SolicitRaises(m)
  <2>1. /\ silent' = silent /\ wake' = wake
        /\ solititation_timestamp' = solititation_timestamp
    BY <1>6 DEF SolicitRaises
  <2>2. Paced(n)' /\ WakesInTime(n)'
    BY <1>1, <1>2, <2>1 DEF Timely, Paced, WakesInTime, Recent, Stale
  <2>3. Covered(n)'
    BY <1>1, <1>2, <1>6, <2>1 DEF SolicitRaises, Timely, Covered, TypeOK
  <2> QED
    BY <1>3, <2>2, <2>3 DEF Timely
<1>7. CASE Done(m)
  <2>1. silent' = silent /\ sol_todo' = sol_todo
    BY <1>7 DEF Done
  <2>2. CASE n = m
    <3>1. /\ wake'[n] \in 0 .. wait_time /\ sol_pc'[n] = "sleep"
          /\ solititation_timestamp'[n] = 0
      BY <1>1, <1>7, <2>2 DEF Done, Sleep, TypeOK
    <3>2. Recent(n, 0)
      BY <1>1, <1>7, <2>2, Bounds DEF Done, Timely, Covered, Recent
    <3>3. Paced(n)'
      BY <1>2, <2>1, <3>1, <3>2 DEF Paced, Recent
    <3>4. WakesInTime(n)'
      BY <1>1, <1>2, <2>1, <3>1, <3>2, Bounds DEF WakesInTime, Recent
    <3> QED
      BY <1>3, <3>1, <3>3, <3>4 DEF Timely, Covered
  <2>3. CASE n # m
    <3>1. /\ wake'[n] = wake[n] /\ sol_pc'[n] = sol_pc[n]
          /\ solititation_timestamp'[n] = solititation_timestamp[n]
      BY <1>1, <1>7, <2>3 DEF Done, Sleep, TypeOK
    <3>2. Paced(n)' /\ WakesInTime(n)'
      BY <1>1, <1>2, <2>1, <3>1
         DEF Timely, Paced, WakesInTime, Recent, Stale
    <3>3. Covered(n)'
      BY <1>1, <1>2, <2>1, <3>1 DEF Timely, Covered
    <3> QED
      BY <1>3, <3>2, <3>3 DEF Timely
  <2> QED
    BY <2>2, <2>3
<1>8. ASSUME NEW on \in Locators, NEW heard \in SUBSET Ears,
             Solicit(m, on, heard)
      PROVE  Timely(n)'
  <2>1. /\ wake'[n] = wake[n] /\ sol_pc'[n] = sol_pc[n]
        /\ sol_todo'[n] = IF n = m THEN sol_todo[n] \ {on} ELSE sol_todo[n]
        /\ solititation_timestamp'[n] =
              IF \E p \in heard : p[1] = n THEN 0 ELSE solititation_timestamp[n]
    BY <1>1, <1>8 DEF Solicit, TypeOK
  <2>2. PICK answered \in Answers(heard) :
           silent' = Named(answered \cup {<<m, on>>})
    BY <1>8 DEF Solicit
  <2>3. \A loc \in Locators :
           silent'[n][loc] = IF <<n, loc>> \in answered \cup {<<m, on>>} THEN 0
                             ELSE silent[n][loc]
    BY <1>1, <2>2, NamedNow
  <2>4. \A loc \in Locators : silent'[n][loc] <= silent[n][loc]
    <3>1. \A loc \in Locators : silent[n][loc] \in Nat
      BY <1>1, SolicitationAssumption DEF TypeOK, Long
    <3> SUFFICES ASSUME NEW loc \in Locators
                 PROVE  silent'[n][loc] <= silent[n][loc]
      OBVIOUS
    <3>2. silent'[n][loc] = 0 \/ silent'[n][loc] = silent[n][loc]
      BY <2>3
    <3> QED
      BY <3>1, <3>2
  <2>5. WakesInTime(n)'
    <3>1. PICK left \in Int : left = 2 * wait_time - wake[n]
      BY <1>1, Bounds
    <3>2. Recent(n, left)
      BY <1>1, <3>1 DEF Timely, WakesInTime
    <3>3. Recent(n, left)'
      BY <1>1, <1>2, <2>4, <3>2, StaysRecent
    <3> QED
      BY <2>1, <3>1, <3>3 DEF WakesInTime
  <2>6. Paced(n)'
    <3>1. CASE \E p \in heard : p[1] = n
      <4>1. PICK loc \in locs_joined(n) : <<n, loc>> \in heard
        BY <3>1 DEF Ears
      <4>2. CASE Settled(n)
        <5>1. <<n, loc>> \in answered
          BY <2>2, <4>1, <4>2 DEF Answers
        <5>2. silent'[n][loc] = 0
          BY <1>1, <2>3, <4>1, <5>1, Bounds
        <5> QED
          BY <1>2, <2>1, <3>1, <4>1, <5>2 DEF Paced, Recent
      <4>3. CASE ~Settled(n)
        BY <1>1, <1>2, <2>1, <3>1, <4>3 DEF Timely, Moving, Paced, Recent
      <4> QED
        BY <4>2, <4>3
    <3>2. CASE ~\E p \in heard : p[1] = n
      <4>1. PICK age \in Int : /\ age = solititation_timestamp[n]
                              /\ age = solititation_timestamp'[n]
        BY <1>1, <2>1, <3>2, Bounds
      <4>2. CASE age = Stale
        BY <4>1, <4>2 DEF Paced, Stale
      <4>3. CASE Recent(n, age)
        <5>1. Recent(n, age)'
          BY <1>1, <1>2, <2>4, <4>3, StaysRecent
        <5> QED
          BY <4>1, <5>1 DEF Paced
      <4> QED
        BY <1>1, <4>1, <4>2, <4>3 DEF Timely, Paced
    <3> QED
      BY <3>1, <3>2
  <2>7. Covered(n)'
    BY <1>1, <1>2, <2>1, <2>3, Bounds DEF Timely, Covered
  <2> QED
    BY <1>3, <2>5, <2>6, <2>7 DEF Timely
<1> QED
  BY <1>4, <1>5, <1>6, <1>7, <1>8 DEF SolititationThread

\* A node that moves starts to count anew, and one that joins or leaves a group is
\* silent for no longer than before.
LEMMA TimelyMove ==
    ASSUME Inv, TypeOK', NEW m \in Nodes, MoveThread(m), NEW n \in Nodes
    PROVE  Timely(n)'
<1>1. Timely(n) /\ TypeOK
  BY DEF Inv
<1>2. /\ wake'[n] = wake[n] /\ sol_pc'[n] = sol_pc[n]
      /\ sol_todo'[n] = sol_todo[n]
      /\ solititation_timestamp'[n] = solititation_timestamp[n]
  BY DEF MoveThread, Retarget, Join, Leave
<1> DEFINE Kept == /\ settled'[n] = settled[n]
                   /\ locs_joined(n)' = locs_joined(n)
                   /\ Settled(n) => Settled(n)'
                   /\ \A loc \in Locators :
                         /\ silent'[n][loc] <= silent[n][loc]
                         /\ silent[n][loc] = 0 => silent'[n][loc] = 0
<1>3. settled'[n] = 0 \/ Kept
  <2>1. \A loc \in Locators : silent[n][loc] \in Nat
    BY <1>1, SolicitationAssumption DEF TypeOK, Long
  <2>2. CASE Retarget(m)
    <3>1. CASE n = m
      BY <1>1, <2>2, <3>1 DEF Retarget, TypeOK
    <3>2. CASE n # m
      <4>1. /\ leg'[n] = leg[n] /\ joined'[n] = joined[n]
            /\ settled'[n] = settled[n] /\ silent' = silent
        BY <1>1, <2>2, <3>2 DEF Retarget, TypeOK
      <4> QED
        BY <2>1, <4>1 DEF locs_joined, Settled
    <3> QED
      BY <3>1, <3>2
  <2>3. ASSUME NEW to \in Locators, Join(m, to) PROVE Kept
    <3>1. /\ leg'[n] = leg[n] /\ joined[n] \subseteq joined'[n]
          /\ settled' = settled
      BY <1>1, <2>3 DEF Join, TypeOK
    <3>2. \A loc \in Locators : \/ silent'[n][loc] = 0
                                \/ silent'[n][loc] = silent[n][loc]
      <4>1. PICK pairs : silent' = Named(pairs)
        BY <2>3 DEF Join
      <4>2. \A loc \in Locators :
               silent'[n][loc] = IF <<n, loc>> \in pairs THEN 0
                                 ELSE silent[n][loc]
        BY <1>1, <4>1, NamedNow
      <4> QED
        BY <4>2
    <3> QED
      BY <2>1, <3>1, <3>2 DEF locs_joined, Settled
  <2>4. ASSUME NEW old \in Locators, Leave(m, old) PROVE Kept
    <3>1. leg'[n] = leg[n] /\ silent' = silent /\ settled' = settled
      BY <2>4 DEF Leave
    <3>2. joined'[n] = IF n = m THEN joined[n] \ {old} ELSE joined[n]
      BY <1>1, <2>4 DEF Leave, TypeOK
    <3>3. n = m => old \notin locs_joined(n)
      BY <2>4 DEF Leave
    <3> QED
      BY <2>1, <3>1, <3>2, <3>3 DEF locs_joined, Settled
  <2> QED
    BY <2>2, <2>3, <2>4 DEF MoveThread
<1>4. Moving(n)' /\ Covered(n)'
  BY <1>1, <1>2, <1>3, Bounds DEF Timely, Moving, Covered
<1>5. ASSUME NEW ticks \in Nat, Recent(n, ticks) PROVE Recent(n, ticks)'
  BY <1>1, <1>3, <1>5, StaysRecent
<1>6. Paced(n)'
  <2>1. PICK age \in Nat : /\ age = solititation_timestamp[n]
                          /\ age = solititation_timestamp'[n]
    BY <1>1, <1>2, Bounds
  <2>2. age = Stale \/ Recent(n, age)
    BY <1>1, <2>1 DEF Timely, Paced
  <2>3. age = Stale \/ Recent(n, age)'
    BY <1>5, <2>2
  <2> QED
    BY <2>1, <2>3 DEF Paced, Stale
<1>7. WakesInTime(n)'
  <2>1. PICK left \in Nat : left = 2 * wait_time - wake[n]
    BY <1>1, Bounds
  <2>2. Recent(n, left)'
    BY <1>1, <1>5, <2>1 DEF Timely, WakesInTime
  <2> QED
    BY <1>2, <2>1, <2>2 DEF WakesInTime
<1> QED
  BY <1>4, <1>6, <1>7 DEF Timely

LEMMA InvStep == Inv /\ [Next]_vars => Inv'
<1> SUFFICES ASSUME Inv, [Next]_vars PROVE Inv'
  OBVIOUS
<1>1. TypeOK'
  BY TypeStep DEF Inv
<1>2. ASSUME NEW n \in Nodes PROVE Timely(n)'
  <2>1. CASE Tick
    BY <2>1, TimelyTick
  <2>2. ASSUME NEW m \in Nodes, SolititationThread(m) PROVE Timely(n)'
    BY <1>1, <2>2, TimelySolicitation
  <2>3. ASSUME NEW m \in Nodes, MoveThread(m) PROVE Timely(n)'
    BY <1>1, <2>3, TimelyMove
  <2>4. CASE UNCHANGED vars
    BY <2>4 DEF vars, Inv, Timely, Moving, Paced, WakesInTime, Covered, Recent,
                Settled, locs_joined, Stale
  <2> QED
    BY <2>1, <2>2, <2>3, <2>4 DEF Next
<1> QED
  BY <1>1, <1>2 DEF Inv

\* A node that has been where it is for long enough has named one of its locators
\* within two wait_times, for any nodes, cycles of locators and wait_time.
THEOREM Announced == Spec => []AnnouncedInTime
<1>1. Inv => AnnouncedInTime
  <2> SUFFICES ASSUME Inv, NEW n \in Nodes, settled[n] = Long
               PROVE  \E loc \in locs_joined(n) : silent[n][loc] <= ttl - wait_time
    BY DEF AnnouncedInTime
  <2>1. Recent(n, 2 * wait_time - wake[n]) /\ TypeOK
    BY DEF Inv, Timely, WakesInTime
  <2>2. /\ wake[n] \in 0 .. wait_time /\ wait_time \in Nat
        /\ \A loc \in locs_joined(n) : silent[n][loc] \in Nat
    BY <2>1, Bounds DEF Long
  <2>3. ~(settled[n] <= 2 * wait_time - wake[n])
    BY <2>2 DEF Long
  <2> QED
    BY <2>1, <2>2, <2>3 DEF Recent, ttl
<1> QED
  BY <1>1, InitInv, InvStep, PTL DEF Spec
=============================================================================
