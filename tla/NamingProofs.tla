--------------------------- MODULE NamingProofs ----------------------------
(***************************************************************************)
(* Proofs about Naming, for any hosts, locators and locator updates: the   *)
(* two tables keep their types and do not mix hosts up, although the       *)
(* threads change them and the lists in them without a lock.               *)
(*                                                                         *)
(* Neither is inductive: a list is in the hands of a thread between the    *)
(* steps of process_message and of getaddrinfo, so the invariant says of   *)
(* these lists what holds of the ones in host_map.                         *)
(***************************************************************************)
EXTENDS Naming, WellFoundedInduction, TLAPS

-----------------------------------------------------------------------------
(***************************************************************************)
(* Selections                                                              *)
(***************************************************************************)
Less == {p \in Nat \X Nat : p[1] < p[2]}

LEMMA LessWellFounded == IsWellFoundedOn(Less, Nat)
BY NatLessThanWellFounded DEF OpToRel, Less

LEMMA Induction ==
    ASSUME NEW T, 0 \in T, \A n \in Nat : n \in T => n + 1 \in T
    PROVE  Nat \subseteq T
<1> DEFINE U == Nat \ T
<1> SUFFICES ASSUME U # {} PROVE FALSE
  OBVIOUS
<1>1. PICK n \in U : \A m \in U : <<m, n>> \notin Less
  BY LessWellFounded, WFMin
<1>2. n \in Nat \ {0}
  OBVIOUS
<1>3. n - 1 \in Nat /\ <<n - 1, n>> \in Less
  BY <1>2 DEF Less
<1> QED
  BY <1>1, <1>2, <1>3

\* The elements of S among the first i of s, from those among the first i - 1.
Loop(f, s, S, i) ==
    IF i = 0 THEN << >>
    ELSE IF s[i] \in S THEN Append(f[i - 1], s[i]) ELSE f[i - 1]

\* The selections from the first elements of s, up to that from all of them.
Selects(f, s, S, E) ==
    /\ f \in [0 .. Len(s) -> Seq(E)]
    /\ \A i \in 0 .. Len(s) : f[i] = Loop(f, s, S, i)
    /\ Selected(s, S) = f[Len(s)]

\* The recursion of Selected has a solution, so Selected computes what its loop
\* says.
LEMMA Selection ==
    ASSUME NEW E, NEW s \in Seq(E), NEW S
    PROVE  \E f : Selects(f, s, S, E)
<1>0. Len(s) \in Nat /\ \A i \in 1 .. Len(s) : s[i] \in E
  OBVIOUS
<1> DEFINE P(n) == \E f \in [0 .. n -> Seq(E)] :
                      \A i \in 0 .. n : f[i] = Loop(f, s, S, i)
           T == {n \in Nat : n <= Len(s) => P(n)}
<1>1. 0 \in T
  <2> DEFINE f == [i \in 0 .. 0 |-> << >>]
  <2>1. f \in [0 .. 0 -> Seq(E)]
    OBVIOUS
  <2>2. \A i \in 0 .. 0 : f[i] = Loop(f, s, S, i)
    BY DEF Loop
  <2> HIDE DEF f
  <2>3. P(0)
    BY <2>1, <2>2
  <2> QED
    BY <2>3
<1>2. ASSUME NEW n \in Nat, n \in T PROVE n + 1 \in T
  <2> SUFFICES ASSUME n + 1 <= Len(s) PROVE P(n + 1)
    <3> HIDE DEF P
    <3> QED
      OBVIOUS
  <2>1. PICK f \in [0 .. n -> Seq(E)] : \A i \in 0 .. n : f[i] = Loop(f, s, S, i)
    BY <1>2
  <2> DEFINE g == [i \in 0 .. n + 1 |->
                      IF i = n + 1 THEN Loop(f, s, S, i) ELSE f[i]]
  <2>2. (n + 1) - 1 = n /\ s[n + 1] \in E /\ f[n] \in Seq(E)
    OBVIOUS
  <2>3. Loop(f, s, S, n + 1) \in Seq(E)
    BY <2>2 DEF Loop
  <2>4. g \in [0 .. n + 1 -> Seq(E)]
    BY <2>3
  <2>5. ASSUME NEW i \in 0 .. n + 1 PROVE g[i] = Loop(g, s, S, i)
    <3>1. i # 0 => g[i - 1] = f[i - 1]
      OBVIOUS
    <3>2. g[i] = Loop(f, s, S, i)
      BY <2>1
    <3> HIDE DEF g
    <3> QED
      BY <3>1, <3>2 DEF Loop
  <2> HIDE DEF g
  <2> QED
    BY <2>4, <2>5
<1> HIDE DEF T
<1>3. P(Len(s))
  <2>1. Len(s) \in T
    BY <1>0, <1>1, <1>2, Induction
  <2> QED
    BY <1>0, <2>1 DEF T
<1> DEFINE R(f) == f = [i \in 0 .. Len(s) |-> Loop(f, s, S, i)]
           sel  == CHOOSE f : R(f)
<1>4. R(sel)
  <2>1. PICK f \in [0 .. Len(s) -> Seq(E)] :
                \A i \in 0 .. Len(s) : f[i] = Loop(f, s, S, i)
    BY <1>3
  <2>2. R(f)
    BY <2>1
  <2> QED
    BY <2>2
<1>5. Selected(s, S) = sel[Len(s)]
  BY DEF Selected, Loop
<1> HIDE DEF sel
<1>6. \A i \in 0 .. Len(s) : sel[i] = Loop(sel, s, S, i)
  BY <1>4
<1> DEFINE U == {n \in Nat : n <= Len(s) => sel[n] \in Seq(E)}
<1>7. 0 \in U
  <2>1. sel[0] = Loop(sel, s, S, 0)
    BY <1>0, <1>6
  <2>2. sel[0] = << >>
    BY <2>1 DEF Loop
  <2>3. sel[0] \in Seq(E)
    BY <2>2
  <2> QED
    BY <2>3
<1>8. ASSUME NEW n \in Nat, n \in U PROVE n + 1 \in U
  <2> SUFFICES ASSUME n + 1 <= Len(s) PROVE sel[n + 1] \in Seq(E)
    OBVIOUS
  <2>1. /\ n + 1 \in 0 .. Len(s) /\ n + 1 # 0 /\ (n + 1) - 1 = n
        /\ sel[n] \in Seq(E) /\ s[n + 1] \in E
    BY <1>0, <1>8
  <2>2. sel[n + 1] = Loop(sel, s, S, n + 1)
    BY <1>6, <2>1
  <2> QED
    BY <2>1, <2>2 DEF Loop
<1> HIDE DEF U
<1>9. Nat \subseteq U
  BY <1>7, <1>8, Induction
<1>10. sel \in [0 .. Len(s) -> Seq(E)]
  BY <1>0, <1>4, <1>9 DEF U
<1> QED
  BY <1>5, <1>6, <1>10 DEF Selects

LEMMA Unrolled ==
    ASSUME NEW E, NEW s \in Seq(E), NEW S, NEW f, Selects(f, s, S, E)
    PROVE  /\ Len(s) \in Nat /\ f[0] = << >> /\ Selected(s, S) = f[Len(s)]
           /\ \A n \in 0 .. Len(s) : f[n] \in Seq(E)
           /\ \A n \in Nat : n < Len(s) =>
                 f[n + 1] = IF s[n + 1] \in S THEN Append(f[n], s[n + 1]) ELSE f[n]
<1>1. Len(s) \in Nat /\ \A n \in 0 .. Len(s) : f[n] \in Seq(E)
  BY DEF Selects
<1>2. f[0] = << >>
  <2>1. f[0] = Loop(f, s, S, 0)
    BY <1>1 DEF Selects
  <2> QED
    BY <2>1 DEF Loop
<1>3. ASSUME NEW n \in Nat, n < Len(s)
      PROVE  f[n + 1] = IF s[n + 1] \in S THEN Append(f[n], s[n + 1]) ELSE f[n]
  <2>1. n + 1 \in 0 .. Len(s) /\ n + 1 # 0 /\ (n + 1) - 1 = n
    BY <1>1, <1>3
  <2>2. f[n + 1] = Loop(f, s, S, n + 1)
    BY <2>1 DEF Selects
  <2> QED
    BY <2>1, <2>2 DEF Loop
<1> QED
  BY <1>1, <1>2, <1>3 DEF Selects

-----------------------------------------------------------------------------
(***************************************************************************)
(* Lists of entries                                                        *)
(***************************************************************************)
Distinct(list) ==
    \A i, j \in 1 .. Len(list) : list[i].ilv = list[j].ilv => i = j

\* list is one that h may have.
ListOf(list, h) ==
    /\ list \in Seq(Entry)
    /\ \A i \in 1 .. Len(list) : list[i].ilv[2] = Nid[h]
    /\ Distinct(list)

\* Whatever is selected of a list, in the same order, is a list like it.
LEMMA SelectedList ==
    ASSUME NEW list, NEW h, ListOf(list, h), NEW S
    PROVE  ListOf(Selected(list, S), h)
<1>0. list \in Seq(Entry) /\ Len(list) \in Nat
  BY DEF ListOf
<1>1. PICK f : Selects(f, list, S, Entry)
  BY <1>0, Selection
<1>2. /\ f[0] = << >> /\ Selected(list, S) = f[Len(list)]
      /\ \A n \in 0 .. Len(list) : f[n] \in Seq(Entry)
  BY <1>0, <1>1, Unrolled
<1> DEFINE From(n) == \A k \in 1 .. Len(f[n]) :
                         \E i \in 1 .. n : f[n][k] = list[i]
           T == {n \in Nat : n <= Len(list) => From(n) /\ Distinct(f[n])}
<1>3. 0 \in T
  <2>1. From(0) /\ Distinct(f[0])
    BY <1>2 DEF Distinct
  <2> QED
    BY <2>1
<1>4. ASSUME NEW n \in Nat, n \in T PROVE n + 1 \in T
  <2> SUFFICES ASSUME n + 1 <= Len(list) PROVE From(n + 1) /\ Distinct(f[n + 1])
    <3> HIDE DEF From
    <3> QED
      OBVIOUS
  <2>1. /\ n + 1 \in 1 .. Len(list) /\ n < Len(list)
        /\ f[n] \in Seq(Entry) /\ list[n + 1] \in Entry
        /\ From(n) /\ Distinct(f[n])
    BY <1>0, <1>2, <1>4
  <2>2. f[n + 1] = IF list[n + 1] \in S THEN Append(f[n], list[n + 1]) ELSE f[n]
    BY <1>0, <1>1, <2>1, Unrolled
  <2>3. CASE f[n + 1] = f[n]
    <3>1. \A i \in 1 .. n : i \in 1 .. n + 1
      OBVIOUS
    <3> QED
      BY <2>1, <2>3, <3>1
  <2>4. CASE f[n + 1] = Append(f[n], list[n + 1])
    <3>1. /\ Len(f[n]) \in Nat /\ Len(f[n + 1]) = Len(f[n]) + 1
          /\ f[n + 1][Len(f[n]) + 1] = list[n + 1]
          /\ \A k \in 1 .. Len(f[n]) : f[n + 1][k] = f[n][k]
      BY <2>1, <2>4
    <3>2. 1 .. Len(f[n + 1]) = (1 .. Len(f[n])) \cup {Len(f[n]) + 1}
      BY <3>1
    <3>3. From(n + 1)
      BY <2>1, <3>1, <3>2
    <3>4. ASSUME NEW k \in 1 .. Len(f[n]) PROVE f[n + 1][k].ilv # list[n + 1].ilv
      <4>1. PICK i \in 1 .. n : f[n][k] = list[i]
        BY <2>1
      <4>2. i \in 1 .. Len(list) /\ i # n + 1
        BY <1>0, <2>1
      <4> QED
        BY <3>1, <4>1, <4>2 DEF ListOf, Distinct
    <3>5. Distinct(f[n + 1])
      BY <2>1, <3>1, <3>2, <3>4 DEF Distinct
    <3> QED
      BY <3>3, <3>5
  <2> QED
    BY <2>2, <2>3, <2>4
<1> HIDE DEF T
<1>5. Len(list) \in T
  BY <1>0, <1>3, <1>4, Induction
<1>6. From(Len(list)) /\ Distinct(f[Len(list)]) /\ f[Len(list)] \in Seq(Entry)
  BY <1>0, <1>2, <1>5 DEF T
<1> QED
  BY <1>2, <1>6 DEF ListOf

\* A list that differs only in its timestamps.
LEMMA SameList ==
    ASSUME NEW list, NEW h, ListOf(list, h), NEW new \in Seq(Entry),
           Len(new) = Len(list),
           \A i \in 1 .. Len(list) : new[i].ilv = list[i].ilv
    PROVE  ListOf(new, h)
BY DEF ListOf, Distinct

LEMMA AgedList ==
    ASSUME NEW list \in Seq(Entry), NEW ilv
    PROVE  /\ Aged(list, ilv) \in Seq(Entry)
           /\ Len(Aged(list, ilv)) = Len(list)
           /\ \A i \in 1 .. Len(list) : Aged(list, ilv)[i].ilv = list[i].ilv
<1>1. DOMAIN list = 1 .. Len(list) /\ Len(list) \in Nat
  OBVIOUS
<1>2. ASSUME NEW i \in 1 .. Len(list)
      PROVE  [list[i] EXCEPT !.stamp = "expired"] \in Entry
  <2>1. list[i] \in Entry
    BY <1>1
  <2> QED
    BY <2>1 DEF Entry, Stamps
<1> DEFINE new == Aged(list, ilv)
<1>3. new = [i \in 1 .. Len(list) |->
                IF list[i].ilv = ilv THEN [list[i] EXCEPT !.stamp = "expired"]
                ELSE list[i]]
  BY <1>1 DEF Aged
<1>4. new \in [1 .. Len(list) -> Entry]
  BY <1>2, <1>3
<1>5. \A i \in 1 .. Len(list) : new[i].ilv = list[i].ilv
  BY <1>3 DEF Entry
<1> HIDE DEF new
<1>6. new \in Seq(Entry) /\ Len(new) = Len(list)
  BY <1>1, <1>4
<1> QED
  BY <1>5, <1>6 DEF new

LEMMA RenewedList ==
    ASSUME NEW h, NEW list, ListOf(list, h),
           NEW ilv \in Ilvs, ilv[2] = Nid[h]
    PROVE  /\ ListOf(Renewed(list, ilv), h)
           /\ Renewed(list, ilv) # << >>
           /\ \E i \in 1 .. Len(Renewed(list, ilv)) :
                 Renewed(list, ilv)[i].ilv = ilv
<1>1. list \in Seq(Entry) /\ DOMAIN list = 1 .. Len(list) /\ Len(list) \in Nat
  BY DEF ListOf
<1>2. Fresh(ilv) \in Entry /\ Fresh(ilv).ilv = ilv
  BY DEF Fresh, Entry, Stamps
<1>3. CASE \E i \in DOMAIN list : list[i].ilv = ilv
  <2> DEFINE new == [i \in 1 .. Len(list) |->
                       IF list[i].ilv = ilv THEN Fresh(ilv) ELSE list[i]]
  <2>1. Renewed(list, ilv) = new
    BY <1>1, <1>3 DEF Renewed
  <2>2. new \in [1 .. Len(list) -> Entry]
    BY <1>1, <1>2
  <2>3. \A i \in 1 .. Len(list) : new[i].ilv = list[i].ilv
    BY <1>2
  <2> HIDE DEF new
  <2>4. new \in Seq(Entry) /\ Len(new) = Len(list)
    BY <1>1, <2>2
  <2>5. ListOf(new, h)
    BY <2>3, <2>4, SameList
  <2> QED
    BY <1>1, <1>3, <2>1, <2>3, <2>4, <2>5
<1>4. CASE ~ \E i \in DOMAIN list : list[i].ilv = ilv
  <2> DEFINE new == Append(list, Fresh(ilv))
  <2>1. Renewed(list, ilv) = new
    BY <1>4 DEF Renewed
  <2>2. /\ new \in Seq(Entry) /\ Len(new) = Len(list) + 1
        /\ new[Len(list) + 1] = Fresh(ilv)
        /\ \A i \in 1 .. Len(list) : new[i] = list[i]
    BY <1>1, <1>2
  <2> HIDE DEF new
  <2>3. 1 .. Len(new) = (1 .. Len(list)) \cup {Len(list) + 1}
    BY <1>1, <2>2
  <2>4. ListOf(new, h)
    BY <1>1, <1>2, <1>4, <2>2, <2>3 DEF ListOf, Distinct
  <2>5. Len(list) + 1 \in 1 .. Len(new) /\ new # << >>
    BY <1>1, <2>2
  <2> QED
    BY <1>2, <2>1, <2>2, <2>4, <2>5
<1> QED
  BY <1>3, <1>4

LEMMA MovedList ==
    ASSUME NEW h \in Hosts, NEW ilv \in Ilvs, ilv[2] = Nid[h],
           NEW new_locs \in Updates
    PROVE  ListOf(Moved(ilv, new_locs), h) /\ Moved(ilv, new_locs) # << >>
<1>1. /\ new_locs \in Seq(Locators) /\ new_locs # << >>
      /\ DOMAIN new_locs = 1 .. Len(new_locs) /\ Len(new_locs) \in Nat
      /\ \A i, j \in 1 .. Len(new_locs) : new_locs[i] = new_locs[j] => i = j
  BY NamingAssumption
<1> DEFINE new == Moved(ilv, new_locs)
<1>2. new = [i \in 1 .. Len(new_locs) |-> Fresh(<<new_locs[i], ilv[2]>>)]
  BY <1>1 DEF Moved
<1>3. \A i \in 1 .. Len(new_locs) :
         /\ <<new_locs[i], ilv[2]>> \in Ilvs
         /\ Fresh(<<new_locs[i], ilv[2]>>) \in Entry
         /\ Fresh(<<new_locs[i], ilv[2]>>).ilv = <<new_locs[i], ilv[2]>>
  BY <1>1 DEF Ilvs, Nids, Fresh, Entry, Stamps
<1>4. /\ new \in [1 .. Len(new_locs) -> Entry]
      /\ \A i \in 1 .. Len(new_locs) : new[i].ilv = <<new_locs[i], ilv[2]>>
  BY <1>2, <1>3
<1> HIDE DEF new
<1>5. new \in Seq(Entry) /\ Len(new) = Len(new_locs)
  BY <1>1, <1>4
<1>6. new # << >>
  BY <1>1, <1>5
<1> QED
  BY <1>1, <1>4, <1>5, <1>6 DEF ListOf, Distinct, new

-----------------------------------------------------------------------------
(***************************************************************************)
(* The invariant                                                           *)
(***************************************************************************)
\* The lists of host_map.
ListsOK ==
    \A h \in DOMAIN host_map :
        host_map[h] # None => ListOf(host_map[h], h)

HostsOK ==
    \A ilv \in DOMAIN inverse_host_map :
        inverse_host_map[ilv] # None => Nid[inverse_host_map[ilv].host] = ilv[2]

\* What ReceiveThread keeps between two steps of process_message or of
\* locator_update.
ReceivingOK ==
    /\ recv_pc # "idle" =>
          recv_host \in Hosts /\ recv_ilv \in Ilvs /\ recv_ilv[2] = Nid[recv_host]
    /\ recv_pc \in {"enter", "store"} /\ entries # None =>
          ListOf(entries, recv_host) /\ entries # << >>
    /\ recv_pc = "store" =>
          /\ entries # None
          /\ \E i \in 1 .. Len(entries) : entries[i].ilv = recv_ilv

\* What the application keeps between two steps of its look-ups.
LookingUpOK ==
    /\ app_pc = "trim" =>
          app_host \in Hosts /\ ListOf(valid_entries, app_host) /\ app_len > 0
    /\ app_pc = "clear" => app_ilv \in Ilvs

TablesOK == TypeOK /\ ListsOK /\ HostsOK /\ ReceivingOK /\ LookingUpOK

HostLists == (Seq(Entry) \ {<< >>}) \cup {None}
Mappings == [host : Hosts, stamp : Stamps]

LEMMA FreshEntry ==
    ASSUME NEW ilv \in Ilvs
    PROVE  Fresh(ilv) \in Entry /\ Fresh(ilv).ilv = ilv
BY DEF Fresh, Entry, Stamps

LEMMA NoEntries == << >> \in Seq(Entry)
OBVIOUS

LEMMA OneEntry ==
    ASSUME NEW h, NEW ilv \in Ilvs, ilv[2] = Nid[h]
    PROVE  ListOf(<<Fresh(ilv)>>, h) /\ <<Fresh(ilv)>> # << >>
<1> DEFINE list == <<Fresh(ilv)>>
<1>1. list \in Seq(Entry) /\ Len(list) = 1 /\ list[1].ilv = ilv
  BY FreshEntry
<1> HIDE DEF list
<1>2. \A i \in 1 .. Len(list) : i = 1
  BY <1>1
<1>3. ListOf(list, h)
  BY <1>1, <1>2 DEF ListOf, Distinct
<1>4. list # << >>
  BY <1>1
<1> QED
  BY <1>3, <1>4 DEF list

\* A list, or None, is stored in host_map.
LEMMA StoredList ==
    ASSUME TypeOK, ListsOK, NEW h \in Hosts, NEW list,
           list = None \/ (ListOf(list, h) /\ list # << >>),
           host_map' = Put(host_map, h, list)
    PROVE  IsDict(host_map', Hosts, HostLists) /\ ListsOK'
<1>1. list \in HostLists
  BY DEF ListOf, HostLists
<1>2. DOMAIN host_map' = DOMAIN host_map \cup {h}
  BY DEF Put
<1>3. \A x \in DOMAIN host_map' :
         host_map'[x] = IF x = h THEN list ELSE host_map[x]
  BY DEF Put
<1>4. DOMAIN host_map \subseteq Hosts /\ \A x \in DOMAIN host_map : host_map[x] \in HostLists
  BY DEF TypeOK, IsDict, HostLists
<1>5. host_map' = [x \in DOMAIN host_map' |-> host_map'[x]]
  BY DEF Put
<1>6. IsDict(host_map', Hosts, HostLists)
  BY <1>1, <1>2, <1>3, <1>4, <1>5 DEF IsDict
<1>7. ListsOK'
  BY <1>2, <1>3 DEF ListsOK
<1> QED
  BY <1>6, <1>7

\* A mapping, or None, is stored in inverse_host_map.
LEMMA StoredHost ==
    ASSUME TypeOK, HostsOK, NEW ilv \in Ilvs, NEW mapping,
           mapping = None \/ (mapping \in Mappings /\ Nid[mapping.host] = ilv[2]),
           inverse_host_map' = Put(inverse_host_map, ilv, mapping)
    PROVE  IsDict(inverse_host_map', Ilvs, Mappings \cup {None}) /\ HostsOK'
<1>1. DOMAIN inverse_host_map' = DOMAIN inverse_host_map \cup {ilv}
  BY DEF Put
<1>2. \A x \in DOMAIN inverse_host_map' :
         inverse_host_map'[x] = IF x = ilv THEN mapping ELSE inverse_host_map[x]
  BY DEF Put
<1>3. /\ DOMAIN inverse_host_map \subseteq Ilvs
      /\ \A x \in DOMAIN inverse_host_map : inverse_host_map[x] \in Mappings \cup {None}
  BY DEF TypeOK, IsDict, Mappings
<1>4. inverse_host_map' = [x \in DOMAIN inverse_host_map' |-> inverse_host_map'[x]]
  BY DEF Put
<1>5. IsDict(inverse_host_map', Ilvs, Mappings \cup {None})
  BY <1>1, <1>2, <1>3, <1>4 DEF IsDict
<1>6. HostsOK'
  BY <1>1, <1>2 DEF HostsOK
<1> QED
  BY <1>5, <1>6

\* What a look-up finds.
LEMMA FoundList ==
    ASSUME TypeOK, ListsOK, NEW h, Get(host_map, h) # None
    PROVE  /\ h \in DOMAIN host_map /\ h \in Hosts
           /\ Get(host_map, h) = host_map[h]
           /\ ListOf(host_map[h], h) /\ host_map[h] # << >>
BY DEF Get, TypeOK, IsDict, ListsOK

LEMMA FoundHost ==
    ASSUME TypeOK, HostsOK, NEW ilv, Known(ilv)
    PROVE  /\ ilv \in DOMAIN inverse_host_map /\ ilv \in Ilvs
           /\ inverse_host_map[ilv] \in Mappings
           /\ Nid[inverse_host_map[ilv].host] = ilv[2]
BY DEF Known, Get, TypeOK, IsDict, HostsOK, Mappings

LEMMA InitOK == Init => TablesOK
<1> SUFFICES ASSUME Init PROVE TablesOK
  OBVIOUS
<1>1. DOMAIN host_map = {} /\ DOMAIN inverse_host_map = {}
  BY DEF Init, EmptyDict
<1>2. /\ IsDict(host_map, Hosts, (Seq(Entry) \ {<< >>}) \cup {None})
      /\ IsDict(inverse_host_map, Ilvs, [host : Hosts, stamp : Stamps] \cup {None})
  BY DEF Init, IsDict, EmptyDict
<1>3. TypeOK
  BY <1>2, NoEntries DEF Init, TypeOK
<1> QED
  BY <1>1, <1>3 DEF Init, TablesOK, ListsOK, HostsOK, ReceivingOK, LookingUpOK

-----------------------------------------------------------------------------
(***************************************************************************)
(* ReceiveThread                                                           *)
(***************************************************************************)
LEMMA AnnounceOK ==
    ASSUME TablesOK, NEW h \in Hosts, NEW loc \in Locators, Announce(h, loc)
    PROVE  TablesOK'
<1> DEFINE ilv == <<loc, Nid[h]>>
           mapping == [host |-> h, stamp |-> "fresh"]
<1>1. ilv \in Ilvs /\ ilv[2] = Nid[h]
  BY DEF Ilvs, Nids
<1>2. mapping \in Mappings /\ mapping.host = h
  BY DEF Mappings, Stamps
<1>3. /\ inverse_host_map' = Put(inverse_host_map, ilv, mapping)
      /\ recv_ilv' = ilv /\ recv_pc' = "enter" /\ recv_host' = h
      /\ entries' = Get(host_map, h)
      /\ shared_list' = (Get(host_map, h) # None)
      /\ UNCHANGED <<host_map, appVars>>
  BY DEF Announce
<1> HIDE DEF ilv, mapping
<1>4. IsDict(inverse_host_map', Ilvs, Mappings \cup {None}) /\ HostsOK'
  BY <1>1, <1>2, <1>3, StoredHost DEF TablesOK
<1>5. entries' # None => ListOf(entries', h) /\ entries' # << >>
  BY <1>3, FoundList DEF TablesOK
<1>6. entries' \in Seq(Entry) \cup {None}
  BY <1>5 DEF ListOf
<1>7. shared_list' \in BOOLEAN
  BY <1>3
<1>8. TypeOK'
  BY <1>1, <1>3, <1>4, <1>6, <1>7 DEF TablesOK, TypeOK, appVars, Mappings
<1>9. ListsOK' /\ LookingUpOK'
  BY <1>3 DEF TablesOK, ListsOK, LookingUpOK, appVars, ListOf
<1>10. ReceivingOK'
  BY <1>1, <1>3, <1>5 DEF ReceivingOK
<1> QED
  BY <1>4, <1>8, <1>9, <1>10 DEF TablesOK

LEMMA EnterOK ==
    ASSUME TablesOK, Enter
    PROVE  TablesOK'
<1> DEFINE new == Renewed(entries, recv_ilv)
<1>1. /\ recv_host \in Hosts /\ recv_ilv \in Ilvs /\ recv_ilv[2] = Nid[recv_host]
      /\ ListOf(entries, recv_host)
  BY DEF Enter, TablesOK, ReceivingOK
<1>2. /\ ListOf(new, recv_host) /\ new # << >>
      /\ \E i \in 1 .. Len(new) : new[i].ilv = recv_ilv
  BY <1>1, RenewedList
<1>3. /\ entries' = new /\ recv_pc' = "store"
      /\ UNCHANGED <<inverse_host_map, recv_host, recv_ilv, shared_list, app_pc,
                     app_host, app_ilv, valid_entries, app_current>>
  BY DEF Enter
<1> HIDE DEF new
<1>4. new \in Seq(Entry) /\ new # None /\ Len(new) \in Nat /\ Len(new) > 0
  BY <1>2, NamingAssumption DEF ListOf
<1>5. IsDict(host_map', Hosts, HostLists) /\ ListsOK'
  <2>1. CASE shared_list
    <3>1. host_map' = Put(host_map, recv_host, new)
      BY <1>3, <2>1 DEF Enter
    <3> QED
      BY <1>1, <1>2, <3>1, StoredList DEF TablesOK
  <2>2. CASE ~shared_list
    BY <2>2 DEF Enter, TablesOK, TypeOK, HostLists, ListsOK
  <2> QED
    BY <2>1, <2>2
<1>6. app_len' \in Nat /\ (app_len' = app_len \/ app_len' > 0)
  BY <1>3, <1>4 DEF Enter, TablesOK, TypeOK
<1>7. TypeOK'
  BY <1>3, <1>4, <1>5, <1>6 DEF TablesOK, TypeOK, HostLists
<1>8. HostsOK' /\ LookingUpOK'
  BY <1>3, <1>6 DEF TablesOK, HostsOK, LookingUpOK
<1>9. ReceivingOK'
  BY <1>1, <1>2, <1>3, <1>4 DEF ReceivingOK
<1> QED
  BY <1>5, <1>7, <1>8, <1>9 DEF TablesOK

\* The thread has stored what it had in hand and is done.
LEMMA ReceivedOK ==
    ASSUME TablesOK, RecvRest, UNCHANGED <<inverse_host_map, appRest>>,
           app_current' \in BOOLEAN,
           IsDict(host_map', Hosts, HostLists), ListsOK'
    PROVE  TablesOK'
<1>1. TypeOK'
  BY DEF TablesOK, TypeOK, RecvRest, appRest, HostLists
<1>2. HostsOK' /\ ReceivingOK' /\ LookingUpOK'
  BY DEF TablesOK, HostsOK, ReceivingOK, LookingUpOK, RecvRest, appRest
<1> QED
  BY <1>1, <1>2 DEF TablesOK

LEMMA StoreOK ==
    ASSUME TablesOK, Store
    PROVE  TablesOK'
<1>1. /\ recv_host \in Hosts /\ ListOf(entries, recv_host) /\ entries # << >>
      /\ host_map' = Put(host_map, recv_host, entries)
  BY DEF Store, TablesOK, ReceivingOK
<1>2. IsDict(host_map', Hosts, HostLists) /\ ListsOK'
  BY <1>1, StoredList DEF TablesOK
<1>3. app_current' \in BOOLEAN
  BY DEF Store, Replaced, TablesOK, TypeOK
<1> QED
  BY <1>2, <1>3, ReceivedOK DEF Store

LEMMA StoreFirstOK ==
    ASSUME TablesOK, StoreFirst
    PROVE  TablesOK'
<1>1. /\ recv_host \in Hosts /\ recv_ilv \in Ilvs /\ recv_ilv[2] = Nid[recv_host]
      /\ host_map' = Put(host_map, recv_host, <<Fresh(recv_ilv)>>)
  BY DEF StoreFirst, TablesOK, ReceivingOK
<1>2. IsDict(host_map', Hosts, HostLists) /\ ListsOK'
  BY <1>1, OneEntry, StoredList DEF TablesOK
<1>3. app_current' \in BOOLEAN
  BY DEF StoreFirst, Replaced, TablesOK, TypeOK
<1> QED
  BY <1>2, <1>3, ReceivedOK DEF StoreFirst

LEMMA LocatorUpdateOK ==
    ASSUME TablesOK, NEW ilv \in Ilvs, NEW new_locs \in Updates,
           LocatorUpdate(ilv, new_locs)
    PROVE  TablesOK'
<1> DEFINE h == inverse_host_map[ilv].host
           new == Moved(ilv, new_locs)
<1>1. h \in Hosts /\ Nid[h] = ilv[2]
  BY FoundHost DEF LocatorUpdate, TablesOK, Mappings
<1>2. /\ host_map' = Put(host_map, h, new)
      /\ recv_pc' = "forget" /\ recv_host' = h /\ recv_ilv' = ilv
      /\ app_current' = (app_current /\ app_host # h)
      /\ UNCHANGED <<inverse_host_map, entries, shared_list, appRest>>
  BY DEF LocatorUpdate, Replaced
<1> HIDE DEF h
<1>3. ListOf(new, h) /\ new # << >>
  BY <1>1, MovedList
<1> HIDE DEF new
<1>4. IsDict(host_map', Hosts, HostLists) /\ ListsOK'
  BY <1>1, <1>2, <1>3, StoredList DEF TablesOK
<1>5. app_current' \in BOOLEAN
  BY <1>2
<1>6. TypeOK'
  BY <1>1, <1>2, <1>4, <1>5 DEF TablesOK, TypeOK, appRest, HostLists
<1>7. HostsOK' /\ ReceivingOK' /\ LookingUpOK'
  BY <1>1, <1>2 DEF TablesOK, HostsOK, ReceivingOK, LookingUpOK, appRest
<1> QED
  BY <1>4, <1>6, <1>7 DEF TablesOK

LEMMA ForgetOK ==
    ASSUME TablesOK, Forget
    PROVE  TablesOK'
<1> DEFINE mapping == None
<1>0. /\ recv_ilv \in Ilvs /\ mapping = None
      /\ inverse_host_map' = Put(inverse_host_map, recv_ilv, mapping)
  BY DEF Forget, TablesOK, ReceivingOK
<1> HIDE DEF mapping
<1>1. IsDict(inverse_host_map', Ilvs, Mappings \cup {None}) /\ HostsOK'
  <2>1. mapping = None \/ (mapping \in Mappings /\ Nid[mapping.host] = recv_ilv[2])
    BY <1>0
  <2> QED
    BY <1>0, <2>1, StoredHost DEF TablesOK
<1>2. TypeOK'
  BY <1>1 DEF Forget, TablesOK, TypeOK, appVars, Mappings
<1>3. ListsOK' /\ ReceivingOK' /\ LookingUpOK'
  BY DEF Forget, TablesOK, ListsOK, ReceivingOK, LookingUpOK, appVars, ListOf
<1> QED
  BY <1>1, <1>2, <1>3 DEF TablesOK

LEMMA RestoreOK ==
    ASSUME TablesOK, Restore
    PROVE  TablesOK'
<1> DEFINE mapping == [host |-> recv_host, stamp |-> "fresh"]
<1>1. /\ recv_host \in Hosts /\ recv_ilv \in Ilvs /\ recv_ilv[2] = Nid[recv_host]
      /\ inverse_host_map' = Put(inverse_host_map, recv_ilv, mapping)
  BY DEF Restore, TablesOK, ReceivingOK
<1>2. mapping \in Mappings /\ mapping.host = recv_host
  BY <1>1 DEF Mappings, Stamps
<1> HIDE DEF mapping
<1>3. IsDict(inverse_host_map', Ilvs, Mappings \cup {None}) /\ HostsOK'
  BY <1>1, <1>2, StoredHost DEF TablesOK
<1>4. TypeOK'
  BY <1>3 DEF Restore, RecvRest, TablesOK, TypeOK, appVars, Mappings
<1>5. ListsOK' /\ ReceivingOK' /\ LookingUpOK'
  BY DEF Restore, RecvRest, TablesOK, ListsOK, ReceivingOK, LookingUpOK, appVars, ListOf
<1> QED
  BY <1>3, <1>4, <1>5 DEF TablesOK

-----------------------------------------------------------------------------
(***************************************************************************)
(* The application, and time                                               *)
(***************************************************************************)
LEMMA GetAddrInfoOK ==
    ASSUME TablesOK, NEW h \in Hosts, GetAddrInfo(h)
    PROVE  TablesOK'
<1> DEFINE list == host_map[h]
           valid == Selected(list, Valid)
<1>1. ListOf(list, h) /\ list # << >>
  BY FoundList DEF GetAddrInfo, TablesOK
<1>2. /\ app_pc' = "trim" /\ app_host' = h /\ valid_entries' = valid
      /\ app_len' = Len(list) /\ app_current' = TRUE
      /\ UNCHANGED <<host_map, inverse_host_map, recvVars, app_ilv>>
  BY DEF GetAddrInfo
<1> HIDE DEF list
<1>3. ListOf(valid, h)
  BY <1>1, SelectedList
<1> HIDE DEF valid
<1>4. Len(list) \in Nat /\ Len(list) > 0 /\ valid \in Seq(Entry)
  BY <1>1, <1>3 DEF ListOf
<1>5. TypeOK'
  BY <1>2, <1>4 DEF TablesOK, TypeOK, recvVars
<1>6. ListsOK' /\ HostsOK' /\ ReceivingOK'
  BY <1>2 DEF TablesOK, ListsOK, HostsOK, ReceivingOK, recvVars
<1>7. LookingUpOK'
  BY <1>2, <1>3, <1>4 DEF LookingUpOK
<1> QED
  BY <1>5, <1>6, <1>7 DEF TablesOK

LEMMA TrimOK ==
    ASSUME TablesOK, Trim
    PROVE  TablesOK'
<1> DEFINE list == IF valid_entries = << >> THEN None ELSE valid_entries
<1>1. app_host \in Hosts /\ ListOf(valid_entries, app_host)
  BY DEF Trim, TablesOK, LookingUpOK
<1>2. list = None \/ (ListOf(list, app_host) /\ list # << >>)
  <2>1. CASE valid_entries = << >>
    <3>1. list = None
      BY <2>1
    <3> HIDE DEF list
    <3> QED
      BY <3>1
  <2>2. CASE valid_entries # << >>
    <3>1. list = valid_entries
      BY <2>2
    <3> HIDE DEF list
    <3> QED
      BY <1>1, <2>2, <3>1
  <2> QED
    BY <2>1, <2>2
<1>3. IsDict(host_map', Hosts, HostLists) /\ ListsOK'
  <2>1. CASE app_len > Len(valid_entries)
    <3>1. host_map' = Put(host_map, app_host, list)
      BY <2>1 DEF Trim
    <3> HIDE DEF list
    <3> QED
      BY <1>1, <1>2, <3>1, StoredList DEF TablesOK
  <2>2. CASE ~(app_len > Len(valid_entries))
    BY <2>2 DEF Trim, TablesOK, TypeOK, HostLists, ListsOK
  <2> QED
    BY <2>1, <2>2
<1>4. /\ shared_list' \in BOOLEAN /\ AppRest("idle")
      /\ UNCHANGED <<inverse_host_map, recv_pc, recv_host, recv_ilv, entries>>
  BY DEF Trim, TablesOK, TypeOK
<1>5. TypeOK'
  BY <1>3, <1>4, NoEntries DEF AppRest, TablesOK, TypeOK, HostLists
<1>6. HostsOK' /\ ReceivingOK' /\ LookingUpOK'
  BY <1>4 DEF AppRest, TablesOK, HostsOK, ReceivingOK, LookingUpOK
<1> QED
  BY <1>3, <1>5, <1>6 DEF TablesOK

LEMMA GetHostOK ==
    ASSUME TablesOK, NEW ilv \in Ilvs, GetHostByAddr(ilv) \/ GetHostExpired(ilv)
    PROVE  TablesOK'
<1>1. CASE GetHostByAddr(ilv)
  BY <1>1, NoEntries DEF GetHostByAddr, AppRest, recvVars, TablesOK, TypeOK, ListsOK,
              HostsOK, ReceivingOK, LookingUpOK
<1>2. CASE GetHostExpired(ilv)
  BY <1>2 DEF GetHostExpired, recvVars, TablesOK, TypeOK, ListsOK,
              HostsOK, ReceivingOK, LookingUpOK
<1> QED
  BY <1>1, <1>2

LEMMA GetHostClearOK ==
    ASSUME TablesOK, GetHostClear
    PROVE  TablesOK'
<1> DEFINE mapping == None
<1>0. /\ app_ilv \in Ilvs /\ mapping = None
      /\ inverse_host_map' = Put(inverse_host_map, app_ilv, mapping)
  BY DEF GetHostClear, TablesOK, LookingUpOK
<1> HIDE DEF mapping
<1>1. IsDict(inverse_host_map', Ilvs, Mappings \cup {None}) /\ HostsOK'
  <2>1. mapping = None \/ (mapping \in Mappings /\ Nid[mapping.host] = app_ilv[2])
    BY <1>0
  <2> QED
    BY <1>0, <2>1, StoredHost DEF TablesOK
<1>2. TypeOK'
  BY <1>1, NoEntries DEF GetHostClear, AppRest, TablesOK, TypeOK, recvVars, Mappings
<1>3. ListsOK' /\ ReceivingOK' /\ LookingUpOK'
  BY DEF GetHostClear, AppRest, TablesOK, ListsOK, ReceivingOK, LookingUpOK, recvVars
<1> QED
  BY <1>1, <1>2, <1>3 DEF TablesOK

\* A list, in host_map and in the hands of the threads, has expired entries.
LEMMA AgedOK ==
    ASSUME NEW list, NEW h, ListOf(list, h), NEW ilv
    PROVE  /\ ListOf(Aged(list, ilv), h)
           /\ Len(Aged(list, ilv)) = Len(list)
           /\ list # << >> => Aged(list, ilv) # << >>
           /\ \A i \in 1 .. Len(list) : Aged(list, ilv)[i].ilv = list[i].ilv
<1>1. list \in Seq(Entry)
  BY DEF ListOf
<1>2. /\ Aged(list, ilv) \in Seq(Entry)
      /\ Len(Aged(list, ilv)) = Len(list)
      /\ \A i \in 1 .. Len(list) : Aged(list, ilv)[i].ilv = list[i].ilv
  BY <1>1, AgedList
<1>3. ListOf(Aged(list, ilv), h)
  BY <1>2, SameList
<1>4. list # << >> => Aged(list, ilv) # << >>
  BY <1>1, <1>2
<1> QED
  BY <1>2, <1>3, <1>4

LEMMA EntryExpiresOK ==
    ASSUME TablesOK, NEW h \in Hosts, NEW ilv \in Ilvs, EntryExpires(h, ilv)
    PROVE  TablesOK'
<1>1. /\ Get(host_map, h) # None
      /\ host_map' = Put(host_map, h, Aged(host_map[h], ilv))
      /\ entries' = IF recv_host = h /\ entries # None
                    THEN Aged(entries, ilv) ELSE entries
      /\ valid_entries' = IF app_host = h THEN Aged(valid_entries, ilv)
                          ELSE valid_entries
      /\ UNCHANGED <<inverse_host_map, recv_pc, recv_host, recv_ilv,
                     shared_list, app_pc, app_host, app_ilv, app_len,
                     app_current>>
  BY DEF EntryExpires
<1>2. IsDict(host_map', Hosts, HostLists) /\ ListsOK'
  <2>1. ListOf(host_map[h], h) /\ host_map[h] # << >>
    BY <1>1, FoundList DEF TablesOK
  <2>2. /\ ListOf(Aged(host_map[h], ilv), h)
        /\ Aged(host_map[h], ilv) # << >>
    BY <2>1, AgedOK
  <2> QED
    BY <1>1, <2>2, StoredList DEF TablesOK
<1>3. entries' \in Seq(Entry) \cup {None} /\ valid_entries' \in Seq(Entry)
  BY <1>1, AgedList DEF TablesOK, TypeOK
<1>4. TypeOK'
  BY <1>1, <1>2, <1>3 DEF TablesOK, TypeOK, HostLists
<1>5. ReceivingOK'
  <2>1. CASE entries' = entries
    BY <1>1, <2>1 DEF TablesOK, ReceivingOK
  <2>2. CASE entries' # entries
    <3>1. entries # None /\ entries' = Aged(entries, ilv) /\ entries \in Seq(Entry)
      BY <1>1, <2>2 DEF TablesOK, TypeOK
    <3>2. entries' \in Seq(Entry) /\ entries' # None
      BY <3>1, AgedList, NamingAssumption
    <3>3. recv_pc \in {"enter", "store"} =>
             ListOf(entries', recv_host) /\ entries' # << >>
      BY <3>1, AgedOK DEF TablesOK, ReceivingOK
    <3>4. ASSUME recv_pc = "store"
          PROVE  \E i \in 1 .. Len(entries') : entries'[i].ilv = recv_ilv
      <4>1. PICK i \in 1 .. Len(entries) : entries[i].ilv = recv_ilv
        BY <3>4 DEF TablesOK, ReceivingOK
      <4> QED
        BY <3>1, <4>1, AgedList
    <3> QED
      BY <1>1, <3>2, <3>3, <3>4 DEF TablesOK, ReceivingOK
  <2> QED
    BY <2>1, <2>2
<1>6. LookingUpOK'
  <2>1. ASSUME app_pc = "trim" PROVE ListOf(valid_entries', app_host)
    BY <1>1, <2>1, AgedOK DEF TablesOK, LookingUpOK
  <2> QED
    BY <1>1, <2>1 DEF TablesOK, LookingUpOK
<1>7. HostsOK'
  BY <1>1 DEF TablesOK, HostsOK
<1> QED
  BY <1>2, <1>4, <1>5, <1>6, <1>7 DEF TablesOK

LEMMA HostExpiresOK ==
    ASSUME TablesOK, NEW ilv \in Ilvs, HostExpires(ilv)
    PROVE  TablesOK'
<1> DEFINE mapping == [inverse_host_map[ilv] EXCEPT !.stamp = "expired"]
<1>1. /\ ilv \in DOMAIN inverse_host_map
      /\ inverse_host_map[ilv] \in Mappings
      /\ Nid[inverse_host_map[ilv].host] = ilv[2]
  BY FoundHost DEF HostExpires, TablesOK
<1>2. mapping \in Mappings /\ mapping.host = inverse_host_map[ilv].host
  BY <1>1 DEF Mappings, Stamps
<1>3. inverse_host_map \in [DOMAIN inverse_host_map -> Mappings \cup {None}]
  BY DEF TablesOK, TypeOK, IsDict, Mappings
<1>4. /\ inverse_host_map' = [inverse_host_map EXCEPT ![ilv] = mapping]
      /\ UNCHANGED <<host_map, recvVars, appVars>>
  BY DEF HostExpires
<1> HIDE DEF mapping
<1>5. inverse_host_map' = Put(inverse_host_map, ilv, mapping)
  BY <1>1, <1>3, <1>4 DEF Put
<1>6. IsDict(inverse_host_map', Ilvs, Mappings \cup {None}) /\ HostsOK'
  BY <1>1, <1>2, <1>5, StoredHost DEF TablesOK
<1>7. TypeOK'
  BY <1>4, <1>6 DEF TablesOK, TypeOK, recvVars, appVars, Mappings
<1>8. ListsOK' /\ ReceivingOK' /\ LookingUpOK'
  BY <1>4 DEF TablesOK, ListsOK, ReceivingOK, LookingUpOK, recvVars, appVars
<1> QED
  BY <1>6, <1>7, <1>8 DEF TablesOK

-----------------------------------------------------------------------------
LEMMA StepOK == TablesOK /\ [Next]_vars => TablesOK'
<1> SUFFICES ASSUME TablesOK, [Next]_vars PROVE TablesOK'
  OBVIOUS
<1>1. CASE UNCHANGED vars
  BY <1>1 DEF vars, recvVars, appVars, TablesOK, TypeOK, ListsOK, HostsOK,
              ReceivingOK, LookingUpOK
<1>2. CASE ReceiveThread
  BY <1>2, AnnounceOK, EnterOK, StoreOK, StoreFirstOK, ForgetOK, RestoreOK,
     LocatorUpdateOK DEF ReceiveThread
<1>3. CASE AppThread
  BY <1>3, GetAddrInfoOK, TrimOK, GetHostOK, GetHostClearOK DEF AppThread
<1>4. CASE Time
  BY <1>4, EntryExpiresOK, HostExpiresOK DEF Time
<1> QED
  BY <1>1, <1>2, <1>3, <1>4 DEF Next

LEMMA AlwaysOK == Spec => []TablesOK
BY InitOK, StepOK, PTL DEF Spec

\* The types of the tables and of what the threads keep: above all, no list in
\* host_map is ever empty, so that getaddrinfo finds its entries[0].
THEOREM TypeCorrect == Spec => []TypeOK
<1>1. TablesOK => TypeOK
  BY DEF TablesOK
<1> QED
  BY <1>1, AlwaysOK, PTL

\* The two tables never mix hosts up and no list has an entry twice, for any
\* hosts and whatever the threads store over each other.
THEOREM Consistent == Spec => []NamesConsistent
<1>1. ASSUME TablesOK PROVE NamesConsistent
  <2>1. ASSUME NEW h \in Hosts
        PROVE  /\ \A entry \in EntriesOf(h) : entry.ilv[2] = Nid[h]
               /\ Get(host_map, h) # None =>
                     \A i, j \in DOMAIN host_map[h] :
                         host_map[h][i].ilv = host_map[h][j].ilv => i = j
    <3>1. CASE Get(host_map, h) = None
      BY <3>1 DEF EntriesOf
    <3>2. CASE Get(host_map, h) # None
      <4>1. ListOf(host_map[h], h)
        BY <1>1, <3>2, FoundList DEF TablesOK
      <4>2. DOMAIN host_map[h] = 1 .. Len(host_map[h])
        BY <4>1 DEF ListOf
      <4> QED
        BY <3>2, <4>1, <4>2 DEF EntriesOf, ListOf, Distinct
    <3> QED
      BY <3>1, <3>2
  <2>2. \A ilv \in Ilvs : Known(ilv) => Nid[inverse_host_map[ilv].host] = ilv[2]
    BY <1>1, FoundHost DEF TablesOK
  <2> QED
    BY <2>1, <2>2 DEF NamesConsistent
<1> QED
  BY <1>1, AlwaysOK, PTL

\* When process_message returns, host_map has the entry it has announced,
\* whatever the application has stored in the meantime.
THEOREM Entered == Spec => AnnouncementsEntered
<1> DEFINE Done == \A h \in Hosts, ilv \in Ilvs :
                      recv_pc \in {"enter", "store"} /\ recv_pc' = "idle"
                      /\ recv_host = h /\ recv_ilv = ilv
                         => \E entry \in EntriesOf(h)' : entry.ilv = ilv
<1>1. ASSUME TablesOK, [Next]_vars PROVE [Done]_vars
  <2> SUFFICES ASSUME NEW h \in Hosts, NEW ilv \in Ilvs, Next,
                      recv_pc \in {"enter", "store"}, recv_pc' = "idle",
                      recv_host = h, recv_ilv = ilv
               PROVE  \E entry \in EntriesOf(h)' : entry.ilv = ilv
    BY <1>1 DEF vars
  <2>0. recv_host \in Hosts /\ recv_ilv \in Ilvs
    BY <1>1 DEF TablesOK, ReceivingOK
  <2>1. Store \/ StoreFirst
    BY DEF Next, ReceiveThread, AppThread, Time, Announce, Enter, Store,
           StoreFirst, LocatorUpdate, Forget, Restore, GetAddrInfo, Trim,
           GetHostByAddr, GetHostExpired, GetHostClear, EntryExpires,
           HostExpires, recvVars
  <2>2. PICK list \in Seq(Entry) :
                /\ host_map' = Put(host_map, recv_host, list)
                /\ \E i \in 1 .. Len(list) : list[i].ilv = recv_ilv
    <3>1. CASE Store
      BY <1>1, <3>1 DEF Store, TablesOK, ReceivingOK, ListOf
    <3>2. CASE StoreFirst
      <4> DEFINE list == <<Fresh(recv_ilv)>>
      <4>1. list \in Seq(Entry) /\ Len(list) = 1 /\ list[1].ilv = recv_ilv
        BY <2>0, FreshEntry
      <4>2. host_map' = Put(host_map, recv_host, list)
        BY <3>2 DEF StoreFirst
      <4> HIDE DEF list
      <4>3. 1 \in 1 .. Len(list)
        BY <4>1
      <4> QED
        BY <4>1, <4>2, <4>3
    <3> QED
      BY <2>1, <3>1, <3>2
  <2>3. /\ host_map'[h] = list /\ h \in DOMAIN host_map' /\ list # None
        /\ DOMAIN list = 1 .. Len(list)
    BY <2>2, NamingAssumption DEF Put
  <2>4. Get(host_map, h)' = list
    BY <2>3 DEF Get
  <2>5. EntriesOf(h)' = {list[i] : i \in 1 .. Len(list)}
    BY <2>3, <2>4 DEF EntriesOf
  <2> QED
    BY <2>2, <2>5
<1> QED
  BY <1>1, AlwaysOK, PTL DEF Spec, AnnouncementsEntered
=============================================================================
