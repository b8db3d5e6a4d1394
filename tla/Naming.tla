------------------------------ MODULE Naming -------------------------------
(***************************************************************************)
(* The name tables of discovery.py on one node, and the two threads that   *)
(* use them without a lock:                                                *)
(*                                                                         *)
(*   network.ReceiveThread  in process_message and locator_update          *)
(*   the application        in getaddrinfo and gethostbyaddr               *)
(*                                                                         *)
(* A mapping is "fresh" until ttl has passed since its timestamp, and      *)
(* "expired" from then on.                                                 *)
(***************************************************************************)
EXTENDS Integers, Sequences, Dicts, Lists

CONSTANTS
    Hosts,          \* the hostnames of the other nodes
    Nid,            \* host -> its node identifier, as configured
    Locators,       \* where they may be
    Updates,        \* the locators a locator update may bring, as sequences
    MappingsAge,    \* whether mappings expire in a run
    None

Nids == {Nid[h] : h \in Hosts}
Ilvs == Locators \X Nids

Stamps == {"fresh", "expired"}
Entry  == [ilv : Ilvs, stamp : Stamps]

\* An update brings a step of the locator cycle of a node, which lists each of
\* its locators once.
ASSUME NamingAssumption ==
    /\ Updates \subseteq Seq(Locators) \ {<< >>}
    /\ \A locs \in Updates : \A i, j \in DOMAIN locs :
           locs[i] = locs[j] => i = j
    /\ \A h1, h2 \in Hosts : Nid[h1] = Nid[h2] => h1 = h2
    /\ None \notin Hosts \cup Ilvs \cup Seq(Entry)
    /\ None \notin [host : Hosts, stamp : Stamps]

VARIABLES
    host_map,           \* host -> list of entries, or None
    inverse_host_map,   \* ilv -> host and timestamp, or None
    recv_pc,            \* network.ReceiveThread
    recv_host, recv_ilv,
    entries,            \* the list process_message has fetched, or None
    shared_list,        \* it is still the list that host_map holds
    app_pc,             \* the application
    app_host,           \* the name it looks up, or None
    app_ilv,            \* the ilv it looks up, or None
    valid_entries,      \* the entries of app_host that have not expired
    app_len,            \* how long the list is that they were taken from
    app_current         \* that list is still the one host_map holds

recvVars == <<recv_pc, recv_host, recv_ilv, entries, shared_list>>
appVars  == <<app_pc, app_host, app_ilv, valid_entries, app_len, app_current>>
appRest  == <<app_pc, app_host, app_ilv, valid_entries, app_len>>
vars     == <<host_map, inverse_host_map, recvVars, appVars>>

Fresh(ilv) == [ilv |-> ilv, stamp |-> "fresh"]

\* dict.get(key): None for a key that is not there.
Get(d, k) == IF k \in DOMAIN d THEN d[k] ELSE None

Init ==
    /\ host_map = EmptyDict
    /\ inverse_host_map = EmptyDict
    /\ recv_pc = "idle" /\ recv_host = None /\ recv_ilv = None
    /\ entries = None /\ shared_list = FALSE
    /\ app_pc = "idle" /\ app_host = None /\ app_ilv = None
    /\ valid_entries = << >> /\ app_len = 0 /\ app_current = FALSE

-----------------------------------------------------------------------------
(***************************************************************************)
(* process_message: a host announces that it is at ilv                     *)
(***************************************************************************)
RecvRest ==
    /\ recv_pc' = "idle"
    /\ recv_host' = None /\ recv_ilv' = None /\ entries' = None
    /\ shared_list' = FALSE

\* The entry for ilv is renewed in its place in the list, or added to its end.
Renewed(list, ilv) ==
    IF \E i \in DOMAIN list : list[i].ilv = ilv
    THEN [i \in DOMAIN list |->
             IF list[i].ilv = ilv THEN Fresh(ilv) ELSE list[i]]
    ELSE Append(list, Fresh(ilv))

\* inverse_host_map[ilv] is set, and the list of the host is fetched.
Announce(h, loc) ==
    /\ recv_pc = "idle"
    /\ LET ilv == <<loc, Nid[h]>> IN
       /\ inverse_host_map' =
              Put(inverse_host_map, ilv, [host |-> h, stamp |-> "fresh"])
       /\ recv_ilv' = ilv
    /\ recv_pc' = "enter"
    /\ recv_host' = h
    /\ entries' = Get(host_map, h)
    /\ shared_list' = (Get(host_map, h) # None)
    /\ UNCHANGED <<host_map, appVars>>

\* host_map[h] is another list from now on than the application has read.
Replaced(h) == app_current' = (app_current /\ app_host # h)

\* A list that was fetched is changed in place: for host_map too as long as it
\* holds that list, and for an application that is reading it.
Enter ==
    /\ recv_pc = "enter"
    /\ entries # None
    /\ entries' = Renewed(entries, recv_ilv)
    /\ IF shared_list
       THEN /\ host_map' = Put(host_map, recv_host, entries')
            /\ app_len' = IF app_current /\ app_host = recv_host
                          THEN Len(entries')
                          ELSE app_len
       ELSE UNCHANGED <<host_map, app_len>>
    /\ recv_pc' = "store"
    /\ UNCHANGED <<inverse_host_map, recv_host, recv_ilv, shared_list, app_pc,
                   app_host, app_ilv, valid_entries, app_current>>

\* Mutant of Store: left out, as the list has been changed in place anyway.
StoreNothing ==
    /\ recv_pc = "store"
    /\ RecvRest
    /\ UNCHANGED <<host_map, inverse_host_map, appVars>>

\* host_map[hst] = entries
Store ==
    /\ recv_pc = "store"
    /\ host_map' = Put(host_map, recv_host, entries)
    /\ IF shared_list THEN UNCHANGED app_current ELSE Replaced(recv_host)
    /\ RecvRest
    /\ UNCHANGED <<inverse_host_map, appRest>>

\* There was no list: host_map[hst] = [(loc, nid, timestamp)]
StoreFirst ==
    /\ recv_pc = "enter"
    /\ entries = None
    /\ host_map' = Put(host_map, recv_host, <<Fresh(recv_ilv)>>)
    /\ Replaced(recv_host)
    /\ RecvRest
    /\ UNCHANGED <<inverse_host_map, appRest>>

-----------------------------------------------------------------------------
(***************************************************************************)
(* locator_update: the node at ilv says that it moves to new_locs          *)
(***************************************************************************)

\* Mutant of Moved: every entry keeps the locator that is given up.
MovedNowhere(ilv, new_locs) == [i \in DOMAIN new_locs |-> Fresh(ilv)]

\* The entries of the node at its new locators.
Moved(ilv, new_locs) == [i \in DOMAIN new_locs |-> Fresh(<<new_locs[i], ilv[2]>>)]

\* Whether inverse_host_map knows the source of the update.
Known(ilv) == Get(inverse_host_map, ilv) # None

\* An update from a source that is not known is ignored.
LocatorUpdate(ilv, new_locs) ==
    /\ recv_pc = "idle"
    /\ Known(ilv)
    /\ host_map' =
           Put(host_map, inverse_host_map[ilv].host, Moved(ilv, new_locs))
    /\ recv_pc' = "forget"
    /\ recv_host' = inverse_host_map[ilv].host
    /\ recv_ilv' = ilv
    /\ Replaced(inverse_host_map[ilv].host)
    /\ UNCHANGED <<inverse_host_map, entries, shared_list, appRest>>

\* inverse_host_map[ilv] = None
Forget ==
    /\ recv_pc = "forget"
    /\ inverse_host_map' = Put(inverse_host_map, recv_ilv, None)
    /\ recv_pc' = "restore"
    /\ UNCHANGED <<host_map, recv_host, recv_ilv, entries, shared_list,
                   appVars>>

\* The loop over new_locs stores under the key of the old locator each time.
Restore ==
    /\ recv_pc = "restore"
    /\ inverse_host_map' =
           Put(inverse_host_map, recv_ilv,
               [host |-> recv_host, stamp |-> "fresh"])
    /\ RecvRest
    /\ UNCHANGED <<host_map, appVars>>

ReceiveThread ==
    \/ \E h \in Hosts, loc \in Locators : Announce(h, loc)
    \/ Enter \/ Store \/ StoreFirst \/ Forget \/ Restore
    \/ \E ilv \in Ilvs, new_locs \in Updates :
          LocatorUpdate(ilv, new_locs)
-----------------------------------------------------------------------------
(***************************************************************************)
(* The application: getaddrinfo and gethostbyaddr                          *)
(***************************************************************************)
AppRest(pc) ==
    /\ app_pc' = pc
    /\ app_host' = None /\ app_ilv' = None
    /\ valid_entries' = << >> /\ app_len' = 0 /\ app_current' = FALSE

Valid == {entry \in Entry : entry.stamp = "fresh"}

\* The list of h is fetched and gone through.  Without a list there is a
\* NetworkException, and the application tries again later.
GetAddrInfo(h) ==
    /\ app_pc = "idle"
    /\ Get(host_map, h) # None
    /\ app_pc' = "trim"
    /\ app_host' = h
    /\ valid_entries' = Selected(host_map[h], Valid)
    /\ app_len' = Len(host_map[h])
    /\ app_current' = TRUE
    /\ UNCHANGED <<host_map, inverse_host_map, recvVars, app_ilv>>

\* Mutant of Trim: an empty list is stored where the code stores None.
TrimToEmpty ==
    /\ app_pc = "trim"
    /\ IF app_len > Len(valid_entries)
       THEN /\ host_map' = Put(host_map, app_host, valid_entries)
            /\ shared_list' = (shared_list /\ recv_host # app_host)
       ELSE UNCHANGED <<host_map, shared_list>>
    /\ AppRest("idle")
    /\ UNCHANGED <<inverse_host_map, recv_pc, recv_host, recv_ilv, entries>>

\* Expired entries are dropped, by storing the list of the valid ones or None
\* in host_map, whatever it holds by now.
Trim ==
    /\ app_pc = "trim"
    /\ IF app_len > Len(valid_entries)
       THEN /\ host_map' =
                   Put(host_map, app_host,
                       IF valid_entries = << >> THEN None ELSE valid_entries)
            /\ shared_list' = (shared_list /\ recv_host # app_host)
       ELSE UNCHANGED <<host_map, shared_list>>
    /\ AppRest("idle")
    /\ UNCHANGED <<inverse_host_map, recv_pc, recv_host, recv_ilv, entries>>

\* A host is found, and nothing changes, only for a mapping that is fresh; for
\* one that is not there, the message of the exception to be raised names the
\* undefined loc and nid: a NameError, which no application catches.
GetHostByAddr(ilv) ==
    /\ app_pc = "idle"
    /\ ~Known(ilv)
    /\ AppRest("dead")
    /\ UNCHANGED <<host_map, inverse_host_map, recvVars>>

\* The mapping is expired: it is set to None first.
GetHostExpired(ilv) ==
    /\ app_pc = "idle"
    /\ Known(ilv)
    /\ inverse_host_map[ilv].stamp = "expired"
    /\ app_pc' = "clear"
    /\ app_ilv' = ilv
    /\ UNCHANGED <<host_map, inverse_host_map, recvVars, app_host,
                   valid_entries, app_len, app_current>>

GetHostClear ==
    /\ app_pc = "clear"
    /\ inverse_host_map' = Put(inverse_host_map, app_ilv, None)
    /\ AppRest("dead")
    /\ UNCHANGED <<host_map, recvVars>>

AppThread ==
    \/ \E h \in Hosts : GetAddrInfo(h)
    \/ Trim
    \/ \E ilv \in Ilvs : GetHostByAddr(ilv) \/ GetHostExpired(ilv)
    \/ GetHostClear

-----------------------------------------------------------------------------
(***************************************************************************)
(* The passage of time                                                     *)
(***************************************************************************)
Aged(list, ilv) ==
    [i \in DOMAIN list |->
        IF list[i].ilv = ilv THEN [list[i] EXCEPT !.stamp = "expired"]
        ELSE list[i]]

\* ttl is over for what is known of the host of h at ilv, in all the lists
\* the entry is in by now.
EntryExpires(h, ilv) ==
    /\ MappingsAge
    /\ Get(host_map, h) # None
    /\ \E i \in DOMAIN host_map[h] : host_map[h][i] = Fresh(ilv)
    /\ host_map' = Put(host_map, h, Aged(host_map[h], ilv))
    /\ entries' = IF recv_host = h /\ entries # None
                  THEN Aged(entries, ilv) ELSE entries
    /\ valid_entries' = IF app_host = h THEN Aged(valid_entries, ilv)
                        ELSE valid_entries
    /\ UNCHANGED <<inverse_host_map, recv_pc, recv_host, recv_ilv,
                   shared_list, app_pc, app_host, app_ilv, app_len,
                   app_current>>

HostExpires(ilv) ==
    /\ MappingsAge
    /\ Known(ilv)
    /\ inverse_host_map[ilv].stamp = "fresh"
    /\ inverse_host_map' = [inverse_host_map EXCEPT ![ilv].stamp = "expired"]
    /\ UNCHANGED <<host_map, recvVars, appVars>>

Time ==
    \E ilv \in Ilvs : HostExpires(ilv) \/ \E h \in Hosts : EntryExpires(h, ilv)

-----------------------------------------------------------------------------
Next == ReceiveThread \/ AppThread \/ Time

Spec == Init /\ [][Next]_vars

-----------------------------------------------------------------------------
(***************************************************************************)
(* Properties                                                              *)
(***************************************************************************)
\* No list is ever empty: getaddrinfo takes entries[0] of a list it found.
TypeOK ==
    /\ IsDict(host_map, Hosts, (Seq(Entry) \ {<< >>}) \cup {None})
    /\ IsDict(inverse_host_map, Ilvs,
              [host : Hosts, stamp : Stamps] \cup {None})
    /\ recv_pc \in {"idle", "enter", "store", "forget", "restore"}
    /\ recv_host \in Hosts \cup {None}
    /\ recv_ilv \in Ilvs \cup {None}
    /\ entries \in Seq(Entry) \cup {None}
    /\ shared_list \in BOOLEAN
    /\ app_pc \in {"idle", "trim", "clear", "dead"}
    /\ app_host \in Hosts \cup {None}
    /\ app_ilv \in Ilvs \cup {None}
    /\ valid_entries \in Seq(Entry)
    /\ app_len \in Nat
    /\ app_current \in BOOLEAN

\* The entries host_map has for h.
EntriesOf(h) ==
    IF Get(host_map, h) = None THEN {}
    ELSE {host_map[h][i] : i \in DOMAIN host_map[h]}

\* The two tables do not mix hosts up, and no list has an entry twice: what a
\* name resolves to belongs to that host, and what an address resolves to is
\* the host with its identifier, through renewals, locator updates and lists
\* that two threads store over each other.
NamesConsistent ==
    /\ \A h \in Hosts :
          /\ \A entry \in EntriesOf(h) : entry.ilv[2] = Nid[h]
          /\ Get(host_map, h) # None =>
                \A i, j \in DOMAIN host_map[h] :
                    host_map[h][i].ilv = host_map[h][j].ilv => i = j
    /\ \A ilv \in Ilvs : Known(ilv) => Nid[inverse_host_map[ilv].host] = ilv[2]

\* What a host announces does get into host_map: when process_message returns,
\* the table has an entry for it, even when the application has replaced the
\* list, or set it to None, while the announcement was being entered in it.
AnnouncementsEntered ==
    [][\A h \in Hosts, ilv \in Ilvs :
          recv_pc \in {"enter", "store"} /\ recv_pc' = "idle"
          /\ recv_host = h /\ recv_ilv = ilv
             => \E entry \in EntriesOf(h)' : entry.ilv = ilv]_vars

\* The comment on locator_update: it updates the host corresponding to
\* (loc, nid) if it exists.  So the address of every entry has to be known.
EntriesKnown ==
    recv_pc = "idle" =>
        \A h \in Hosts : \A entry \in EntriesOf(h) : Known(entry.ilv)
=============================================================================
