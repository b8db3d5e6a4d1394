# ILNP overlay network: specifications

TLA+ specifications of the ILNP overlay network of this repository
(`src/*.py`): modules for each layer and for what happens between nodes, model
checking runs on small instances (TLC), and machine-checked proofs for every
value of the constants (TLAPS). File names and line numbers below refer to
`src/src/` as the repository is laid out beside this directory, `README.md` to
the repository's own, `src/README.md`.

## 1. Inventory

A node is one Python process. Its layers are modules that call one another
directly; every layer is started when it is imported.

| part | state | operations | threads |
|---|---|---|---|
| link (`link.py`) | `joined_mcast_grps`, the UDP socket | `join`, `leave`, `send`, `receive` | none of its own |
| network (`network.py`) | `locs_joined`, `loc_to_interface`, `active_ilvs`, `ilvs_to_update`, `in_queues`, `receive_cvs` | `send`, `receive`, `map_locator_to_interface`, `_receive` | `ReceiveThread`, `MoveThread`, `SolititationThread` |
| discovery (`discovery.py`) | `host_map`, `inverse_host_map` | `getaddrinfo`, `gethostbyaddr`, `process_message`, `locator_update` | called by the others |
| transport (`transport.py`) | `in_queues`, `receive_cvs` | `Socket.bind`, `set_receive_block`, `send`, `receive` | `ReceiveThread` |
| experiment, heartbeat (`experiment.py`, `heartbeat.py`) | start time, sequence numbers | main loop: send, receive, end | main thread |
| UDP proxy (`proxy.py`, `proxy_create.py`) | `proxy_map`, the sockets | create a mapping, relay datagrams | main thread, `SendThread`, one `ReceiveThread` per mapping |
| configuration (`util.py`, `config/`) | `config` | `startup` | none |
| offline scripts (`data_processing/`, `system_issues_results/`) | none | parsing and plotting | none |

How they interact:

- **No state is locked.** The network dictionaries are read and written by the
  receive thread, the move thread, the solicitation thread and the
  application. The only synchronisation is by condition variables: for the
  acknowledgements of locator updates, for the queue of a next header, and
  for the queue of a port.
- **Every thread runs inside one `try`.** An exception ends the pass, the
  state it has changed stays changed, and the next pass starts from there.
  Some exceptions are the interpreter's own: `RuntimeError` when a dictionary
  changes its size while it is iterated over.
- **The application does not catch everything.** The programs expect
  `NetworkException`; an `IOError`, `IndexError` or `NameError` from a lower
  layer ends their main thread, while the other threads carry on.

What is hard: the interleavings of unlocked read-then-write sequences, moves
that end half way, entries that expire between look-up and use, notifications
that come before the wait, and, between nodes, updates and acknowledgements
that are lost, late or heard twice.

What makes each part correct:

- *mobility*: make before break; a move comes to an end; a move that reaches
  its end has switched the node over; the node is never without a group; the
  schedule repeats.
- *forwarding table*: a mapping that does not expire leads to a joined group;
  no mapping leads to a group that was left.
- *transport*: each port gets its messages in order and once, and a message is
  not held up for good while more come.
- *discovery*: the tables never attribute an address to another host; what is
  announced is entered; every entry can be updated later.
- *solicitation*: a node that can send names one of its locators before what the
  others know of it expires, although soliciting is held off by others.
- *session*: a peer that is told in time of the last move sends to where the
  mobile node is until its entry expires, and finds it again when it was not told.
- *forwarding*: routes learned backwards lead to a node that has, or has lost, the
  way; a packet stops; duplicates in a soft handoff have a reason.
- *experiment*: both ends terminate, and neither too early.
- *proxy*: who is told is served; a port has one reader; a datagram goes to the
  remote its program wants; one client that can be understood does not take the
  proxy down.

The list of hazards, each with its line and the properties that cover it, is
in `PROJECT.json`.

## 2. Modules

| module | what it is | code |
|---|---|---|
| `Dicts` | Python dictionaries as functions | (language) |
| `Lists` | the selection from a list, by the loop that makes it | `discovery.py:20-23` |
| `SoftHandoff` | abstract: how the groups of a mobile node may change | promise of `README.md:61-70,102-113` |
| `Handoff` | the network layer of one mobile node, three threads on shared dictionaries | `network.py:53-405`, `link.py:39-150` |
| `Mailbox` | abstract: what the transport layer promises a port | |
| `Transport` | two queues, three threads, two levels of condition variables | `transport.py:17-112`, `network.py:260-284` |
| `Naming` | the name tables and the two threads that use them | `discovery.py:16-133` |
| `Forwarding` | packets between the nodes of a network, backwards learning, hop limit, filter | `network.py:53-257,328-401`, `link.py:39-58` |
| `Session` | a mobile node, its correspondent and the updates between them | `network.py:233-253,326-405`, `discovery.py:16-35,76-133` |
| `Solicitation` | the discovery schedule of several nodes, in discrete time | `network.py:202-231,290-314` |
| `Experiment` | the experiment application on several nodes | `experiment.py` |
| `Proxy` | the UDP proxy and the programs that ask it for mappings | `proxy.py`, `proxy_create.py` |
| `MC...` | the instances of a module for TLC | |
| `...Proofs` | its theorems and proofs (of every detailed module) | |

How they fit together: `Handoff` is one node in full detail, in an environment
that may send it any packet at any time or never. `Forwarding`, `Session` and
`Solicitation` are several nodes, each of them reduced to the steps of
`Handoff` and `Naming` that the others can see. `Transport` is between the
network layer and the sockets that `Experiment` and `Proxy` use. What one module
establishes, others use: that a session hears advertisements again and again
(`Session!Announce`) rests on `Solicitation!AnnouncedInTime`, which says that they are
sent, and not that they arrive; that a receive can be woken in vain or not at all (`Experiment!Die`, `Wait`; `Proxy!ReaderDies`)
is in `Transport`; that a send can raise `IOError` on a mapping to a group that
was left is in `Handoff`.

### Handoff

One action is what one thread does between two accesses to shared state. The
program counter of each thread names the place:

- `move_pc`: `sleep` (326), `retargeted` (343), `snapshot` (345-350), `join`
  and `install` (357-365), `update` (371-373 and 381-383), `wait` (377-379),
  `linger` (386-388), `reset` (392-394), `purge` (395-396), `leave` (399-401).
- `recv_pc`: `recv` (127), `filter` (166), `learn` and `record` (169-171),
  `dispatch` (173-257), `strike` between the test in 248 and the deletion in 249,
  `answer` (217-221), `relay` (224-231).
- `app_pc`: `idle`, `transmit` (97-120), `dead`.
- `snapshot_expired`, `update_expired` and `clear` are the gap between finding
  a route expired (61) and setting it to `None` (62). Any thread may run in it.

`loop_keys` holds the keys of the dictionary that a `for` loop began with and
`todo` what it has still to visit. `ChangedSize` is the interpreter's test; a
loop whose dictionary has another set of keys raises. (While a loop runs the
other threads only add keys to `active_ilvs` and `loc_to_interface` and only
delete keys from `ilvs_to_update`, so different keys means a different size.)
The order of iteration is left open.

`joined_mcast_grps` is the state of the link layer. A link operation raises
when its guard in `link.py` does and, if `SyscallsFail`, at any time: the
system calls under it may fail.

Data that no property tells apart is left out. A packet is its kind, its
interface, its source, its destination locator, its hop limit and the first
new locator of an update. Clocks are reduced to `fresh` and `expired`, set and
read where the code takes and compares the time; a fresh entry may expire at
any moment. That over-approximates every value of the two times to live.

Packets that the node hears back from itself (157-162) change none of this
state. A packet may be in the hands of the receive thread when its group is
left: this stands for the packets of the socket buffer.

### Transport

`transport_pc` and `reader_pc` go through `to_wait` between the look at the
empty queue and the wait; `waiting` ends only by a notification. `Bind` stands
for `bind` and `set_receive_block`, which each application calls in a row
before it receives. A message in a queue carries its port and its number of
arrival.

### Naming

Python lists are shared by reference. `process_message` changes the list it
has fetched in place and then stores it, and `getaddrinfo` may have stored
another list in between: `shared_list` and `app_current` say whether a list
that a thread holds is still the one in `host_map`. `dead` is the application
after the `NameError` of `discovery.py:48`. Messages are entered one at a time,
as there is one receive thread.

### Forwarding

A copy in `net` is a packet in the socket buffer of one receiver; `link.send`
makes one for everyone else in the group. Handling a copy is one action per
branch of `_receive`: the filter (164-167), backwards learning (169-171), data
for the node (255-257), and forwarding of what is for others (173-192) or for
everyone (202-231). The two halves of a soft handoff are one step each, as their
interleavings inside one node are the subject of `Handoff`. A look-up that finds a
route expired sets its entry to `None` (53-65, `RouteExpires`), for the nodes in
`Ageing`; `timed` has the locators whose entry carries a timestamp, so that the
mappings of a node to itself stay. With a `None` in its table the reset of a
handoff raises (392), and the old groups are kept. `forgot` has the locators that
a node has had a route for and lost, in either way. `handed` counts what goes up to the
transport layer, `echoed` remembers which packets were sent again on the link they were
heard on; these two and `forgot` are for the properties only.

An absent nid stands for a node that has left the network while others still
have it in their tables: packets to it are the ones that go round until the hop
limit ends them.

### Session

The correspondent's `host_map` is the list of locators for the mobile node, of
which the network uses the first; `known` is the set of addresses in
`inverse_host_map`. `HandleUpdate` is `discovery.locator_update` with the
acknowledgement that is sent whether the update has found a host or not.
`SendUpdate` leaves on the interface of the snapshot or, when that is `None`,
on whatever the table says by then. The number of the move in a message is not
in the packet; it is there for `struck_by`, `heard` and `last_applied`, and no guard
reads it except through the locators that are in the packet (`LocOf`). `Expire` is a
look-up that drops an entry not renewed for `discovery.ttl`. It may drop any entry at any
time, also that of a locator where the node is: its advertisements may have been lost,
and in a handoff there are none on the old locator any more. `missed` says whether the
first entry has gone in this way since the last update was taken over.

### Solicitation

Time is discrete, a tick being a third of `wait_time` in the run; threads act
in no time. `silent` measures, for a node and a locator, how long ago the node named
the locator in a discovery message; `settled`, how long it has been at this entry of its
cycle with all groups joined. Neither is in the code: they are the clock that
`discovery.ttl` of the others runs by. A move does not touch `silent` but for the
advertisement on a group it joins, and `silent` goes on while sends raise. Who hears a
solicitation may hear it on any of its locators, on several, or not at all; each answer
(214-221) goes out on all locators of the node and names the one the solicitation came in
on, and no other. A node whose sends raise, as a move is not finished, retries
without sleeping (`Begin`, `SolicitRaises`), and time goes on around it. That the
mapping of a joined locator leads to itself is taken for granted here; the race that
breaks it is in `Handoff` (`LearnRoute`).

### Experiment

A tick is the pause between two messages. A message is a sequence number, and
all numbers other than 0 are alike. `Die` collects the exceptions that end the
main thread: `IOError` of `link.send`, `NameError` of `gethostbyaddr`,
`IndexError` of `Socket.receive`. `Deliver` notifies only who waits, so a
message can come without a wake-up, as in `Transport`.

### Proxy

`Client` is a run of `proxy_create.py`. All of them take the same socket name,
`sock_client`, by removing it first, whoever has it. The main thread goes
through `receive`, `respond` (`proxy.py:80`), `bind`, `map` (86) and `start`,
and, as there is no `try` around it, any exception on the way ends it: of a message that
does not split in three or has no number for a port (75-77, `ReceiveRaises`; the runs in
`Malformed` send such), of a response to a name that nobody listens at, or of binding a
port twice. The programs that use the
proxy send datagrams as soon as they are told the port.

## 3. Runs

| run | properties | what it shows | distinct states |
|---|---|---|---|
| `handoff` | `TypeOK`, `PinnedRoutesJoined`, `HandoffComplete`, `NeverIsolated`, `ImplementsSoftHandoff`, `HandoffTerminates` | moves round three overlapping entries, with every kind of packet, an application, ageing and failing system calls that cut moves short anywhere | 598,000 |
| `handoff_schedule` | `NeverIsolated`, `CycleRepeats`, `LeavesRepeat` | moves between disjoint entries: the schedule of the repository's README, on a node that hears nothing | 1,900 |
| `transport_mail` | `TypeOK`, `ImplementsMailbox`, `NextMessageFlushes` | order, and what a lost notification can do at most | 17,000 |
| `naming_tables` | `TypeOK`, `NamesConsistent`, `AnnouncementsEntered` | two hosts that announce themselves and move, against look-ups that replace their lists | 1,580,000 |
| `forwarding` | `TypeOK`, `RoutesLeadOn`, `DirectOnce`, `DuplicatesExplained`, `NetworkQuiets` | a ring with two routers, a node that moves round it and routes that expire | 844,000 |
| `session` | `TypeOK`, `Seamless`, `StruckExplained`, `Converges` | two moves with updates, acknowledgements and advertisements lost, delayed and reordered, and entries that expire | 480,000 |
| `solicitation` | `TypeOK`, `AnnouncedInTime` | nodes that hold each other off from soliciting, one of which has two locators and moves | 1,454,000 |
| `experiment` | `TypeOK`, `EndsForAReason`, `Terminates` | the configurations `experiment_1` and `experiment_3`: who ends when, who is left waiting | 158,000 |
| `proxy` | `TypeOK`, `ToldAreMapped`, `OneReader`, `RelayedAsWanted`, `MainSurvives`, `Answered` | four clients, two of which want one port and one of which cannot be understood | 383,000 |

What the less obvious properties say:

- `NeverIsolated`, `ImplementsSoftHandoff`: make before break, also across moves
  that raise half way. In neither run is there a locator that the node keeps all the
  time, so that it can be without a group: if it left the old ones when a move raises,
  it would be. `HandoffTerminates`: no pass of the move thread hangs in
  its retries or in a loop over a dictionary that others change.
- `NextMessageFlushes`: a notification can be lost, and then a message waits;
  but the next one for the port takes it along.
- `RoutesLeadOn`: what a node has a route for, a neighbour on that link has a
  route for as well, or has had it and lost it: it has found it expired, or has reset
  its table in a move. That a node moves is no excuse by itself.
- `DirectOnce`: a packet that has been heard at its destination is not sent on
  (175-177), so nobody can hear a second copy of it. That is a promise about all
  the routers of a link at once, and about each node while it moves.
- `DuplicatesExplained`: for the packets that come from another link, the filter of 164-167 keeps duplicates from a moving
  node except in two cases, which the property names.
- `Seamless`: the list of the correspondent begins with a locator the mobile
  node has joined when the update of the last move came in time, whatever overtakes it
  and whatever happened to those of earlier moves, until that first entry expires.
  `StruckExplained`: what ends the retries. `Converges`: discovery repairs what
  updates have missed, in the end for good as to where else the correspondent might send,
  and again and again as to its having an entry at all.
- `AnnouncedInTime`: the bound 2 `wait_time` is reached: one for the time a node is
  held off, one for the sleep in which the thread does not look. The lifetime
  of what others know is 3 `wait_time`. It is a promise for one of the locators of a
  node, which is all that the code keeps (see below).
- `MainSurvives`, `RelayedAsWanted`: which combinations of clients can do harm.
  A single client, or clients one after the other with ports of their own,
  cannot if their requests can be read.

### Bounds

- Handoff: three locators, one correspondent node at up to two addresses. The cycle of
  `handoff`, `a,b-b,c-c,a`, gives every move a locator to join, one to leave and one to
  keep, another one each time, and two iterations of the loops over `locs_joined`; that of
  `handoff_schedule`, `a,b-c`, keeps nothing. The
  correspondent is at a locator that the node gives up, keeps or moves to, which
  makes the race with the node's own mapping. Retries are bounded by the configuration in
  the code as well: one or two of them make the loop repeat. Nothing else is
  bounded: the state is finite because clocks are abstracted.
- Transport: four messages, one blocking port and one that polls. Two
  messages make a lost notification, a third one recovers, a fourth one comes
  behind it.
- Naming: two hosts at two locators, with an update that brings both, under
  the symmetry of the hosts. `AnnouncementsEntered` is a property of steps, for
  which the symmetry is sound.
- Forwarding: four nodes and three links in a ring, so that routes can be
  learned in a circle; two packets or announcements, hop limit 2, which takes a
  packet round the ring once. Duplicates need a packet that two routes lead to
  one node, which the ring has. Routes expire at every node but the peer, which is at the
  end of its link: nobody's way leads through it.
- Session: three locators and two moves, so that an update, an acknowledgement
  and an advertisement of either earlier move can be late in the next one; one
  retry.
- Solicitation: `wait_time` of three ticks, so that sleeps of two and three
  ticks exist; two nodes, of which one moves between an entry with two locators and one
  with a single one. All sets of hearers and of locators they hear on, which is what any
  router may or may not do.
- Experiment: two nodes and a router, run times of one and two ticks: the sender
  is over before the receiver, at the same time, or after it.
- Proxy: four clients, three ports, a buffer of one datagram: two rivals for a
  port, a third that interferes with both by the socket name alone, and a fourth whose
  request cannot be read.

### Fairness

- `Handoff!FairSpec`: weak fairness of the move thread, whose sleeps and waits
  all have a bound. The peers, the application and the clock owe nothing.
- `Transport!FairSpec`: each thread is scheduled when it can run. Packets need
  not come, so liveness is only claimed from a message on.
- `Forwarding!FairSpec`: weak fairness of `Deliver`, the receive threads: what is
  in a socket buffer is read. Nothing forces a packet to be sent or lost.
- `Session!FairSpec`: weak fairness of the move thread (`SendUpdate`,
  `EndHandoff`), of the discovery schedule (`Announce`) and of time, as far as entries of
  locators where the node is not any more must expire; strong fairness of `HandleAdv`:
  advertisements are sent for ever, and a network
  that loses every one of them is no network. They may be far apart, so that the entry
  of a locator where the node is may expire as well, any number of times. Updates and
  acknowledgements owe nothing: all of them may be lost.
- `Experiment!FairSpec`: weak fairness of each main thread and of the network,
  which delivers a message or loses it; strong fairness of `Tick`, as the clock is
  disabled while messages are being handled.
- `Proxy!FairSpec`: weak fairness of the main thread and of each `proxy_create`.
- `Naming` and `Solicitation` have safety properties only.

Deadlock is checked in the runs of `Handoff`, `Naming` and `Solicitation`. In the
other ones the system may really stop: all threads wait for a message that
never comes, the packets are used up, all applications have ended.

### What the code does not keep to

Each of these runs checks a statement of the repository and ends in a
counterexample.

| run | statement | what happens |
|---|---|---|
| `claim_wedge` | `README.md:113` "The cycle will then repeat." | `old_active_ilvs` is a list, and line 347 calls `add` on it: once one session has expired, every move raises before it joins anything, for good |
| `claim_entries_known` | `discovery.py:119` update the host if it exists | line 129 stores under the old address in each iteration, so the next update, from a new address, finds no host |
| `claim_duplicates` | `network.py:164-165` the filter is required for not receiving duplicates during the soft handoff | a packet addressed to the locator a node is leaving is heard there, and again on the new locator when its way passes that one |

`CycleRepeats` holds on a quiet node (`handoff_schedule`) and fails once a session
can expire (`claim_wedge`).

The models contain further divergences for which there is no run of their own.

In the network layer of one node:

- Between the check in 169 and the write in 171 the move thread can join the
  locator; the learned, expiring mapping replaces the pinned one
  (`Handoff!LearnRoute`; the comment in 416-417 says own interfaces do not
  expire).
- A buffered packet of a group that has just been left is learned from; `send` on
  that mapping raises `IOError`, which no application catches
  (`Handoff!AppDies`; the comment in `network.py:41` says interfaces are locators
  joined).
- `NeverIsolated` depends on each move bringing a locator (theorem `Connected`).
  For a cycle such as `a-a,b-b` it fails: a move that raised left its new locator
  unjoined, the next one counts that as old (358), does not join it, and leaves
  the only group the node is in.
- Locator updates renew the session they are sent to (`Handoff!SendUpdate`),
  although the comment in `network.py:118` says they are not counted.
- An update whose interface was `None` in the snapshot is mapped when it is
  sent, and may leave on a new locator (`Handoff!UpdateInterface`), which
  `network.py:340-341` wants to avoid. The correspondent ignores it then, as that
  of an unknown source, and acknowledges it (`Session!HandleUpdate`).
- The locator update acknowledgement is tested for and struck off in two steps
  (248-249). A move that begins in between has another dictionary: `KeyError`, and the
  session is not renewed (`Handoff!StrikeOff`).
- A route found expired may have been renewed, or pinned by a move, before it is set to
  `None` (61-62, `Handoff!ClearRoute`).
- A locator learned during the reset, or an entry that is `None`, makes the
  reset raise before the old groups are left (`Handoff!ResetRaises`); the next
  move to a group still joined then fails in `link.join`.

Between nodes:

- An acknowledgement of an earlier move strikes a session off the list of the
  current one (`Session!HandleAck`).
- A late update takes the correspondent back to a locator that was left. Nothing
  but the expiry of that entry, after `discovery.ttl`, leads away from it, as
  advertisements are only appended.
- A bystander that has a mapping for the destination sends a packet again on the
  link it was heard on, and a node in a handoff acts as another router between
  its two links; both make duplicates for third nodes
  (`Forwarding!Forward`).
- A solicitation that raises is retried without sleeping, and the first locator
  that is not joined keeps those after it silent, without bound
  (`Solicitation!SolicitRaises`).
- A node with several locators that is held off by solicitations it hears on one of them
  answers for that one only (`network.py:215`, `Solicitation!Answers`): its other
  locators are not named, and what others know of them may expire.
- When advertisements are lost for a `discovery.ttl`, the entry of a locator where the
  node is expires (`discovery.py:22`, `Session!Expire`), and the correspondent has none,
  or another one first, until the next advertisement arrives.

Above the network layer:

- The notification can be for a message that was taken before the wait:
  `popleft` raises `IndexError` (`Transport!ReceiveRaises`; the comment in
  `experiment.py:15` says that it blocks when receiving).
- The transport thread can wait while its queue is not empty
  (`Transport!TransportWait`), which the comment in `transport.py:79` does not
  consider.
- A look-up can drop a mapping that has just been stored (`Naming!Trim`).
- `README.md:121` says that `application.run_time` terminates `experiment.py`
  after that time; a receiver that blocks looks at it only after a message, and
  waits for ever when the last one is lost
  (`Experiment!LeftWaiting`).
- A second mapping for one port, and an answer to a name that nobody listens at,
  end the main thread of the proxy, the first of them after the client has been
  told that all is well (`Proxy!BindRaises`, `RespondRaises`); so does a single request
  that cannot be read (`proxy.py:75-77`, `Proxy!ReceiveRaises`). A `ReceiveThread` that ends
  leaves its port bound, so that the mapping cannot be made again.

## 4. Proofs

The theorems hold for every value of the constants: any sets of nodes,
locators, ports and clients, any cycle, any number of retries, any `wait_time`.
Their assumptions are the named `ASSUME`s of the modules, which TLC evaluates
in each run. Three theorems have a hypothesis more, which the table names and
the section on their module explains. The last column names the property of a run
that a theorem states.

| module | theorem | property |
|---|---|---|
| `HandoffProofs` | `TypeCorrect`, `PinnedRoutes`, `CompleteHandoff`, `Refinement`, `PassEnds` for finite sets of locators and nodes, and `Connected` if every move of the cycle joins a locator | `TypeOK`, `PinnedRoutesJoined`, `HandoffComplete`, `ImplementsSoftHandoff`, `NeverIsolated` |
| `TransportProofs` | `TypeCorrect`, `Fifo`, `TakesOldest`, `Refinement` | `TypeOK`, `ImplementsMailbox` |
| `NamingProofs` | `TypeCorrect`, `Consistent`, `Entered` | `TypeOK`, `NamesConsistent`, `AnnouncementsEntered` |
| `ForwardingProofs` | `TypeCorrect`, `RoutesLead`, `HandedOnce`, `HopsRunOut`, and `Explained` if `OneWayToMovers` | `TypeOK`, `RoutesLeadOn`, `DirectOnce`, `DuplicatesExplained` |
| `SessionProofs` | `TypeCorrect`, `SeamlessMoves`, `Struck` | `TypeOK`, `Seamless`, `StruckExplained` |
| `SolicitationProofs` | `TypeCorrect`, `Announced` | `TypeOK`, `AnnouncedInTime` |
| `ExperimentProofs` | `TypeCorrect`, `EndsRight` | `TypeOK`, `EndsForAReason` |
| `ProxyProofs` | `TypeCorrect`, `ToldMapped`, `ReadByOne`, `Relayed`, `Survives` | `TypeOK`, `ToldAreMapped`, `OneReader`, `RelayedAsWanted`, `MainSurvives` |

### Handoff

The inductive invariant `IInv` has three parts.

- `Typed` strengthens `TypeOK` with the type each local variable has at each
  program counter: `cursor` is a session in some loops and a locator in
  others, and the interface of a packet in hand is a locator.
- `Routes` is about the table: an entry without a timestamp is the pinned one
  of its own locator, and its group is joined. By itself this is not
  inductive. When the move thread leaves a group, it has to be known that no
  pinned entry for it is left. That follows from what the reset has
  collected: at `reset` a pinned entry of a locator that is given up is still
  to be visited or already in `to_remove`; at `purge` it is in `to_remove`; at
  `leave` there is none. The receive thread cannot spoil it: what it writes
  has a timestamp.
- `Groups` is about the move: at `join` the new groups that are not joined are
  still in `todo`, from `update` on all of them are joined, and at `leave` the
  old groups still joined are in `todo`.

`Refinement` maps `joined_mcast_grps`, `loc_cycle_index`, `old_locs_joined`
and `locs_joined` to the variables of `SoftHandoff`: `BeginMove` is `Retarget`,
`JoinGroup` is `Attach`, `LeaveGroup` is `Detach` (make before break needs
`Groups`), and every other step stutters. `Connected` follows from the
abstract level: a node that detaches has attached a group that the move
brings, and that one is not detached in this move.

`PassEnds` is the part of `HandoffTerminates` that needs no fairness: every step
of the move thread within a pass makes a pair of numbers smaller, and the order of
these pairs is well-founded. The first number counts down the phases of
`MoveThread.run`, with a phase for each retry (`Round`); the second one counts what
the loop of the phase has still to visit, twice, as the thread may be interrupted
between two accesses for one element (`Steps`). What the other threads do to the
dictionaries cannot lengthen a loop: it ends with what it began with, or with an
exception. That the thread can always take a step is `ENABLED`, and stays with the
run.

### Transport

`Fifo` is `[]InOrder`: along the network queue, the message in the hands of the
transport thread and the queue of each port, the numbers of arrival increase and
none occurs twice. `TakesOldest` draws from it what the abstract `Mailbox` asks of
the step: `Socket.receive` returns a message older than any other for its port.

`Refinement` is that `Transport` implements `Mailbox`. The mail of a port is what is
in its queue, in the hands of the transport thread and in the network queue
(`OnTheWay`), in this order. `NetAppend` is `Post`, `Bind` is `Bind`, the actions
that take from the queue of a port are `Fetch`, and `Deliver` for a port without a
socket is `Discard`; every other step moves a message along without changing the
mail. This needs to know what a selection does at both ends of a list: it begins
with the selection of the head (`SelectedTail`), and what is appended is selected
or not (`SelectedAppend`).

`Selected` is a recursive function, of which a lemma (`Selection`) has to say that it
has a value: that there is a function that satisfies its equations. This is
shown by induction over the length. The induction theorems of the library take the
statement as an operator, which the provers cannot instantiate; `Induction` takes the
set of the numbers for which it holds, and follows from the well-foundedness of `<`.

### Naming

The inductive invariant `TablesOK` says of the lists in `host_map` that they are not
empty, have no entry twice and only entries with the identifier of their host
(`ListsOK`), and of the entries of `inverse_host_map` that they have the name of the
host with that identifier (`HostsOK`). A thread keeps a list between its steps, which
the other thread may have replaced or may be changing: `ReceivingOK` and
`LookingUpOK` say of these lists what holds of the ones in the table, and that the
one which is still shared is the same. `Entered` is then a matter of the last step
alone: what is stored has the entry, whether the list is still in the table or not.

`NamingAssumption` has what the proofs rest on: hosts have different identifiers, and
`None` is no list, host or entry. An update brings at least one locator and none of
them twice: it is an entry of the locator cycle of its sender, split from the
configuration at `network.py:412`. A configuration that lists a locator twice in one
entry is outside of the model and of the theorem; nothing in the code rejects it, and
the list that `locator_update` stores would then have that address twice.

### Forwarding

`RoutesLeadOn` is not inductive, as a route is learned from a copy. `CopyOK` says of
every copy in flight that its sender is on the link it was heard on, and that the
link is the source's own or the sender has or has had the way back (`Knows`: a route, or
one in `forgot`). `NodeOK` ties the groups of a node to the links it has been on
(`Visited`) and says that the mappings of its own locators have no timestamp (`Pinned`),
so that they cannot expire. `RouteOK` is the statement for a single entry of a table.
What a node knows it never stops to know in this sense (`KnowsStill`), and no link is
taken from those it has been on (`VisitedStill`); the rest is a case for each action.

`DirectOnce` counts what has been handed over, and depends on what still can be.
`DirectInv` says that a copy in flight names the same links as the packet that was
sent (`SentOK`); that a copy of a packet on the link it is addressed to is still on
that link and has not been handed over before (`FirstCopy`), and is the only one for
its node (`OneCopy`); and that the count is at most one (`CountOK`). A router that
sent such a packet on would break `OneCopy`, and it does not, as `Onward` is empty
for it.

`HopsRunOut` is the part of `NetworkQuiets` that needs no fairness: whatever a step
adds to the copies in flight is a packet of a node's own or has one hop less than the
copy it replaces. A packet can be copied often, but only down a ladder of
`default_hop_limit` rungs.

`Explained` is `DuplicatesExplained` for every network in which only the moving node
itself can close a circle, which is the case the filter of 164-167 is made for.
`OneWayToMovers` says so: the other nodes and their links form a tree (`TreeWithout`),
in which one way leads from the source to the locator the node moves to
(`OnTheWayTo`), and the node keeps none of its locators. `MCForwarding` assumes it, so
that TLC evaluates it for the ring and for the pair. It cannot be dropped: two routers
between the same two links deliver every packet twice, whether anybody moves or not.
The invariant `MoverInv` adds two things to `DirectInv`. `PhaseOK`: a node has begun its
move before it can be reached at its new locators, so that it does not take what
it hears on the old ones (`Unwanted`) while a packet for the new ones is about.
`Orderly`: unless a packet has been echoed, its copies are heard on the side of the source,
and one of them at most is on the way to the node, or it has been handed over
(`OnCourse`). A forwarding step keeps this because a router sends a packet away from the
link it was heard on, and of the nodes that hear it there only one is further along
the way (`Hearers`, `CourseForward`).

### Session

`Seamless` is about the first entry of a list that updates replace, advertisements
append to and time takes from. `SendsAsTold`: until the first entry expires, it is the
locator of the update that was taken over last (`last_applied`). As no update is heard
of a move that has not begun (`Timely`), and that move is the current one or, during a
handoff, the one before it, the locator is one that the node has joined.
`StruckExplained` needs of `Timely` that an acknowledgement is of an update that was heard.

### Solicitation

That a node speaks in time depends on how long its thread still sleeps, and that on
the timestamp; the invariant relates both to the locator of the node that was named
last. `Recent(n, ticks)`: it has not been there, able to send, for more than so many ticks without a
word of one of its locators. `Paced`: this holds for the age of its timestamp, or the
timestamp is stale and it is time to solicit. `WakesInTime`: it holds for
2 `wait_time` less the rest of the sleep. `Covered`: while a node solicits no tick
counts, or the locators it has been through were named just now. `Moving`: while
sends raise, no tick counts. The bound below `ttl` follows, as `ttl` is 3 `wait_time`.

### Experiment

`EndsForAReason` needs to know where a 0 comes from. `MarksTold`: where there is a 0
for a node, in the network, in its queue or received, a node that sends to it
has ended because its own time was over.

### Proxy

A request that is taken can be read or not (`Received` stands for both steps).
`Queue`: a client asks once, and a request is in the buffer or being worked on, not
both. `Tables`: what the main thread knows of the port at hand, in particular that it
was not bound before and has no reader yet. `Served`: whoever has asked is pending
or mapped to what it wants. `Owned`: a bound port is that of a client whose turn has
come. `Relays`: a mapping is what some client wanted, and stays. `EarlyRobs`: a
client that has an answer before its turn has got that of one it has robbed of the
name, which is the case that makes `MainSurvives` hard.

### Only model-checked

- Liveness (`HandoffTerminates`, `CycleRepeats`, `LeavesRepeat`,
  `NextMessageFlushes`, `NetworkQuiets`, `Converges`, `Terminates`, `Answered`): the prover
  does not reason about fairness and `ENABLED`. `PassEnds` and `HopsRunOut` are the
  safety halves of `HandoffTerminates` and `NetworkQuiets`.
- What `DuplicatesExplained` says of networks that are not trees without the moving node:
  the theorem does not speak of them, nor do the runs.
- The `claim_` runs, whose properties do not hold.

## 5. Not modelled

- *Heartbeat*: two loops without a state or an end; their look-ups and sockets are
  the applications of `Naming` and `Transport`.
- *Startup*. The receive thread is started (450) before `discovery.startup` has run and before
  `solititation_timestamp`, `receive_cvs` and `ilvs_to_update` exist. A packet in that
  gap raises `NameError` in the thread, which drops it and goes on; `Handoff!HandleAck` has this
  outcome for `ilvs_to_update`, which exists only on nodes that move. It is
  a single step that cannot happen later.
- *Configuration*. `default_hop_limit`, `backwards_learning_ttl` and the retry settings
  are read as strings, and raise an exception where they are compared or packed; the default
  values are numbers, which is what the models take. `README.md` names
  `active_unicast_session_ttl`, the code reads `active_uncast_session_ttl`; the shipped
  configurations set `move_sleep`, which no code reads. `README.md:107` lists `0:0:0:b`
  among the locators left at T=30s where `0:0:0:f` is meant.
- *Conversions and headers*: pure functions of strings and bytes. Locators are compared
  as texts in the tables, so that two spellings of one locator are two locators; the
  models have one spelling each.
- *Logging*: I/O. The line written at `network.py:186` is not guarded by a test for the
  log file; an exception there is one of those that end a pass.
- The multicast address of a locator, the buffer size and the socket options of
  `link.py`: I/O.
- The race of two threads to create one entry of the `defaultdict` `receive_cvs`: it
  depends on where the interpreter switches threads inside the library.
- Offline data processing, plotting, shell scripts, configurations, recorded logs.

## 6. Plan

Done: `SoftHandoff`, `Handoff`, `Mailbox`, `Transport`, `Naming`, `Forwarding`, `Session`,
`Solicitation`, `Experiment`, `Proxy`, with proofs of all safety properties and of
both refinements.

What could be added:

1. A module for the startup order, should its threads be given state that
   outlives a packet.
2. A composition of `Session` with `Forwarding`, in which the updates take the routes
   the network has learned instead of arriving or not.
