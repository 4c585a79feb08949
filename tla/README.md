# liberator-node: a TLA+ verification project

liberator-node is a VPN node. Clients connect to it over AmneziaWG, nodes
connect to each other over QUIC and form a mesh, and every node routes and
filters the packets of its clients. The modules here model the parts of it where
several goroutines or several nodes meet, from the packet path to the shutdown.
TLC checks them on small instances, and TLAPS proves most of the safety
properties for every instance.

## The system

| Part | Code | State | Operations | Meets |
|---|---|---|---|---|
| Firewall | `pkg/firewall` | rules by key and by address, short ids, holes | AddRule, RemoveRule, RuleCheck, Holepunch, DumpRules | router shards, managers, replication |
| Router | `pkg/router` | shard queues, subscribers, counters | three packet handlers, event fan-out | firewall, routing table, TUN |
| Routing table | `pkg/routingtable` | route by IP, shaping queues | Add, Delete, PushLimited | router, transport, replication |
| Packet pool | `internal/utils/dgmessage` | pooled buffers | NewMessageCopyFrom, Free | everything that carries packets |
| Sessions | `pkg/mesh/session` | session by peer, subscribers | Add, Remove, HandleConnection, runSession | discovery, QUIC, replication |
| Mesh node | `pkg/mesh` | workers, context | Run, Close, accept loop, senders | sessions, syncers, router |
| Peer store | `pkg/mesh/topology` | record by id, file | InsertMerge, Remove, List, save, load | sessions, discovery |
| Discovery | `pkg/mesh/discovery` | addresses being dialled, streams | refreshPeers, connect, gossip | peer store, sessions |
| Replication | `pkg/mesh/peerssync` | streams | syncRules, syncClients, events | firewall, routing table |
| Transport | `pkg/transport/awg` | peers by IP, device | CreatePeer, KickPeer, watchPeers | router, peer manager |
| Managers | `pkg/services` | rows of the database | create, delete, sync, rules | transport, firewall |
| TUN and NAT | `pkg/iface` | device, iptables rules | NewTUN, setupNAT, loops, Close | router, application |
| Application | `internal/app` | life cycle | New, Run, stopRuntime | all |

What makes it hard: the packet path takes no lock over a whole decision; the
control plane changes rules under it; two nodes decide independently which of two
connections to keep; gossip and replication arrive late, repeated, or not at all;
several checks are followed by an act in another critical section; one admin call
is several statements and calls without a transaction; every step of a start can
fail, and goroutines that push into bounded queues end in any order at a
shutdown. `PROJECT.json` lists these hazards at the line where each bites, with
the properties that watch them.

## Modules

| Module | Models | State and actions |
|---|---|---|
| `FirewallRules` | data of the firewall | rules, flow information, `Matches`, `makeFlowKey` |
| `FirewallTable` | what the rule store promises | a table from index to rule; `Put`, `Drop` |
| `Firewall` | the rule store | the four maps and counters of `firewallEngineImpl`; one action per critical section |
| `FirewallFlows` | holes, shards, removals | `holes` as a sync.Map, one program counter per shard and per RemoveRule call |
| `SessionPair` | registries of two nodes | two ends per connection, the registry entry and its age, dials per record |
| `Topology` | the peer store of one node | store, file, sessions, the goroutine of refreshPeers, pending LEFT events |
| `EventStream` | one server stream between nodes | subscription channel and wire, both bounded; subscribe, dump, forward, drop, break |
| `RulesSync` | replication of firewall rules | the rules each node holds, a stream per pair; syncRules and the events |
| `ClientsSync` | replication of routes | the routing table of each node, a stream per pair; the events, and syncClients with one step per critical section |
| `MeshNode` | life of a mesh node | registry, its subscribers and their channels, streams per session, workers, shutdown |
| `PeerLife` | clients of a node | rows and transaction, transport maps, route, device keys; one list of calls per goroutine, commands the device refuses |
| `FirewallManager` | port rules of clients | rows and firewall entries; one step per statement, several callers, cancelled calls |
| `PacketPath` | packets in a node that runs or is told to stop | pool, read buffers, shards, queues; one step per channel operation |
| `TunIface` | TUN interface and NAT | the calls of NewTUN, setupNAT and Close, each of which may fail; closeOnce |
| `AppLife` | the process | New, Run, stopRuntime, servers, workers and their queues, calls to the database that nobody waits for; extends `TunIface` |
| `*Proofs` | | theorems and proofs, one module per component; `NodeManagerProofs` has those of `MeshNode` and `FirewallManager` |
| `MC*` | | values of the constants for TLC |

How they compose: `FirewallFlows` extends `Firewall`, the stateful half and the
rule store. `RulesSync` and `ClientsSync` extend `EventStream`. `AppLife` extends
`TunIface`: NewTUN is a step of New, Close is called by stopRuntime and by the
TUN worker at the same time, and closing the device ends the read loop. `Topology`,
`SessionPair` and `MeshNode` meet in refreshPeers and HandleConnection: the first
has the registry as a set of ids, the second the peer store as the records there
are to dial, the third leaves open which of two connections Add keeps.
`PeerLife` and `FirewallManager` share DeletePeer: the first has its transport
calls, the second its rules.

Abstractions that matter:

* **Rule keys.** A 64-bit key is the pair of its two fields; the widths are the
  constants `ShortMod` (2^16) and `LocalMod` (2^48). Assigning the short id is
  part of the action of AddRule, because its critical section only adds an entry.
* **Flow keys.** Sprintf of ordered fields is the tuple of them.
* **sync.Map.** Load, Store and Delete are one step each. Range meets every key
  that is present throughout exactly once and may or may not meet the others,
  which is what its documentation promises.
* **Shards.** `Hash` and `Worker` are any function of the ordered fields; only
  which flows share a shard matters. A shard takes packets one by one, as Run does.
* **A connection** has two ends that finish the handshake, close and learn of
  closing at different steps. A tick is 5 s: the dial timeout and the period of
  refreshPeers. Goroutines that only have to run do so within a tick.
* **Gossip** brings any sighting other nodes have made, in any order and any
  number of times, with an address and a LastSeen that merges on the way may
  have combined. Every `time.Now()` gives another instant.
* **A dump of rules** is applied in one step. The handler locks per rule, but what
  it does to one of them has the effect of its last access to it. A dump of clients
  is applied call by call, because the transport changes the table in between.
* **A rule or a peer** is its id. SQLite gives each id once (AUTOINCREMENT).
  Foreign keys are not enforced, because nothing turns them on.
* **The database** has one writer at a time; a reader sees the committed rows.
* **A packet** is its flow and its number in the flow. Its route is any of those
  the flow may have; whether it exceeds a limit or lacks a rule is open. A worker
  decides that in one step and passes the packet on in another, which waits for
  room. In `AppLife` packets are only counted, for where they make a goroutine wait.
* **Variables for the properties alone**: `twice` in `PacketPath` and `disturbed`
  in `PeerLife` remember which messages and peers a property exempts. No guard
  reads them.
* **A system call** succeeds or fails; the kernel's interface and rules are sets.

## Runs

| Run | Shows | Distinct states |
|---|---|---|
| `rule_store` | the packed store is a table of rules to every caller | 12,016 |
| `flows` | a removal's sweep misses no hole that stays untouched; a hole serves only its own flow; RuleCheck deletes only an expired one | 1,823,723 |
| `session_pair` | no open connection without a registry entry; redundant dials tear no shared session | 1,042,541 |
| `session_live` | two nodes end with one shared session and keep it | 337,168 |
| `topology` | records that share an address are of one age; a record is dropped only for one that was seen later and has its address, and its LastSeen never goes back | 1,827,533 |
| `rules_pair` | only the owner's word creates or removes a rule; a live rule stays; copies agree in the end | 61,214 |
| `clients_pair` | while each address belongs to one node, its own clients keep their routes and remote routes agree with the owner in the end | 470,605 |
| `mesh_node` | no send on a closed channel, and none closed twice; every lasting session whose notification had room gets its streams; Run returns with nothing left | 50,931 |
| `peer_life` | no address twice; a served peer stays served and every row is served in the end, but for peers created while another call for their address is under way or whose route another node takes away; expired peers go | 134,919 |
| `manager_race` | under two concurrent callers, cancelled calls and restarts, a removed rule stays removed and an added one in force | 1,811,867 |
| `packet_path` | a pooled message has one owner, except one that PushLimited and its caller both free after the node is told to stop; a flow with one way out keeps its order; no packet is stuck while the node runs | 355,972 |
| `app_life` | whichever step fails, listener, database, mesh node and TUN interface are closed on exit, the AmneziaWG device if the workers had started, and masquerading is off unless iptables refused (a panic is not covered); Close returns when the interface is down; the process ends while queues have room | 209,934 |

Every property of a run has a mutant, a plausible slip in the code under which
TLC finds the property violated.

### Bounds

* `rule_store`: three owners, three short ids, so that the counter wraps to 0;
  two rules each, over two addresses. Owners are symmetric.
* `flows`: packets of both directions of one flow from clients and a reply of
  another from the mesh, on two shards; two rules, two removers, two deletions;
  a clock of one tick, which is what a hole lives. Removers are symmetric.
* `session_pair`: four connections alive at a time (one per direction, and two
  that the other side has not yet given up), one JOINED event, one restart, a
  window of two ticks (10 s). `session_live`: three connections, one restart.
* `topology`: two peers and the local id, two addresses, three instants;
  intervals of one instant, so that refreshing and expiring both happen.
* `rules_pair`, `clients_pair`: two nodes with a stream each way, two rules or
  two addresses, channels of one slot, so that events are dropped, one broken
  stream, one restart; in `clients_pair` two peers are created. With three nodes a property of `rules_pair` does not hold
  (see `RulesTriangle.cfg` below).
* `mesh_node`: two connections of one peer, so that a session is replaced, and
  feeds with one free slot, so that a notification is dropped.
* `peer_life`: two peers created one after the other, the second of them at the
  next address, or at the first's when that one is deleted or its commit fails;
  the first may expire or be deleted; one of: a route of another node, a command
  the device refuses, a restart (`MaxTroubles`).
* `manager_race`: two peers, two rules, one of them with an open field, two
  callers, one restart.
* `packet_path`: a flow from each reader, the routes of which are together all
  there are; two packets of the flow that is read in batches and of the one that
  goes to the TUN, which share a shard, and one of a third flow on another shard;
  channels of one slot, so that every queue fills up, and five objects.
* `app_life`: one packet and queues of one, so that a packet never waits for
  ever, which `ProcessEnds` needs (`AppReadLoop.cfg` has full queues); every
  failure, refused deletions of iptables rules among them, and every order of the
  ends. The safety properties are proved for any number of packets and any queues.

Deadlock is not checked where the bounded model or the system itself stops: a
clock at its end (`flows`, `topology`), a node that has shut down (`mesh_node`,
`app_life`), all peers created (`peer_life`), all packets delivered
(`packet_path`).

The modules whose type invariant is not in a run (`FlowsTypeOK`, `PairTypeOK`,
`ClientsTypeOK`, `ManagerTypeOK`, `PathTypeOK`, `AppTypeOK`) state it to document
their variables.

### Fairness

Weak fairness is assumed of goroutines and timers, which the Go scheduler gives,
and of nothing that need not happen: calls of users, failures, signals,
connections and packets.

* `session_live`: refreshPeers, which its ticker calls every 5 s, connect, the
  accept loop, runSession and the timers. From some point on dials and handshakes
  succeed, and a close that is sent arrives; without that no protocol connects.
* `rules_pair`, `clients_pair`: a stream is opened again after a second, its
  ticker sends a dump every 30 s, and messages are received. Forwarding of events
  is not assumed: the dumps alone bring the copies together.
* `mesh_node`: every goroutine but runSession, whose datagram loop may wait in
  HandleMeshPacket.
* `peer_life`: calls end, and the tickers of syncPeers and watchPeers go on.
* `packet_path`, `app_life`: every goroutine takes a step it can take; in
  `packet_path` the device and the limiter take packets.

## Known divergences

The models also state sentences of the repository that the code does not keep.
They are not among the runs above. Each configuration below makes TLC show, in
seconds (`AppReadLoop` in some minutes), how the code departs from the sentence:
`tlc -config X.cfg M`. Some of them serve several properties: for one marked "the
same", put its name in place of the configuration's property.

| Configuration, module | Property | The sentence | What happens |
|---|---|---|---|
| `FlowsRemoval`, `MCFirewallFlows` | `RemovalClosesFlow` | firewall_test.go:14, removing a rule cuts a running flow | a packet between RuleCheck and Holepunch stores its hole after the sweep |
| the same | `UnrelatedRemovalKeepsFlow` (PROPERTY) | firewall_test.go:49, "unrelated removal must not close the flow" | the hole has the direction of a reply, which no rule allows |
| `SessionOutdated`, `MCSessionPair` | `SessionKept` | registry.go:64, a peer that dials again has restarted | it also dials for a record with an id that is out of date |
| `TopologyTie`, `MCTopology` | `OneAddressOneNode` | memory.go:108, one address, one node | two records with the same LastSeen |
| the same | `AddressAsFresh` (PROPERTY) | memory.go:108, the record with the freshest LastSeen survives | an older report, or a copy that refreshPeers writes back, replaces a newer address; only LastSeen is compared |
| `TopologyLive`, `MCTopology` | `LivePeerKept` | discovery/syncer.go:244, a LEFT event does not remove a live peer | the peer connects between the check and the removal |
| `TopologyReminded`, `MCTopology` | `RemindedPeerKept` | discovery/syncer.go:69, a peer is removed that nobody has reminded of | the age is that of an old copy |
| `RulesTriangle`, `MCRulesSync` | `RemovedRuleVanishes` | peerssync/syncer.go:92, missing rules are added and surplus ones removed | two other nodes give a removed rule back to each other in dumps |
| `ClientsStolen`, `MCClientsSync` | `OwnClientKept` | peerssync/syncer.go:232, a local client is not overwritten | a client moves here, and the REMOVED event of its former node, or a dump of it whose lookup was before, deletes the new route |
| `PeerGhost`, `MCPeerLife` | `DeletedPeerGone` | peersmanager/service.go:140, "Add missing peers" | syncPeers adds a deleted peer from a list it read before |
| `PeerReuse`, `MCPeerLife` | `MissingPeersAdded` | the same | a new peer at an address being freed loses its key to the calls still under way |
| `ManagerInherit`, `MCFirewallManager` | `NoInheritedRule` | initdb.go:22, rules belong to one peer | DeletePeer overtakes AddRule; the next peer at the address has the rule |
| `PacketReuse`, `MCPacketPath` | `SliceIntact` | dgmessage.go:88, the pool hands out a cleared object | a slice queued by SendDatagram is overwritten when its object is used again |
| the same | `OneOwner` (INVARIANT) | the same | without a speed limit PushLimited frees the message and returns an error once the context has ended, and the handler frees it again |
| `AppStop`, `AppLife` | `TunTakenDown` | app.go:309, interface and rules are taken down on every exit | PushLimited sends on the queue startWorker has closed, and the process panics |
| the same | `RulesCleaned` (INVARIANT) | iface.go:277, Close clears the iptables rules | the mangle rule and both FORWARD rules stay |
| the same | `DbUnused` (INVARIANT) | no sentence; app.go:283, which waits for the workers only | the goroutines of the peers manager and RPC handlers may be in a call when the database is closed |
| `AppReadLoop`, `AppLife` | `ReadLoopEnds` | iface.go:331, closing the device wakes readLoop | it waits for a buffer whose batch waits for a full shard nobody reads |

Two of these are also proved where the sentence does hold: `SessionKept` between
nodes that know only current ids, and `NoInheritedRule` while admin calls do not
overlap. `OwnClientKept` is proved for addresses that belong to one node each.

## Proofs

All statements hold for every value of the constants that meets the named
assumptions of the modules. Each proof module rests on an inductive invariant.

| Module | Theorem: property | Extra hypothesis |
|---|---|---|
| `FirewallProofs` | `FirewallTypeCorrect`, `IndexCorrect`: `IndexMatchesStore`, `ShortIDsCorrect`: `ShortIDsUnique` | |
| | `StoreImplementsTable`: the store implements `FirewallTable`; `DecisionCorrect`, `DumpCorrect`: rulesAllow and DumpRules agree with the table | |
| | `FlowKeyCorrect`: makeFlowKey joins the two directions of a flow and nothing else | |
| `FirewallFlowsProofs` | `SweepMissesNone`: `SweepComplete`; `HolesJustified`: `HoleJustified`; `LiveHolesKept`: `OnlyExpiredDeleted` | |
| `SessionPairProofs` | `NothingLeaks`: `NoLeakedConnection` | |
| | `SharedSessionKept`: `SessionKept` | records have current ids |
| `TopologyProofs` | `TopologyTypeCorrect`, `SameAgeCorrect`: `SharedAddressSameAge`, `FreshestCorrect`: `FreshestSurvives` | |
| `RulesSyncProofs` | `RulesTypes`, `OwnerCreates`: `OnlyOwnerCreates`, `OwnerRemoves`: `OnlyOwnerRemoves` | |
| | `LiveRuleKept`: `LiveRuleStays` | a node has one session |
| `ClientsSyncProofs` | `OwnRoutesReal`: `OwnRouteHasPeer` | |
| | `OwnClientsKept`: `OwnClientKept` | an address belongs to one node |
| `NodeManagerProofs` | `NodeTypeCorrect`: `NodeTypeOK`; `NoPanicCorrect`: `NoPanic`; `ClosedForGoodCorrect`: a closed registry stays empty | |
| | `RemovedForGood`: `RemovedStaysRemoved`; `InForceUntilRemoved`: `RuleStaysInForce` | |
| | `SerialRulesHavePeers`: `RuleOfItsPeer`; `SerialRulesNotInherited`: `NoInheritedRule` | one caller |
| `AppLifeProofs` | `CloseTakesDown`: `ClosedMeansDown`; `ExitLeavesNothingOpen`: `NothingLeftOpen` | |

The extra hypotheses are not there for the proof's sake: where one fails, a
configuration of the table above (`SessionOutdated`, `ClientsStolen`,
`ManagerInherit`) shows the property violated. A node with two sessions may have
a rule from a third node before an older dump of the owner, without it, arrives.

The arguments:

* **Rule store.** The index is inductive only with unique keys; keys are unique
  only if a new short id is fresh (`ShortIDsCounted`: after n owners the counter
  is n modulo 2^16 and the ids are 1..n) and if each rule lies under the key of its
  own index (`KeysHonest`). Assumed: at most 2^16 owners, rule numbers below 2^48.
* **Flows.** A hole older than the last deletion that no rule allows is on the
  list of some removal under way (`SweepInv`): additions only allow more, and a
  deletion starts a removal that has every present key before it. A packet of a
  flow is handled by the flow's own shard, so a hole found expired stays so
  (`WorkersInv`), and a hole is as old as the last packet of its flow (`PunchInv`).
* **Sessions.** `EndsInv`: an end that was never handed to Add is in no registry,
  and a dial belongs to one record. `AgesInv` bounds the age of a session by the
  age of each dial that was begun without one, so that a late connection still
  meets its session within the collision window, where the higher id wins.
* **Peer store.** Same age is inductive with the types, in memory and in the file;
  all steps go through three lemmas on InsertMerge.
* **Rules.** Created rules only become more and events come from the owner. For
  `LiveRuleStays`, `LiveInv` says that a removal is on its way only for a rule its
  owner no longer has, and that a dump without a rule is on the wire only ahead of
  everything that brings the rule.
* **Clients.** Every route, also in a dump, leads to a node that gives out the
  address (`HomeTable`), and what a dump that is being applied is about to replace
  or delete is at an address of another node (`WorkOf`). With disjoint ranges no
  event and no call of a dump then meets a client of the receiver.
* **Mesh node.** A channel in the registry's map of subscribers is open
  (`SubsOpen`): Close and the goroutine of a subscription each take the channel out
  of the map in the critical section that closes it, and Add sends only to those in
  the map.
* **Firewall manager.** `CallOK` is what a call relies on between its steps,
  whatever others do: an id that AddRule holds is not settled yet, and those a
  removal was asked for are settled, so no AddRule brings them back. With one
  caller, `SerialOK` adds that rows and peers read are still there, and
  `AddressesInv` that the address after the highest is nobody's.
* **Application.** `TunInv` ties the link and the rules to the step of NewTUN or
  Close, or to a deletion iptables refused; `MainInv` ties what is open to the step
  of New, Run or the shutdown, and the AmneziaWG device to the transport's worker.

Only model-checked:

* Liveness (`EventuallyConnected`, `Converges`, `RoutesConverge`,
  `EverySessionStreams`, `ShutdownCompletes`, `EveryPeerServed`, `ExpiredGone`,
  `AllDrained`, `ProcessEnds`): the prover does not reason about fairness.
* `PeerTypeOK` and `ServedStays` of `PeerLife`, `OwnedOnce` and `FlowOrder` of `PacketPath`: safety, not proved yet.

## Not modelled

* **The sending half of discovery** (Subscribe, notify and the gossip server):
  `Topology` takes any sighting in any order instead, which covers safety; that
  gossip spreads, and that a departed peer is forgotten everywhere, is not covered.
* **connectToBootstrap**, which dials configured addresses without a record.
* **The byte counters** of traffic limits and statistics, which only add and
  compare numbers on the packet path: in `PacketPath` a limit is exceeded or not.
  The token bucket is a library's.
* **Which addresses may leave to the internet**: a pure function of the address;
  in `PacketPath` the routes of a flow are a constant.
* **The IP allocator**: sequential, behind one mutex, and called by nothing in
  this tree.
* **ProlongPeer**: its query names a column the table does not have, so it always
  returns an error and changes nothing.
* **The stream listener of a session**: a queue of 100 streams; one that does not
  fit is closed and opened again, which the stream modules have as a break.
* **Controllers, configuration, certificates, connection strings, generated code,
  the certificate and mesh test tools**: they keep no state of their own or only
  convert data.
