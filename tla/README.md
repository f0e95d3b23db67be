# Cherry in TLA+

Cherry is an OpenFlow controller in Go. This directory models its core in TLA+,
checks the models with TLC on small instances, and proves their main properties
with TLAPS for every value of the constants.

    tlc -config Graph.cfg MCGraph      # a run: configuration, module
    tlapm Graph_proofs.tla             # a proof module

`PROJECT.json` lists components, runs, mutants, findings, hazards, theorems, and,
for every definition that models code, the lines it stands for.

## 1. The system

| Part | State it keeps | Operations | Talks to |
|---|---|---|---|
| `main.go` | listener, backlog of 32 connections | accept loop | election (IsMaster), controller |
| `election`, `MySQL.Elect` | uid, cached flag `master`; one database row | ticker loop, Elect | database |
| `network.Controller` | listeners, REST routes | AddConnection, REST handlers | sessions, database |
| `network.session` | negotiated, checkpoint, device | handlers of OpenFlow messages, explorer | transceiver, topology, applications |
| `openflow/transceiver` | stream, version, factory, pingCounter, channel of 4096 | reader and dispatcher goroutines | session |
| `network.topology` | devices, graph | DeviceAdded/Removed/Linked, PortRemoved, stale-edge timer | graph, applications |
| `graph.Graph` | vertices, edges, points, enabled flags, timestamps | Add/Remove vertex/edge, MST, FindPath | - |
| `network.Device` | id, ports, flow cache, closed | SetFlow, RemoveFlow(s), packet out | session (write) |
| `northbound.Manager`, `app.BaseProcessor` | chain of applications | Enable, event propagation | applications |
| `discovery` | ARP sender per device; host locations in the database | OnDeviceUp/Down, OnPacketIn, OnPortDown, OnTopologyChange | database, devices |
| `l2switch` | storm controller, flow manager | OnPacketIn, OnTopologyChange, OnPortDown | topology paths, devices |
| `proxyarp`, `virtualip`, `announcer` | back-off per address | OnPacketIn, VIP toggling | database, devices |
| `database.MySQL` | tables | one transaction per operation, re-executed on deadlock | - |
| `openflow/of10`, `of13`, `protocol` | none | encode, decode | - |

Every switch connection has three goroutines (reader, dispatcher, explorer).
The dispatcher runs all handlers of its switch, through the topology and the
applications, so handlers of different switches interleave at every mutex: the
topology's, the graph's, each device's, and each application's. Controllers of
one installation interleave at the database.

What is hard in it, and where (the full list is `hazards` in PROJECT.json):
check-then-act over two critical sections (duplicate DPID, ARP senders); maps
that must agree after any sequence of calls (graph); flags that are cached while
the fact changes (master, points); transactions that are executed again; clocks
that differ; goroutines that must end together; silent peers; limits (channel,
rate limit, pings, retries); messages dropped at a full channel; a switch that
comes back with its old flows; announcements that overtake each other; wire
formats with two representations of the same thing.

## 2. Modules

| Module | Models | Correspondence |
|---|---|---|
| `Forest` | reference definitions: spanning forest, connectivity | a link is the set of its two `<<device, port>>` points, as `link.ID` sorts its ports |
| `PathSearch`, `MST_proofs` | `Graph.FindPath` | one action per vertex taken from its queue and per step of the way back, after `calculateMST` is done; the order of a vertex's edges is any. Called for any two devices, also for ones that have left the graph |
| `MST`, `MST_proofs` | `Graph.calculateMST` | one action per branch of the loop body; `queue`, `clusters`, `count` are its locals. Random map order and unstable sort: any edge of least weight may be popped |
| `Graph`, `MCGraph`, `Graph_proofs` | `graph.Graph` as the topology drives it | one action per method (each holds the mutex throughout). calculateMST is replaced by "any spanning forest", which `MST` justifies, as all links weigh the same |
| `Lease` | abstract specification: the mandate of a master, without database and time | - |
| `Election`, `Election_proofs` | `Observer.Run`, `MySQL.Elect`, `MySQL.query`, `listen` | pc follows ticker, SELECT FOR UPDATE, decision, commit, setMaster; the row lock and the gap lock of a missing row are external behaviour of InnoDB. The locks are those of one server; that the servers of a cluster do not share them shows as a deadlock error of Commit, which any transaction may get. Refines `Lease`: the row is the mandate, and each start of a controller is a process of its own |
| `RateLimit` | abstract specification: what the limit promises over the whole history | - |
| `StormController`, `StormController_proofs` | `stormController.broadcast` | one action per branch; refines `RateLimit` |
| `Session`, `Connection_proofs` | connection life cycle, device registry, ARP sender registry | one action per critical section of `OnFeaturesReply`, `session.Run`, `OnDeviceUp`, `OnDeviceDown` |
| `Transceiver`, `Connection_proofs` | reader and dispatcher goroutines | one action per turn of each loop; a message is its kind |
| `Handshake`, `Handshake_proofs` | `session`, `of10Session`, `of13Session`, the ports and flow operations of `Device`, against a switch | one action per handler, for the explorer and for each flow operation; `pending` is the FEATURES_REPLY that has made the device ready and is not yet passed on to the handler of its version, a gap in which the explorer runs; `in` is the transceiver's channel, which drops what does not fit, `out` what was written; the switch (external) handles messages in order, keeps its flows and reconnects. A flow is what a delete can tell apart: VLAN, cookie, table, port |
| `Inventory` | the tables of the database and its transactions | one operator per method that changes a table, with the triggers and keys of `mysql_schema.sql`; a row is its key |
| `Northbound`, `MCNorthbound`, `Northbound_proofs` | REST handlers, VirtualIP, Discovery and ProxyARP, broadcasters and announcers, over `Inventory` | one action per transaction or announcement of a handler; `rest` has the requests, `down` the events of each switch, `resting` the announcers that wait; `arp` is what the network was last told |
| `Match` | abstract specification: the interface `openflow.Match` | - |
| `Match10`, `Match13`, `MatchPair`, `Flows_proofs` | the matches of both versions, and their wire formats | one operator per kind of setter, with its errors (prerequisites, and an address of no bytes); `MatchPair` makes the same calls on both, and maps each to `Match`. A nil address, which panics in most setters, and MAC addresses of one to five bytes, which only 1.3 refuses, are not made |
| `MCSequential` | nothing of its own | one run for the parts that are sequential and share no state: `PathSearch` over `MST`, `StormController` and `MatchPair`, each explored while the others rest |
| `Forwarding`, `MCForwarding`, `Flows_proofs` | L2Switch, Discovery's host locations, `Device` flows, flow cache, topology events | each goroutine has a list of tasks `todo`, one critical section each (`Doing`); a loop over `finder.Devices()` is one task with the devices that are left. One host is followed: flows, cache keys and locations are per destination address, and other hosts only evict cache entries |

Operators named `X_Something` are mutants of `X`: plausible mistakes, each of
which some property must catch. They are used nowhere else.

`Northbound` and `Inventory` compose by EXTENDS: the users and the tables.
`Session` and `Handshake` share the handlers of a session: the first looks at the
registries of several sessions, the second at one switch and what is on the wire.
`Transceiver!forward` is what `Handshake!Send` takes from the channel.
`Connection_proofs` extends `Session` and `Transceiver`, `Flows_proofs` extends
`Forwarding` and `MatchPair`, `MCSequential` extends three; so that they can be
extended together, modules have names of their own for their specification
(`StreamSpec`, `MatchSpec`, `StormSpec`, `SearchSpec`) and what that is made of.
`MST` and `Graph` compose: `Graph!calculateMST` is what `MST` shows its loop to
establish, and `Graph!KnownEnds` is what `MST!KnownInput` assumes.

## 3. Runs

| Run | Result | What it shows |
|---|---|---|
| `sequential` | pass | Graphs: for every sub-multigraph of seven links over four switches (ring, chord, parallel link, self-loop, two weights), any old flags and any pop order: calculateMST returns, with a spanning forest of least weight; and FindPath returns, with a simple path over it for every two switches that are connected, and none for the others. Storm controller: limit 2 per 2 ticks, 8 ticks, 6 floods: the rate holds, and the controller implements `RateLimit`. Matches: calls of the setters of nine fields, also in orders and with addresses that are refused: the matches of 1.0 and 1.3 do to the getters' answers what the interface promises, and are read back from the wire as what was set. |
| `graph` | pass | Three switches, four links, two of which share a port, one a port looped to itself; switches and links come and go, links age. No panic, maps consistent, tree current after every operation and moved only by a change, dead links forgotten. |
| `graph_edge` | violation | After a port was cabled to another switch, the removal of its former link makes `IsEdge` false for it, although it is on a link. |
| `election` | pass | Two controllers, each with a crash and restart, deadlock errors on the missing row and of Commit, clock skew 1, lease 3, renewal within 2: a row taken over only when it is stale; and, leaving aside the masters that a retried Commit has misled (`misled`), one master, and `Lease` implemented, so that only the master serves, and remains it until its process ends; a master whom the row names again and again. |
| `election_retry` | violation | After a Commit that failed with a deadlock error, Elect returns true though the row names another controller. |
| `session` | pass | Three connections of two switches: no registry entry leads to an ended session, every teardown completes; and, until two sessions of one switch are initialised at once, one session per switch, registered while it serves, with one ARP sender that ends with it. |
| `session_twice` | violation | Two sessions of one switch pass the duplicate check. |
| `transceiver` | pass | Channel of 2, two messages in the stream, 3 pings: a silent switch is detected whenever it falls silent, the goroutines end together, the HELLO of a switch that greets first is never what the full channel drops, and a switch is given up only with three pings unanswered. |
| `forwarding` | pass | Two switches, one link, a host with three places to be (one of them the link port, while the link is not known); moves, ports, links and connections that come and go, database failures. A wrong flow is about to be removed, also after removeAllFlows gave up half-way, or was set by a goroutine that had decided too early (`stale`); the flow manager then repairs it in spite of the flow cache. |
| `handshake` | pass | A switch of either version and of the three kinds of hardware, with a port and the local port, a channel of two messages, two inputs (port changes, packets, flow operations) and a reconnect: from the checkpoint on the ARP and LLDP flows of this session, and no others of an earlier one, are there, whatever is removed; normal flows are in the hardware's table unless ports are known, or asked for, too early; a port that goes down is told; the handshake ends unless a reply was dropped; the ports converge and LLDP is sent again and again although every PORT_STATUS may be dropped. |
| `northbound` | pass | An empty database, or two hosts with a virtual IP; overlapping networks; two requests at once, port and device failures, faults and a retried toggle: the tables stay consistent, a virtual IP fails over, what a toggle announces is what it committed, and the ARP entries of the network converge to the database in spite of lost and outdated announcements and the back-off. |
| `transceiver_crash` | violation | The reader uses the factory before the dispatcher has chosen it. |

The four violations are stated as `findings` in PROJECT.json, with the line of
the repository they contradict.

Conditions. Some of what the passing runs and the theorems show has a condition
that the code does not establish; it is stated as a constant, an assumption or a
history variable:

- `Election!AtMostOneMaster` and `Election!ImplementsLease` need
  `Skew + MaxStall <= Expiration`: a controller that stalls longer goes on serving the
  connections it has (main.go asks `IsMaster` at accept only). And they leave aside a
  controller while it was told by Elect that it is the master, but only by a try that
  was rolled back (`misled`), for `AtMostOneMaster` until the next Elect, for the
  sessions in `Lease` until its process ends. That this happens is what
  `election_retry` shows; without the exception both are violated.
- `Handshake!NormalFlowsInTable` needs that no port is known before the description
  (`early`): a PORT_STATUS before it, or a request of the explorer between setID and
  the request for the description, lets flows into table 0 of an HP2920. A
  handshake reply that is dropped (`lost`) leaves a session that is never set up.
- `Northbound!ToggleAnnounced` needs that the hosts did not change between two
  tries of a toggle, whose result is not reset either.
- `Northbound!ArpConverges` is about addresses in use: a broadcaster that read a host
  before it was removed may announce it after the removal, and nothing repairs that.
- `MatchPair!RoundTrip` leaves out matches of OpenFlow 1.3 with a VLAN priority or
  an IP protocol: `marshalUint8TLV` panics. Nothing in the repository sets them.

Bounds. `sequential`: four vertices allow every shape that matters to Kruskal's loop
(trees, cycles, several components, parallel links, loops); the proofs cover the
rest. `graph`: three switches are the least with a cycle and with links that
share a port. `election`: two controllers contend; a third adds no new kind of
step, and the theorems hold for any number. `session`: three sessions give an
old, a duplicate and a new one. `transceiver`: three pings are the code's own
limit; the two idle times are scaled (1 and 3 read timeouts for 10 and 30
seconds, in the same order as in the code). `forwarding`: two inputs (events or
packets) and two goroutines at work at once, next to any number of passes of the
flow manager: enough for a decision overtaken by a move, for a port that goes
p, q, p within the life of a cache entry, and for a removal that meets a broken
device; `WrongFlowExplained` was also checked with three inputs. Devices() and the
first turn of the loop over its result are one step there. `handshake`: a channel of two fills up
with one answer and one port change, so that every reply can be lost; two
sessions are an old and a new one. `northbound`: three inputs are, for example, a
removed host, its address given away and a lost announcement, next to any number
of rounds of the broadcasters; one retry is enough for a result that was not
reset; a switch has one port, and the failure of that port and of the switch are
different events, as only the first is an error when the port is unknown. Matches: one value per field (two for network bits), as the fields do not
depend on each other's values. Counters that only saturate
(ages, idle times, unanswered pings) are cut where nothing changes any more. In
`StormController` the clock and the history are bounded, which is why it may stop.
`CHECK_DEADLOCK FALSE` is for systems that do end: calculateMST returns, sessions
are torn down, transceivers close, a crashed controller is gone.

Fairness. `MST` and `PathSearch`: sequential code keeps going. `Graph`: time passes and the
stale-edge ticker fires; nothing is assumed of switches or cables. `Election`:
the ticker loop runs, the database answers, lock waits are served in turn
(strong fairness on the SELECT and the write). `Session` and `Transceiver`: Go
schedules every goroutine that can run, and reads time out; nothing is assumed of
switches. `Forwarding`: goroutines are scheduled, the flow manager's ticker ticks
and finds the database answering, and cache entries grow old. `Handshake`: both
sides read what they get, and the explorer's ticker ticks. `Northbound`: the
broadcasters' tickers tick and delays end; requests and events may get stuck
anywhere.

## 4. Proofs

All eight proof modules are checked to the last leaf, from the named ASSUMEs of
the modules they extend. What these ask of the constants is either a type (no
value is `None` or `NULL`, sizes are positive) or one of: finitely many links or
ports; in `Northbound` a database that starts with consistent tables
(`StartsConsistent`; they may be empty); in `Forwarding` that a hop leads over an
edge of the graph (`Network`; `PathsRightThm` proves it of FindPath: the first element
of a path is an enabled link of its source);
in `MatchPair` that numbers fit 16 bits and that "any" is no value.

- `MST_proofs`: the inductive invariant says that clusters partition the vertices,
  are closed under enabled links and connected by them, that every link no longer
  queued lies within a cluster and is bypassed by enabled links no heavier, and
  that removing an enabled link separates its ends. From it: `SpanningForestThm`,
  `MinimumThm`, `CountsClustersThm` (the early stop at `len - 1` is right because
  the counter tells the number of clusters).
- `MST_proofs`, FindPath: `SearchInv` stands on the finished tree, which spans what
  the links connect. The visited vertices are connected to the source (`Reached`),
  and every one of them is queued or has its neighbours visited (`Frontier`), so an
  empty queue means that the component is complete (`Complete`: no enabled link
  leaves the visited set, hence no link does). `prev` cannot go round in a circle:
  out of every set of visited vertices without the source it leads somewhere else
  (`Tree`), which says without recursion that every way back ends at the source. The
  stops of a way that met one of them again would be such a set, so the path is simple
  (`WayBack`). From it `PathsRightThm`; and, as the stops differ, `FewTurnsThm`: the
  way back, a loop without a bound of its own, takes fewer turns than there are
  switches.
- `Graph_proofs`: `VertexEdgesAgree` makes `KnownEnds` inductive (RemoveVertex goes
  by the per-vertex map). `NeverUnknownVertex`: no panic. `TreeAlwaysUpToDate`,
  `PointsAlwaysLive`, `TreeOnlyMovesOnChange`.
- `Election_proofs`: `TxInv` (locks, and that a transaction's reason to write lasts
  until it commits) holds in every environment and gives `LeaseThm`. `MasterInv`
  (who takes itself for the master, and was not misled, owns a fresh row and can only
  renew it) needs `Skew + MaxStall <= Expiration`, and nothing of deadlock errors:
  `OneMasterThm`. Under the same condition every step is one of `Lease` or leaves it
  alone (`LeaseStep`): Commit grants, setMaster accedes, the end of a process is the
  only way to lose the flag, and a restart is invisible. `LeaseImplemented`.
- `StormController_proofs`: the timestamps kept are the last ones of the ordered
  history; the oldest decides as the cardinality of the recent floods does
  (`SuffixCount`). `WithinLimitThm`, and the refinement `ImplementsThm`.
- `Connection_proofs`, sessions: `Inv` (registries hold sessions under their own
  DPID, and only members) gives `NoGhostThm`; `Excl` (a session has its DPID to
  itself between check and registration), until the first race, gives
  `OneSessionThm`, `ServedThm` and `SendersThm`. Transceiver: the account of the
  pings needs that no ping is sent before the factory is chosen, and what becomes of
  the replies in the stream when one message is sent or read (`RepliesSent`,
  `RepliesRead`): `PingsThm`. Until negotiate has taken a message, the first one that
  the switch sent for Run is at the head of the channel or, with the channel empty,
  the first in the stream: `GreetingThm`.
- `Handshake_proofs`: `SpecialFlowsStay` says nothing before the checkpoint, so the
  invariant follows the seven messages of OnHello through the wire: `Handled(k)` is
  what the switch shows after k of them, and a barrier reply is on its way only after
  all seven. From then on nothing on the wire can undo it (`Harmless`), for every
  removal asks for a VLAN and the special flows have none: `AlwaysSpecialFlows`. For
  `AlwaysInTable` every reply about ports is behind the description or the request
  for it, in both directions (`DescriptionFirst`), while neither `early` nor a loss
  has happened; a ready device has asked for the description unless its
  FEATURES_REPLY is still `pending`. For `AlwaysPortDownTold`: in the channel, between "p is up" and
  a later reply with "p is down" there is the PORT_STATUS, unless it was dropped
  (`NoSilentDown`), so the explorer never is the first to learn of it.
- `Northbound_proofs`: `TablesInv` is `Consistent` with the counting taken out of it:
  addresses are a key of hosts and virtual IPs together, and the column `used` follows
  from them (`AtMostOne` is the bridge to cardinalities). Each transaction keeps it,
  and each action of the handlers is a transaction or leaves the tables alone:
  `AlwaysConsistent`. `EventsInv` says what a handler of an event remembers: before
  its toggle, the virtual IPs it must move (`Before`); after it, that they have moved
  unless somebody else changed the hosts (`Flipped`). It gives `AlwaysFailedOver` and
  `AlwaysToggleAnnounced`.
- `Flows_proofs`, forwarding: a wrong flow needs a reason to go away in every state,
  so the invariant has the lists of tasks a goroutine can have (`Shape`, `Ending`), the
  life of a device (`Lives`), and that each flow is justified, `stale`, or `Due`: some
  goroutine will come to its device, and will not give up before. A removeAllFlows
  that is about to fail (`GivesUp`) counts for nothing, which is what the code's
  early return on an error requires. One lemma per task of `Doing`; `AlwaysExplained`.
- `Flows_proofs`, matches: in 1.0 the answers depend on wildcards and on the type and
  protocol that a prerequisite left behind (`EtherAgrees`, `ProtocolAgrees`, which hold
  in every order of calls): `Implements10Thm`. In 1.3 a map of TLVs needs no invariant:
  `Implements13Thm`. For the wire, counts stay within 0 to 32 (`Fits`), so that every
  part of the word of wildcards is read where it was written (`WordBits`); a header
  gives back type, mask bit and length (`HeaderBits`), no two TLVs of a match have the
  same type, and what the receiver adds up is what the sender did (`MatchBack`):
  `RoundTripThm`.

Type invariants are conjuncts of the inductive invariants and are proved with
them. That of `Forwarding`, which no run lists, is a theorem of its own,
`TypeCorrectFlows`: the argument about the flows does not need `down`, `cache` and
`inputs` (`RestTypes`), but that the flow cache never has an entry without a port
(`CacheStep`) rests on the shapes of the task lists.

Only model-checked: liveness (`Returns`, forgotten links, a master again, teardown,
silent switches, repaired flows, handshakes, ports, LLDP, ARP), which is out of the
prover's reach. Every invariant and every action property of a passing run is a
theorem.

## 5. Not modelled, and the plan

Not to be modelled: the monitor's e-mails, syslog, configuration, vendored code.
Left out of the modules: in `Transceiver`, the data race on `factory` is a read of
its present value (nil or chosen); in `Forwarding`, the REST handlers that remove
flows, and the time a FLOW_MOD takes to the switch (which `Handshake` has).

In `Northbound`, the list handlers, the probes of Discovery (a host may be found
at any time) and the flows that removeHost removes. In the codecs, everything but
the matches: the other messages copy fields and keep nothing. The application
chain is linked once at start; its dependency check is not modelled.

What could be added: the wire formats of the actions, as those of the matches.
