----------------------------- MODULE Forwarding -----------------------------
(***************************************************************************)
(* How the flows of the switches follow a host: the L2Switch application   *)
(* (northbound/app/l2switch/switch.go), the location updates of the        *)
(* Discovery application, the flow operations of network/device.go and its *)
(* flow cache, and the events of the topology that connect them.           *)
(*                                                                         *)
(* Flows are per destination address, and so is all the state here: the    *)
(* module follows one host.  Device is the set of Device objects; a switch *)
(* that connects again is another object.                                  *)
(*                                                                         *)
(* Every goroutine (one per session, the timer of the stale links, and the *)
(* flow manager) decides on what it reads and then works through a list of *)
(* tasks, one critical section at a time, while the others change what it  *)
(* has read.                                                               *)
(***************************************************************************)
EXTENDS Naturals, Sequences, FiniteSets

CONSTANTS
    Device, Port,
    HostEnd,    \* ends <<device, port>> where the host may be plugged in
    Link,       \* possible links, each the set of its two ends <<device, port>>
    Hop,        \* Hop[links][d, e]: port of d on the tree's path to e, or NoPort
    NoPort, Unknown,
    MaxInputs,  \* bound: events and packets
    MaxBusy     \* bound: goroutines that are at work at the same time

End == Device \X Port
Thread == Device \cup {"timer", "manager"}

ASSUME Network ==
    /\ HostEnd \subseteq End /\ Link \subseteq SUBSET End
    /\ Hop \in [SUBSET Link -> [Device \X Device -> Port \cup {NoPort}]]
    /\ \A ls \in SUBSET Link : \A d, e \in Device :   \* FindPath goes over the edges
          Hop[ls][d, e] # NoPort => <<d, Hop[ls][d, e]>> \in UNION ls
    /\ NoPort \notin Port /\ Unknown \notin End
    /\ {"timer", "manager"} \cap Device = {}
    /\ MaxInputs \in Nat /\ MaxBusy \in Nat

VARIABLES
    loc,     \* location of the host in the database, or Unknown (NULL)
    links,   \* edges of the graph
    devices, \* topology.devices
    conn,    \* "new", "up", "broken" (writes fail) or "closed" (Device.closed)
    down,    \* ports that are down
    table,   \* output port of the host's flow in each switch, or NoPort
    cache,   \* ports of the host's unexpired entries in each flowCache
    todo,    \* tasks of each goroutine
    stale,   \* history: the flow was decided on what had changed when it was set
    inputs   \* events and packets so far

flowVars == <<table, cache, stale>>
topoVars == <<links, devices>>
vars == <<loc, topoVars, conn, down, flowVars, todo, inputs>>

\* A task is done for each of devs, in any order; a task that is not listed
\* takes the devices from Devices() when it starts.
Op == {"reset", "all", "removeFlows", "byMAC", "byPort", "modify", "set",
       "locate", "resetPort", "portRemoved", "resetDevice", "deviceRemoved"}
Task == [op : Op, listed : BOOLEAN, devs : SUBSET Device,
         at : End \cup {Unknown}, port : Port \cup {NoPort}]

\* A task for all devices that the topology will list, and one for d.
All(op, at) == [op |-> op, listed |-> FALSE, devs |-> {}, at |-> at, port |-> NoPort]
One(op, d, p) == [op |-> op, listed |-> TRUE, devs |-> {d}, at |-> Unknown, port |-> p]

\* sendEvent: OnTopologyChange of Discovery, then of L2Switch.
sendEvent == <<All("reset", Unknown), All("all", Unknown)>>

\* Some devices have connected, and some links are known.
Init ==
    /\ loc \in HostEnd \cup {Unknown}
    /\ devices \in SUBSET Device
    /\ links \in SUBSET {l \in Link : \A e \in l : e[1] \in devices}
    /\ conn = [d \in Device |-> IF d \in devices THEN "up" ELSE "new"]
    /\ down = {}
    /\ table = [d \in Device |-> NoPort] /\ cache = [d \in Device |-> {}]
    /\ stale = [d \in Device |-> FALSE]
    /\ todo = [t \in Thread |-> <<>>]
    /\ inputs = 0

-----------------------------------------------------------------------------
(* What the finder answers *)

Edges == UNION links   \* IsEdge

Path(d, e) == IF {d, e} \subseteq devices THEN Hop[links][d, e] ELSE NoPort

\* Port of d for a host at l.
Egress(d, l) == IF l[1] = d THEN l[2] ELSE Path(d, l[1])

\* Location of the database: LocationDiscovered
Location == loc # Unknown

\* Node: the location is known, on a known device.
Located == Location /\ loc[1] \in devices

Route(d) == IF Located THEN Egress(d, loc) ELSE NoPort

-----------------------------------------------------------------------------
(* What starts a goroutine's work *)

Idle(t) == todo[t] = <<>> /\ Cardinality({u \in Thread : todo[u] # <<>>}) < MaxBusy
Serves(d) == Idle(d) /\ d \in devices /\ conn[d] \in {"up", "broken"}
Input == inputs < MaxInputs /\ inputs' = inputs + 1

\* DeviceAdded of a new session, whose switch has been cleared of flows.
DeviceAdded(d) ==
    /\ Idle(d) /\ conn[d] = "new" /\ Input
    /\ conn' = [conn EXCEPT ![d] = "up"]
    /\ devices' = devices \cup {d}
    /\ todo' = [todo EXCEPT ![d] = sendEvent]
    /\ UNCHANGED <<loc, links, down, flowVars>>

\* DeviceLinked: LLDP shows a link at d.
DeviceLinked(d, l) ==
    /\ Serves(d) /\ Input
    /\ l \notin links /\ \A e \in l : e[1] \in devices
    /\ \E e \in l : e[1] = d
    /\ links' = links \cup {l}
    /\ todo' = [todo EXCEPT ![d] = sendEvent]
    /\ UNCHANGED <<loc, devices, conn, down, flowVars>>

\* staleEdgeRemover
LinksExpire(S) ==
    /\ Idle("timer") /\ Input
    /\ S \subseteq links /\ S # {}
    /\ links' = links \ S
    /\ todo' = [todo EXCEPT !["timer"] = sendEvent]
    /\ UNCHANGED <<loc, devices, conn, down, flowVars>>

\* OnPortDown of Discovery, then of L2Switch.
OnPortDown(d, p) == <<One("resetPort", d, p), One("byPort", d, p)>>

\* OnPortStatus: the applications' OnPortDown, then PortRemoved.
PortDown(d, p) ==
    /\ Serves(d) /\ Input
    /\ <<d, p>> \notin down
    /\ down' = down \cup {<<d, p>>}
    /\ todo' = [todo EXCEPT ![d] = OnPortDown(d, p) \o <<One("portRemoved", d, p)>>]
    /\ UNCHANGED <<loc, topoVars, conn, flowVars>>

PortUp(d, p) ==
    /\ Serves(d) /\ Input
    /\ <<d, p>> \in down
    /\ down' = down \ {<<d, p>>}
    /\ UNCHANGED <<loc, topoVars, conn, flowVars, todo>>

\* processARPReply: the host answered a probe at port p, which is not an edge
\* at this moment.
processARPReply(d, p) ==
    /\ Serves(d) /\ Input
    /\ <<d, p>> \in HostEnd /\ <<d, p>> \notin Edges
    /\ todo' = [todo EXCEPT ![d] = <<One("locate", d, p)>>]
    /\ UNCHANGED <<loc, topoVars, conn, down, flowVars>>

\* The connection of a device breaks; its session finds out later.
Break(d) ==
    /\ conn[d] = "up" /\ Input
    /\ conn' = [conn EXCEPT ![d] = "broken"]
    /\ UNCHANGED <<loc, topoVars, down, flowVars, todo>>

\* session.Run ends: Close, OnDeviceDown, DeviceRemoved.
Disconnect(d) ==
    /\ Serves(d) /\ conn[d] = "broken"
    /\ conn' = [conn EXCEPT ![d] = "closed"]
    /\ todo' = [todo EXCEPT ![d] = <<One("resetDevice", d, NoPort), One("deviceRemoved", d, NoPort)>>]
    /\ UNCHANGED <<loc, topoVars, down, flowVars, inputs>>

\* processPacket: a packet for the host comes in at d.
processPacket(d) ==
    /\ Serves(d) /\ Input
    /\ Located /\ loc \notin down
    /\ todo' = [todo EXCEPT ![d] = <<[One("modify", d, NoPort) EXCEPT !.at = loc]>>]
    /\ UNCHANGED <<loc, topoVars, conn, down, flowVars>>

\* flowManager: every 35 seconds.
modifyFlows ==
    /\ Idle("manager") /\ Located /\ loc \notin down
    /\ todo' = [todo EXCEPT !["manager"] = <<All("modify", loc)>>]
    /\ UNCHANGED <<loc, topoVars, conn, down, flowVars, inputs>>

-----------------------------------------------------------------------------
(* The tasks.  Doing(t, op, d): t does op for d next.                      *)

\* Devices that are left: finder.Devices() when the task starts.
Left(t) == IF Head(todo[t]).listed THEN Head(todo[t]).devs ELSE devices

Doing(t, op, d) ==
    /\ todo[t] # <<>>
    /\ Head(todo[t]).op = op /\ d \in Left(t)

PortOf(t) == Head(todo[t]).port

\* The tasks of t when the first is done for d.
After(t, d) ==
    LET rest == Left(t) \ {d}
    IN  IF rest = {} THEN Tail(todo[t])
        ELSE <<[Head(todo[t]) EXCEPT !.listed = TRUE, !.devs = rest]>> \o Tail(todo[t])

Go(t, tasks) == todo' = [todo EXCEPT ![t] = tasks]

\* There is no device.
NoDevices(t) ==
    /\ todo[t] # <<>> /\ Left(t) = {}
    /\ Go(t, Tail(todo[t]))
    /\ UNCHANGED <<loc, topoVars, conn, down, flowVars, inputs>>

\* modifyFlows and processPacket: the way from d.  A packet is dropped if it
\* came in from another device at the port where it would leave.
Choose(t, d) ==
    /\ Doing(t, "modify", d)
    /\ LET at == Head(todo[t]).at
           p  == Egress(d, at)
       IN  \/ (p = NoPort \/ (t = d /\ at[1] # d)) /\ Go(t, After(t, d))
           \/ p # NoPort /\ Go(t, <<One("set", d, p)>> \o After(t, d))
    /\ UNCHANGED <<loc, topoVars, conn, down, flowVars, inputs>>

\* flowCache.  The key has the bytes of the match: OpenFlow 1.3 marshals the
\* fields in any order, so an entry may be missed.
InProgress(d, p) == {(p \in cache[d]), FALSE}
Add(d, p) == cache' = [cache EXCEPT ![d] = @ \cup {p}]
RemoveAll(d) == cache' = [cache EXCEPT ![d] = {}]

\* SetFlow: skipped while the cache has it; fails on a closed device.
SetFlow(t, d) ==
    /\ Doing(t, "set", d)
    /\ Go(t, After(t, d))
    /\ \E inProgress \in InProgress(d, PortOf(t)) :
        IF conn[d] = "up" /\ ~inProgress
        THEN /\ table' = [table EXCEPT ![d] = PortOf(t)]
             /\ Add(d, PortOf(t))
             /\ stale' = [stale EXCEPT ![d] = PortOf(t) # Route(d)]
        ELSE UNCHANGED flowVars
    /\ UNCHANGED <<loc, topoVars, conn, down, inputs>>

\* The switch drops the host's flow.
Clear(d) ==
    /\ table' = [table EXCEPT ![d] = NoPort]
    /\ stale' = [stale EXCEPT ![d] = FALSE]

\* UpdateHostLocation of processARPReply.  If the location has changed, the
\* host's flows are removed from all devices; an error ends the handler.
UpdateHostLocation(t, d) ==
    /\ Doing(t, "locate", d)
    /\ \/ loc' = <<d, PortOf(t)>> /\ Go(t, IF loc # loc' THEN <<All("byMAC", Unknown)>> ELSE <<>>)
       \/ UNCHANGED loc /\ Go(t, <<>>)
    /\ UNCHANGED <<topoVars, conn, down, flowVars, inputs>>

\* RemoveFlowByMAC; errors are logged.
RemoveFlowByMAC(t, d) ==
    /\ Doing(t, "byMAC", d)
    /\ Go(t, After(t, d))
    /\ IF conn[d] = "up" THEN Clear(d) ELSE UNCHANGED <<table, stale>>
    /\ UNCHANGED <<loc, topoVars, conn, down, cache, inputs>>

\* OnPortDown of L2Switch, RemoveFlow: the flows that lead to the port.
RemoveFlow(t, d) ==
    /\ Doing(t, "byPort", d)
    /\ Go(t, After(t, d))
    /\ IF conn[d] = "up" /\ table[d] = PortOf(t) THEN Clear(d) ELSE UNCHANGED <<table, stale>>
    /\ UNCHANGED <<loc, topoVars, conn, down, cache, inputs>>

\* removeAllFlows: closed devices are passed over.
removeAllFlows(t, d) ==
    /\ Doing(t, "all", d)
    /\ Go(t, IF conn[d] = "closed" THEN After(t, d)
             ELSE <<One("removeFlows", d, NoPort)>> \o After(t, d))
    /\ UNCHANGED <<loc, topoVars, conn, down, flowVars, inputs>>

\* RemoveFlows; removeAllFlows gives up at the first error.
RemoveFlows(t, d) ==
    /\ Doing(t, "removeFlows", d)
    /\ IF conn[d] = "up"
       THEN Go(t, After(t, d)) /\ Clear(d) /\ RemoveAll(d)
       ELSE Go(t, <<>>) /\ UNCHANGED flowVars
    /\ UNCHANGED <<loc, topoVars, conn, down, inputs>>

\* ResetHostLocations: the host's location becomes NULL if it is in S.
Reset(S) == loc' = IF loc \in S THEN Unknown ELSE loc

\* OnTopologyChange of Discovery: edges have no hosts.  Errors are logged.
ResetEdges(t, d) ==
    /\ Doing(t, "reset", d)
    /\ Go(t, After(t, d))
    /\ Reset(Edges \cap ({d} \X Port)) \/ UNCHANGED loc
    /\ UNCHANGED <<topoVars, conn, down, flowVars, inputs>>

\* OnPortDown of Discovery: an error keeps L2Switch from being called.
ResetPort(t, d) ==
    /\ Doing(t, "resetPort", d)
    /\ \/ Reset({<<d, PortOf(t)>>}) /\ Go(t, Tail(todo[t]))
       \/ UNCHANGED loc /\ Go(t, Tail(Tail(todo[t])))
    /\ UNCHANGED <<topoVars, conn, down, flowVars, inputs>>

\* PortRemoved
PortRemoved(t, d) ==
    /\ Doing(t, "portRemoved", d)
    /\ links' = {l \in links : <<d, PortOf(t)>> \notin l}
    /\ Go(t, IF <<d, PortOf(t)>> \in Edges THEN sendEvent ELSE <<>>)
    /\ UNCHANGED <<loc, devices, conn, down, flowVars, inputs>>

\* OnDeviceDown of Discovery; DeviceRemoved follows in any case.
ResetDevice(t, d) ==
    /\ Doing(t, "resetDevice", d)
    /\ Reset({d} \X Port) \/ UNCHANGED loc
    /\ Go(t, Tail(todo[t]))
    /\ UNCHANGED <<topoVars, conn, down, flowVars, inputs>>

\* Mutant of DeviceRemoved: the applications are not told.
DeviceRemoved_Silent(t, d) ==
    /\ Doing(t, "deviceRemoved", d)
    /\ devices' = devices \ {d}
    /\ links' = {l \in links : \A e \in l : e[1] # d}
    /\ Go(t, <<>>)
    /\ UNCHANGED <<loc, conn, down, flowVars, inputs>>

DeviceRemoved(t, d) ==
    /\ Doing(t, "deviceRemoved", d)
    /\ devices' = devices \ {d}
    /\ links' = {l \in links : \A e \in l : e[1] # d}
    /\ Go(t, sendEvent)
    /\ UNCHANGED <<loc, conn, down, flowVars, inputs>>

Work(t) ==
    \/ NoDevices(t)
    \/ \E d \in Device :
        \/ Choose(t, d) \/ SetFlow(t, d)
        \/ UpdateHostLocation(t, d) \/ RemoveFlowByMAC(t, d) \/ RemoveFlow(t, d)
        \/ removeAllFlows(t, d) \/ RemoveFlows(t, d)
        \/ ResetEdges(t, d) \/ ResetPort(t, d) \/ PortRemoved(t, d)
        \/ ResetDevice(t, d) \/ DeviceRemoved(t, d)

-----------------------------------------------------------------------------
\* Mutant of Expire: entries stay for ever.
Expire_Never(d, p) == FALSE /\ UNCHANGED vars

\* An entry of the cache is too old, or evicted by those of other hosts.
Expire(d, p) ==
    /\ conn[d] = "up" /\ p \in cache[d]
    /\ cache' = [cache EXCEPT ![d] = @ \ {p}]
    /\ UNCHANGED <<loc, topoVars, conn, down, table, stale, todo, inputs>>

Next ==
    \/ \E d \in Device : DeviceAdded(d) \/ Break(d) \/ Disconnect(d) \/ processPacket(d)
    \/ \E d \in Device, l \in Link : DeviceLinked(d, l)
    \/ \E S \in SUBSET Link : LinksExpire(S)
    \/ \E d \in Device, p \in Port :
        \/ PortDown(d, p) \/ PortUp(d, p) \/ processARPReply(d, p)
        \/ Expire(d, p)
    \/ modifyFlows
    \/ \E t \in Thread : Work(t)

\* Goroutines are scheduled, the flow manager's ticker ticks (and finds the
\* database), and time passes.
Spec ==
    /\ Init /\ [][Next]_vars
    /\ WF_vars(modifyFlows) /\ WF_vars(Work("manager"))
    /\ WF_vars(\E t \in Thread \ {"manager"} : Work(t))
    /\ \A d \in Device : WF_vars(\E p \in Port : Expire(d, p))

-----------------------------------------------------------------------------
(* Properties *)

TypeOK ==
    /\ loc \in End \cup {Unknown}
    /\ links \subseteq Link /\ devices \subseteq Device
    /\ conn \in [Device -> {"new", "up", "broken", "closed"}]
    /\ down \subseteq End
    /\ table \in [Device -> Port \cup {NoPort}]
    /\ cache \in [Device -> SUBSET Port]
    /\ stale \in [Device -> BOOLEAN]
    /\ todo \in [Thread -> Seq(Task)]
    /\ inputs \in 0..MaxInputs

\* Some goroutine has yet to remove the host's flow from d.
RemovalDue(d) ==
    \E t \in Thread : \E i \in 1..Len(todo[t]) :
        LET k == todo[t][i]
        IN  \/ k.op \in {"byMAC", "all", "removeFlows"} /\ (~k.listed \/ d \in k.devs)
            \/ k.op = "byPort" /\ d \in k.devs /\ k.port = table[d]

\* A device is about to be removed, which will clear the others.
RemovalAhead == \E e \in devices : conn[e] \in {"broken", "closed"}

\* The flow of d is on the host's route or, while the location of the host is
\* not known, still leads somewhere.
Justified(d) ==
    \/ table[d] = NoPort
    \/ Located /\ table[d] = Route(d)
    \/ ~Located /\ <<d, table[d]>> \in Edges \cup {loc}

\* "We should remove all edges from all switch devices when the network
\* topology is changed" (switch.go), and the flows of a host that moved: a flow
\* that contradicts the present route of the host is about to be removed,
\* also when removeAllFlows gives up half-way, unless it was set by a
\* goroutine that had decided before the change.
WrongFlowExplained ==
    \A d \in devices :
        conn[d] = "up" => Justified(d) \/ stale[d] \/ RemovalDue(d) \/ RemovalAhead

\* The flow manager repairs what those goroutines left: when the network is
\* quiet, the flow of a reachable host is right on every switch or absent,
\* in spite of the flow cache.
Repaired ==
    <>[](\A d \in devices :
            conn[d] = "up" /\ Located /\ loc \notin down /\ Route(d) # NoPort
                => table[d] \in {NoPort, Route(d)})
=============================================================================
