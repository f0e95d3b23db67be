----------------------------- MODULE Northbound -----------------------------
(***************************************************************************)
(* Who works on the database, and what the network is told about it: the   *)
(* REST handlers (network/controller.go), the VirtualIP, Discovery and     *)
(* ProxyARP applications in the order of the chain (northbound/manager.go, *)
(* northbound/app), and the announcers of the two broadcasters             *)
(* (northbound/util/announcer).                                            *)
(*                                                                         *)
(* A handler is a series of transactions and announcements, and the others *)
(* work between any two of them.  What the network knows is the last ARP   *)
(* packet that it got for an address.  An announcement is lost when a      *)
(* device cannot be written to.                                            *)
(***************************************************************************)
EXTENDS Inventory, Sequences, SequencesExt

CONSTANTS
    Start,       \* contents of the database to start with
    Workers,     \* bound: requests and ARP packets that are served at the same time
    Zero,        \* 00:00:00:00:00:00
    NetworkParam, HostParam, VIPParam,  \* what is asked for
    Known,       \* addresses whose ARP entries are followed
    MaxInputs,   \* bound: requests, ARP packets, events and faults
    MaxRetry     \* bound: maxDeadlockRetry

Worker == 1..Workers

\* The rows of t are numbered from 1 to nextID - 1, and t is well-formed.
ASSUME StartsConsistent ==
    \A t \in Start :
        /\ t.nextID \in Nat \ {0}
        /\ t.used \in [DOMAIN t.used -> BOOLEAN]
        /\ DOMAIN t.host \cup DOMAIN t.vip \subseteq 1..(t.nextID - 1)
        /\ \A h \in DOMAIN t.host :
            /\ DOMAIN t.host[h] = {"ip", "mac", "port"}
            /\ t.host[h].port \in Ports(Switch) \cup {NULL}
        /\ \A v \in DOMAIN t.vip : DOMAIN t.vip[v] = {"ip", "active", "standby"}
        /\ WellFormed(t.switch, t.network, t.used, t.host, t.vip)

VARIABLES
    rest,        \* what each worker does next
    down,        \* what the session of each switch does next about an event
    broadcaster, \* where the two broadcasters are
    resting,     \* entries of the announcers whose delay is not over
    arp,         \* what the network knows, or NULL
    inputs

apps == {"VirtualIP", "ProxyARP"}
vars == <<tables, rest, down, broadcaster, resting, arp, inputs>>

Idle == [step |-> "idle"]

\* An event's handler: the applications left, the ports that are down, the
\* result of the toggle and the tries.  seen, failed and hit are
\* history: the tables after its last transaction, or <<>> once another one has
\* changed them; whether a toggle failed; the virtual IPs it is about.
NoEvent == [left |-> <<>>]

Address(ip, mac) == [ip |-> ip, mac |-> mac]

Init ==
    /\ \E t \in Start :
        /\ switch = t.switch /\ network = t.network /\ used = t.used
        /\ host = t.host /\ vip = t.vip /\ nextID = t.nextID
    /\ rest = [w \in Worker |-> Idle]
    /\ down = [s \in Switch |-> NoEvent]
    /\ broadcaster = [b \in apps |-> [step |-> "idle"]]
    /\ resting = [b \in apps |-> {}]
    /\ arp = [a \in Known |-> NULL]
    /\ inputs = 0

-----------------------------------------------------------------------------
(* Steps that the handlers share *)

Input == inputs < MaxInputs /\ inputs' = inputs + 1

\* The database reports an error, or a device cannot be written to.
Fault == Input

\* SendARPAnnouncement to all devices; an error is logged.
Announce(ip, mac) ==
    \/ arp' = [a \in Known |-> IF a = ip THEN mac ELSE arp[a]] /\ UNCHANGED inputs
    \/ Fault /\ UNCHANGED arp

\* A goroutine serves a new request: the first one that is idle.
Request(w) == rest[w] = Idle /\ (\A v \in 1..(w - 1) : rest[v] # Idle) /\ Input
Then(w, next) == rest' = [rest EXCEPT ![w] = next]
Doing(w, step) == rest[w].step = step

-----------------------------------------------------------------------------
(* The REST handlers.  What cannot be done is answered with an error.      *)

\* addSwitch: "duplicated switch DPID" is asked first.
addSwitch(w, s) ==
    /\ Request(w)
    /\ s \notin switch
    /\ Then(w, [step |-> "AddSwitch", switch |-> s])
    /\ UNCHANGED <<tables, down, broadcaster, resting, arp>>

addSwitch2(w) ==
    /\ Doing(w, "AddSwitch")
    /\ AddSwitch(rest[w].switch)
    /\ Then(w, Idle)
    /\ UNCHANGED <<down, broadcaster, resting, arp, inputs>>

removeSwitch(w, s) ==
    /\ Request(w)
    /\ RemoveSwitch(s)
    /\ UNCHANGED <<rest, down, broadcaster, resting, arp>>

\* addNetwork: "duplicated network address" is asked first.
addNetwork(w, n) ==
    /\ Request(w)
    /\ ~NetworkExists(n.address)
    /\ Then(w, [step |-> "AddNetwork", network |-> n])
    /\ UNCHANGED <<tables, down, broadcaster, resting, arp>>

addNetwork2(w) ==
    /\ Doing(w, "AddNetwork")
    /\ AddNetwork(rest[w].network)
    /\ Then(w, Idle)
    /\ UNCHANGED <<down, broadcaster, resting, arp, inputs>>

removeNetwork(w, n) ==
    /\ Request(w)
    /\ RemoveNetwork(n)
    /\ UNCHANGED <<rest, down, broadcaster, resting, arp>>

\* addHost: AddHost, then Host for what is announced.
addHost(w, ip, mac) ==
    /\ Request(w)
    /\ AddHost(ip, mac)
    /\ Then(w, [step |-> "Host", id |-> nextID, ip |-> ip])
    /\ UNCHANGED <<down, broadcaster, resting, arp>>

\* addVIP: AddVIP, then Host for the active host.  validate has refused
\* "same host for the active and standby".
addVIP(w, ip, active, standby) ==
    /\ Request(w)
    /\ active # standby
    /\ AddVIP(ip, active, standby)
    /\ Then(w, [step |-> "Host", id |-> active, ip |-> ip])
    /\ UNCHANGED <<down, broadcaster, resting, arp>>

\* The host may have vanished.
queryHost(w) ==
    /\ Doing(w, "Host")
    /\ Then(w, IF HostExists(rest[w].id)
               THEN [step |-> "announce", address |-> Address(rest[w].ip, host[rest[w].id].mac)]
               ELSE Idle)
    /\ UNCHANGED <<tables, down, broadcaster, resting, arp, inputs>>

\* removeHost: Host first, RemoveHost then.
removeHost(w, id) ==
    /\ Request(w)
    /\ HostExists(id)
    /\ Then(w, [step |-> "RemoveHost", id |-> id, ip |-> host[id].ip])
    /\ UNCHANGED <<tables, down, broadcaster, resting, arp>>

\* The flows of the host are removed as well (module Forwarding).
removeHost2(w) ==
    /\ Doing(w, "RemoveHost")
    /\ \/ /\ RemoveHost(rest[w].id)
          /\ Then(w, [step |-> "announce", address |-> Address(rest[w].ip, Zero)])
       \/ ~RemovableHost(rest[w].id) /\ Then(w, Idle) /\ UNCHANGED tables
    /\ UNCHANGED <<down, broadcaster, resting, arp, inputs>>

removeVIP(w, id) ==
    /\ Request(w)
    /\ id \in DOMAIN vip
    /\ RemoveVIP(id)
    /\ UNCHANGED <<rest, down, broadcaster, resting, arp>>

\* toggleVIP: the standby host's address is announced.
toggleVIP(w, id) ==
    /\ Request(w)
    /\ id \in DOMAIN vip
    /\ swapVIPHosts({id})
    /\ Then(w, [step |-> "announce", address |-> Address(vip[id].ip, host[vip[id].standby].mac)])
    /\ UNCHANGED <<down, broadcaster, resting, arp>>

\* sendARPAnnouncement, and sendARPReply of ProxyARP
sendARPAnnouncement(w) ==
    /\ Doing(w, "announce")
    /\ Announce(rest[w].address.ip, rest[w].address.mac)
    /\ Then(w, Idle)
    /\ UNCHANGED <<tables, down, broadcaster, resting>>

\* OnPacketIn of ProxyARP: a request for an address that is in the database.
\* Announcements and replies of hosts are dropped.
OnPacketIn(w, ip) ==
    /\ Request(w)
    /\ \E mac \in MAC(ip) : Then(w, [step |-> "announce", address |-> Address(ip, mac)])
    /\ UNCHANGED <<tables, down, broadcaster, resting, arp>>

\* The database fails, or a key that was free a moment ago is taken.
Abort(w) ==
    /\ rest[w] # Idle
    /\ \/ Fault
       \/ /\ \/ Doing(w, "AddSwitch") /\ rest[w].switch \in switch
             \/ /\ Doing(w, "AddNetwork")
                /\ rest[w].network \in network \/ Addresses(rest[w].network) \cap DOMAIN used # {}
          /\ UNCHANGED inputs
    /\ Then(w, Idle)
    /\ UNCHANGED <<tables, down, broadcaster, resting, arp>>

-----------------------------------------------------------------------------
(* OnPortDown and OnDeviceDown, in the session of the switch               *)

\* Mutant of Chain: Discovery first.
Chain_DiscoveryFirst == <<"Discovery", "VirtualIP">>

\* "VirtualIP, Discovery, ..." of cherry.yaml, as Enable links them.
Chain == <<"VirtualIP", "Discovery">>

\* A port of s, or s itself (device), goes down.
Down(s, P, device) ==
    /\ down[s] = NoEvent /\ Input
    /\ down' = [down EXCEPT ![s] =
                  [left |-> Chain, ports |-> P, device |-> device,
                   result |-> <<>>, ready |-> FALSE, tries |-> 0, seen |-> <<host, vip>>,
                   failed |-> FALSE, hit |-> {<<v, vip[v].active>> : v \in getActiveVIPs(P)}]]
    /\ UNCHANGED <<tables, rest, broadcaster, resting, arp>>

Turn(s, app) == down[s].left # <<>> /\ Head(down[s].left) = app

\* Another transaction has changed the tables since the event, or since the
\* last transaction of s.
Raced(s) == down[s].seen # <<host, vip>>
Saw(s, now) == IF Raced(s) THEN <<>> ELSE now

\* The handler of s goes on as e, or ends.
Go(s, e) == down' = [down EXCEPT ![s] = IF e.left = <<>> THEN NoEvent ELSE e]

\* "unknown switch port" is an error; a switch that is not registered is not.
Registered(e) == e.device \/ \A p \in e.ports : KnownPort(p)

\* Mutant of hostMAC: that of the active host.
hostMAC_Active(v) == host[vip[v].active].mac

\* "Get standby's MAC address as the standby host will be active soon!"
hostMAC(v) == host[vip[v].standby].mac

Toggled(S) == {Address(vip[v].ip, hostMAC(v)) : v \in S}

\* broadcastARPAnnouncement is next, or the next application.
Announcing(e) == IF e.result = <<>> THEN [e EXCEPT !.left = Tail(@)] ELSE [e EXCEPT !.ready = TRUE]

\* TogglePortVIP and ToggleDeviceVIP.  A try that ends in a deadlock leaves
\* what it has appended to the result.
Toggle(s) ==
    LET e == down[s]
        S == getActiveVIPs(e.ports)
    IN  /\ Turn(s, "VirtualIP") /\ ~e.ready /\ Registered(e)
        /\ \E new \in SetToSeqs(Toggled(S)) :
            /\ swapVIPHosts(S)
            /\ Go(s, Announcing([e EXCEPT !.result = @ \o new, !.seen = Saw(s, <<host, vip'>>)]))
        /\ UNCHANGED <<rest, broadcaster, resting, arp, inputs>>

ToggleDeadlock(s) ==
    LET e == down[s]
    IN  /\ Turn(s, "VirtualIP") /\ ~e.ready /\ Registered(e)
        /\ e.tries < MaxRetry /\ Fault
        /\ \E S \in SUBSET getActiveVIPs(e.ports) : \E new \in SetToSeqs(Toggled(S)) :
            Go(s, [e EXCEPT !.result = @ \o new, !.tries = @ + 1, !.seen = Saw(s, <<host, vip>>)])
        /\ UNCHANGED <<tables, rest, broadcaster, resting, arp>>

\* The result is nil, and the next application is called.
ToggleFails(s) ==
    /\ Turn(s, "VirtualIP") /\ ~down[s].ready
    /\ Fault \/ (~Registered(down[s]) /\ UNCHANGED inputs)
    /\ Go(s, [down[s] EXCEPT !.left = Tail(@), !.failed = TRUE])
    /\ UNCHANGED <<tables, rest, broadcaster, resting, arp>>

broadcastARPAnnouncement(s) ==
    /\ Turn(s, "VirtualIP") /\ down[s].ready
    /\ LET x == Head(down[s].result)
       IN  Announce(x.ip, x.mac)
    /\ Go(s, Announcing([down[s] EXCEPT !.result = Tail(@)]))
    /\ UNCHANGED <<tables, rest, broadcaster, resting>>

\* OnPortDown and OnDeviceDown of Discovery
Reset(s) ==
    /\ Turn(s, "Discovery")
    /\ \/ Registered(down[s]) /\ ResetHostLocations(down[s].ports) /\ UNCHANGED inputs
       \/ ~Registered(down[s]) /\ UNCHANGED <<tables, inputs>>
       \/ Fault /\ UNCHANGED tables
    /\ Go(s, [down[s] EXCEPT !.left = Tail(@), !.seen = Saw(s, <<host', vip>>)])
    /\ UNCHANGED <<rest, broadcaster, resting, arp>>

\* processARPReply of Discovery: the host is found at p.
Found(h, p) ==
    /\ Input
    /\ UpdateHostLocation(h, p)
    /\ UNCHANGED <<rest, down, broadcaster, resting, arp>>

-----------------------------------------------------------------------------
(* The broadcasters, and their announcers                                  *)

At(b, step) == broadcaster[b].step = step
Move(b, next) == broadcaster' = [broadcaster EXCEPT ![b] = next]
Send(out) == IF out = {} THEN Idle ELSE [step |-> "send", out |-> out]

\* GetActivatedVIPs: getVIPs, then Host for each active host.
Query(left, out) ==
    IF left = {} THEN Send(out) ELSE [step |-> "hosts", left |-> left, out |-> out]

Tick(b) ==
    /\ At(b, "idle")
    /\ Move(b, IF b = "VirtualIP" THEN Query(getVIPs, {})
               ELSE Send({x \in GetActivatedHosts : x.ip \in Known}))
    /\ UNCHANGED <<tables, rest, down, resting, arp, inputs>>

\* One host that has vanished ends this round.
ActiveHost(b) ==
    /\ At(b, "hosts")
    /\ \E v \in broadcaster[b].left :
        Move(b, IF HostExists(v.active)
                THEN Query(broadcaster[b].left \ {v},
                           broadcaster[b].out \cup {Address(v.ip, host[v.active].mac)})
                ELSE Idle)
    /\ UNCHANGED <<tables, rest, down, resting, arp, inputs>>

\* getAnnouncer: that of the address, if it is for the same MAC.
getAnnouncer(b, x) == {y \in resting[b] : y = x}

\* Broadcast: "Do nothing. We need more time.", or announce.  The delay starts
\* anew when no device failed.
Broadcast(b) ==
    /\ At(b, "send")
    /\ \E x \in broadcaster[b].out :
        LET others == {y \in resting[b] : y.ip # x.ip}
        IN  /\ Move(b, Send(broadcaster[b].out \ {x}))
            /\ \/ getAnnouncer(b, x) # {} /\ UNCHANGED <<resting, arp, inputs>>
               \/ /\ getAnnouncer(b, x) = {}
                  /\ arp' = [arp EXCEPT ![x.ip] = x.mac]
                  /\ resting' = [resting EXCEPT ![b] = others \cup {x}]
                  /\ UNCHANGED inputs
               \/ /\ getAnnouncer(b, x) = {} /\ Fault
                  /\ resting' = [resting EXCEPT ![b] = others]
                  /\ UNCHANGED arp
    /\ UNCHANGED <<tables, rest, down>>

\* Mutant of Rested: the delay doubles without end.
Rested_Never(b, ip) == FALSE /\ UNCHANGED vars

\* calculateDelay: up to an hour has passed.
Rested(b, ip) ==
    /\ \E x \in resting[b] : x.ip = ip
    /\ resting' = [resting EXCEPT ![b] = {x \in @ : x.ip # ip}]
    /\ UNCHANGED <<tables, rest, down, broadcaster, arp, inputs>>

Broadcasting(b) == Tick(b) \/ ActiveHost(b) \/ Broadcast(b)

-----------------------------------------------------------------------------
Work(w) ==
    \/ \E s \in Switch : addSwitch(w, s) \/ removeSwitch(w, s)
    \/ \E n \in NetworkParam : addNetwork(w, n) \/ removeNetwork(w, n)
    \/ \E p \in HostParam : addHost(w, p[1], p[2])
    \/ \E p \in VIPParam : \E h, k \in DOMAIN host : addVIP(w, p, h, k)
    \/ \E h \in DOMAIN host : removeHost(w, h)
    \/ \E v \in DOMAIN vip : removeVIP(w, v) \/ toggleVIP(w, v)
    \/ \E ip \in Known : OnPacketIn(w, ip)
    \/ addSwitch2(w) \/ addNetwork2(w) \/ queryHost(w) \/ removeHost2(w)
    \/ sendARPAnnouncement(w) \/ Abort(w)

Event(s) ==
    \/ Down(s, Ports({s}), TRUE) \/ \E p \in Ports({s}) : Down(s, {p}, FALSE)
    \/ Toggle(s) \/ ToggleDeadlock(s) \/ ToggleFails(s)
    \/ broadcastARPAnnouncement(s) \/ Reset(s)

Next ==
    \/ \E w \in Worker : Work(w)
    \/ \E s \in Switch : Event(s)
    \/ \E h \in DOMAIN host, p \in Ports(Switch) : Found(h, p)
    \/ \E b \in apps : Broadcasting(b)
    \/ \E b \in apps, ip \in Known : Rested(b, ip)

\* The broadcasters are ticker loops, and time passes.  Requests and events
\* may be handled at any time or be stuck.
Spec ==
    /\ Init /\ [][Next]_vars
    /\ \A b \in apps : WF_vars(Broadcasting(b))
    /\ \A b \in apps, ip \in Known : WF_vars(Rested(b, ip))

-----------------------------------------------------------------------------
(* Properties *)

\* "This VirtualIP module should be executed before the Discovery module"
\* (virtualip.go): when the applications have handled a port or a device that
\* went down, the virtual IPs that were active there are not, unless a
\* transaction failed or another one changed the hosts meanwhile.
FailedOver ==
    [][\A s \in Switch :
        down[s] # NoEvent /\ down'[s] = NoEvent =>
            \A x \in down[s].hit :
                \/ x[1] \in DOMAIN vip' => vip'[x[1]].active # x[2]
                \/ down[s].failed \/ Raced(s)]_vars

\* What the toggle of an event tells the network is what it has committed,
\* although result still has what was rolled back: for each address the last
\* announcement counts.  Only if it was retried and the tables changed
\* between the tries may it be wrong (TogglePortVIP, ToggleDeviceVIP).
ToggleAnnounced ==
    [][\A s \in Switch :
        down[s] # NoEvent /\ down'[s] # NoEvent /\ ~down[s].ready /\ down'[s].ready =>
            LET r == down'[s].result
            IN  \A i \in DOMAIN r :
                    \/ \E j \in DOMAIN r : j > i /\ r[j].ip = r[i].ip
                    \/ \E ip \in DOMAIN used : r[i].ip = ip /\ r[i].mac \in MAC(ip)'
                    \/ down[s].tries > 0 /\ Raced(s)]_vars

\* "Sends ARP announcement to all hosts to update their ARP caches"
\* (controller.go), although announcements overtake each other, are lost or
\* tell what is no longer so, and the broadcasters back off: in the end the
\* network knows the address of every host and virtual IP.
ArpConverges ==
    <>[](\A ip \in Known : MAC(ip) # {} => arp[ip] \in MAC(ip))
=============================================================================
