----------------------------- MODULE Inventory ------------------------------
(***************************************************************************)
(* The database (database/mysql.go, mysql_schema.sql): switches and their  *)
(* ports, networks and their addresses, hosts and virtual IPs.             *)
(*                                                                         *)
(* Every method runs its statements in one transaction, with the rows that *)
(* matter locked, so each is one step: what it does to the tables when it  *)
(* commits, with the triggers, the unique and the foreign keys, and the    *)
(* conditions under which it does.  query re-executes the method when the  *)
(* database reports a deadlock; its user does not notice, unless the       *)
(* method keeps something from one try to the next (module Northbound).    *)
(*                                                                         *)
(* A row of ip is identified by its address, a port by switch and number.  *)
(***************************************************************************)
EXTENDS Naturals, FiniteSets, Functions

CONSTANTS
    Switch,     \* DPIDs
    Port,       \* Port[s]: the ports that s has
    NULL

Ports(S) == UNION {{s} \X Port[s] : s \in S}

VARIABLES
    switch,     \* DPIDs of the rows
    network,    \* rows, [address, mask]
    used,       \* ip: the column `used` of each address
    host,       \* rows, by id: [ip, mac, port]
    vip,        \* rows, by id: [ip, active, standby]
    nextID      \* AUTO_INCREMENT of host and vip

tables == <<switch, network, used, host, vip, nextID>>

-----------------------------------------------------------------------------
(* Queries *)

\* addIPAddrs: "Minus two due to network and broadcast addresses".
Addresses(n) == {n.address + i : i \in 1..(2^(32 - n.mask) - 2)}

\* Network: by the address alone.
NetworkExists(address) == \E n \in network : n.address = address

\* portID
KnownPort(p) == p[1] \in switch

\* Host
HostExists(id) == id \in DOMAIN host

\* Hosts whose row has the port or one of the ports.
HostsAt(P) == {h \in DOMAIN host : host[h].port \in P}

\* The hosts and the virtual IPs that have an address
HostOf(a) == {h \in DOMAIN host : host[h].ip = a}
VIPOf(a) == {v \in DOMAIN vip : vip[v].ip = a}

\* MAC, if the address is known: virtual IPs come first.
MAC(a) ==
    IF VIPOf(a) # {} THEN {host[vip[v].active].mac : v \in VIPOf(a)}
    ELSE {host[h].mac : h \in HostOf(a)}

\* getVIPs, and GetActivatedHosts
getVIPs == {[ip |-> vip[v].ip, active |-> vip[v].active] : v \in DOMAIN vip}
GetActivatedHosts == {[ip |-> host[h].ip, mac |-> host[h].mac] : h \in DOMAIN host}

\* getPortVIPs and getDeviceVIPs: virtual IPs whose active host is at P.
getActiveVIPs(P) == {v \in DOMAIN vip : vip[v].active \in HostsAt(P)}

-----------------------------------------------------------------------------
(* Transactions.  A condition that does not hold is an error. *)

AddSwitch(s) ==
    /\ s \notin switch    \* UNIQUE KEY `dpid`
    /\ switch' = switch \cup {s}
    /\ UNCHANGED <<network, used, host, vip, nextID>>

\* The ports go with the switch, unless a host is at one of them.
RemoveSwitch(s) ==
    /\ s \in switch /\ HostsAt(Ports({s})) = {}
    /\ switch' = switch \ {s}
    /\ UNCHANGED <<network, used, host, vip, nextID>>

\* The network with all its addresses, or nothing: UNIQUE KEY `address` of ip.
AddNetwork(n) ==
    /\ n \notin network
    /\ Addresses(n) \cap DOMAIN used = {}
    /\ network' = network \cup {n}
    /\ used' = [a \in DOMAIN used \cup Addresses(n) |-> a \in DOMAIN used /\ used[a]]
    /\ UNCHANGED <<switch, host, vip, nextID>>

\* The addresses go with the network, unless a host or virtual IP has one.
RemoveNetwork(n) ==
    /\ n \in network
    /\ \A a \in Addresses(n) : HostOf(a) = {} /\ VIPOf(a) = {}
    /\ network' = network \ {n}
    /\ used' = Restrict(used, DOMAIN used \ Addresses(n))
    /\ UNCHANGED <<switch, host, vip, nextID>>

\* Mutant of isAvailableIP: left to the unique keys of host and vip.
isAvailableIP_Known(a) == a \in DOMAIN used

isAvailableIP(a) == a \in DOMAIN used /\ ~used[a]

NewRow(table, row) ==
    [id \in DOMAIN table \cup {nextID} |-> IF id = nextID THEN row ELSE table[id]]

\* AddHost, and the trigger disable_ip
AddHost(a, mac) ==
    /\ isAvailableIP(a)
    /\ HostOf(a) = {}
    /\ host' = NewRow(host, [ip |-> a, mac |-> mac, port |-> NULL])
    /\ used' = [used EXCEPT ![a] = TRUE]
    /\ nextID' = nextID + 1
    /\ UNCHANGED <<switch, network, vip>>

\* RemoveHost, unless a virtual IP has it, and the trigger enable_ip.
\* No row is not an error.
RemovableHost(id) == \A v \in DOMAIN vip : id \notin {vip[v].active, vip[v].standby}
RemoveHost(id) ==
    /\ RemovableHost(id)
    /\ host' = Restrict(host, DOMAIN host \ {id})
    /\ used' = IF id \in DOMAIN host THEN [used EXCEPT ![host[id].ip] = FALSE] ELSE used
    /\ UNCHANGED <<switch, network, vip, nextID>>

\* AddVIP, and the trigger disable_vip
AddVIP(a, active, standby) ==
    /\ isAvailableIP(a)
    /\ VIPOf(a) = {}
    /\ {active, standby} \subseteq DOMAIN host
    /\ vip' = NewRow(vip, [ip |-> a, active |-> active, standby |-> standby])
    /\ used' = [used EXCEPT ![a] = TRUE]
    /\ nextID' = nextID + 1
    /\ UNCHANGED <<switch, network, host>>

\* RemoveVIP, and the trigger enable_vip
RemoveVIP(id) ==
    /\ vip' = Restrict(vip, DOMAIN vip \ {id})
    /\ used' = IF id \in DOMAIN vip THEN [used EXCEPT ![vip[id].ip] = FALSE] ELSE used
    /\ UNCHANGED <<switch, network, host, nextID>>

\* swapVIPHosts for the virtual IPs of S
swapVIPHosts(S) ==
    /\ vip' = [v \in DOMAIN vip |->
                 IF v \in S THEN [vip[v] EXCEPT !.active = vip[v].standby, !.standby = vip[v].active]
                 ELSE vip[v]]
    /\ UNCHANGED <<switch, network, used, host, nextID>>

\* UpdateHostLocation.  The host is looked up by MAC and IP address.
UpdateHostLocation(h, p) ==
    /\ KnownPort(p)
    /\ host' = [host EXCEPT ![h].port = p]
    /\ UNCHANGED <<switch, network, used, vip, nextID>>

\* ResetHostLocationsByPort and ResetHostLocationsByDevice
ResetHostLocations(P) ==
    /\ host' = [h \in DOMAIN host |-> IF h \in HostsAt(P) THEN [host[h] EXCEPT !.port = NULL] ELSE host[h]]
    /\ UNCHANGED <<switch, network, used, vip, nextID>>

-----------------------------------------------------------------------------
(* Properties *)

\* The rows of a table that have an address
Having(rows, a) == {id \in DOMAIN rows : rows[id].ip = a}

\* "already used IP address" (AddHost, AddVIP): an address is marked as used
\* exactly while it belongs to one host or one virtual IP.
UsedOnce(marked, hosts, vips) ==
    \A a \in DOMAIN marked :
        LET owners == Cardinality(Having(hosts, a)) + Cardinality(Having(vips, a))
        IN  owners <= 1 /\ (marked[a] <=> owners = 1)

\* Networks do not overlap, and have all their addresses.
NetworksWhole(networks, marked) ==
    /\ DOMAIN marked = UNION {Addresses(n) : n \in networks}
    /\ \A m, n \in networks : m # n => Addresses(m) \cap Addresses(n) = {}

\* Rows refer to rows that exist, and the two hosts of a virtual IP differ.
Referenced(switches, marked, hosts, vips) ==
    /\ \A h \in DOMAIN hosts :
        hosts[h].ip \in DOMAIN marked /\ (hosts[h].port = NULL \/ hosts[h].port[1] \in switches)
    /\ \A v \in DOMAIN vips :
        /\ vips[v].ip \in DOMAIN marked
        /\ {vips[v].active, vips[v].standby} \subseteq DOMAIN hosts
        /\ vips[v].active # vips[v].standby

WellFormed(switches, networks, marked, hosts, vips) ==
    /\ UsedOnce(marked, hosts, vips)
    /\ NetworksWhole(networks, marked)
    /\ Referenced(switches, marked, hosts, vips)

\* What the REST requests, the applications and the events leave in the
\* database, in any order and with checks that are not in the transaction of
\* what they are for (addNetwork, addSwitch).
Consistent == WellFormed(switch, network, used, host, vip)
=============================================================================
