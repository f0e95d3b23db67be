------------------------- MODULE Northbound_proofs --------------------------
(***************************************************************************)
(* Proofs about the database and its users, for any number of switches,    *)
(* requests and events, and any well-formed contents to start with.        *)
(***************************************************************************)
EXTENDS Northbound, FiniteSetTheorems, SequenceTheorems, TLAPS

-----------------------------------------------------------------------------
(* The tables *)

IsHost(r) == DOMAIN r = {"ip", "mac", "port"}
IsVIP(r) == DOMAIN r = {"ip", "active", "standby"}

TypeInv ==
    /\ nextID \in Nat \ {0}
    /\ used \in [DOMAIN used -> BOOLEAN]
    /\ DOMAIN host \cup DOMAIN vip \subseteq 1..(nextID - 1)
    /\ \A h \in DOMAIN host : IsHost(host[h]) /\ host[h].port \in Ports(Switch) \cup {NULL}
    /\ \A v \in DOMAIN vip : IsVIP(vip[v])

\* UsedOnce without counting: the addresses are a key of host and vip
\* together, and the column `used` is redundant.
IpIsKey ==
    /\ \A h, k \in DOMAIN host : host[h].ip = host[k].ip => h = k
    /\ \A v, w \in DOMAIN vip : vip[v].ip = vip[w].ip => v = w
    /\ \A h \in DOMAIN host, v \in DOMAIN vip : host[h].ip # vip[v].ip

UsedIsRedundant ==
    \A a \in DOMAIN used :
        used[a] <=> \/ \E h \in DOMAIN host : host[h].ip = a
                    \/ \E v \in DOMAIN vip : vip[v].ip = a

TablesInv ==
    /\ TypeInv
    /\ IpIsKey
    /\ UsedIsRedundant
    /\ NetworksWhole(network, used)
    /\ Referenced(switch, used, host, vip)

\* At most one of two finite sets has an element, and only one.
LEMMA AtMostOne ==
    ASSUME NEW H, NEW V, IsFiniteSet(H), IsFiniteSet(V)
    PROVE  LET n == Cardinality(H) + Cardinality(V)
           IN  /\ n <= 1 <=> /\ \A h, k \in H : h = k
                             /\ \A v, w \in V : v = w
                             /\ H = {} \/ V = {}
               /\ n <= 1 => (n = 1 <=> H # {} \/ V # {})
<1>1. /\ Cardinality(H) \in Nat /\ Cardinality(V) \in Nat
      /\ Cardinality(H) = 0 <=> H = {}
      /\ Cardinality(V) = 0 <=> V = {}
      /\ Cardinality(H) = 1 <=> \E x : H = {x}
      /\ Cardinality(V) = 1 <=> \E x : V = {x}
  BY FS_CardinalityType, FS_EmptySet, FS_Singleton
<1>2. (\A h, k \in H : h = k) <=> H = {} \/ \E x : H = {x}
  OBVIOUS
<1>3. (\A v, w \in V : v = w) <=> V = {} \/ \E x : V = {x}
  OBVIOUS
<1>4. ~(H = {} /\ \E x : H = {x}) /\ ~(V = {} /\ \E x : V = {x})
  OBVIOUS
<1> QED
  <2> DEFINE h == Cardinality(H)
             v == Cardinality(V)
             H1 == \E x : H = {x}
             V1 == \E x : V = {x}
  <2> HIDE DEF h, v, H1, V1
  <2>1. h \in Nat /\ v \in Nat
    BY <1>1 DEF h, v
  <2>2. (h = 0 <=> H = {}) /\ (v = 0 <=> V = {}) /\ (h = 1 <=> H1) /\ (v = 1 <=> V1)
    BY <1>1 DEF h, v, H1, V1
  <2>3. /\ h + v <= 1 <=> (h = 0 /\ v = 0) \/ (h = 1 /\ v = 0) \/ (h = 0 /\ v = 1)
        /\ h + v <= 1 => (h + v = 1 <=> h # 0 \/ v # 0)
    BY <2>1
  <2> QED BY <2>2, <2>3, <1>2, <1>3 DEF h, v, H1, V1

\* The two forms of "already used IP address" say the same.
LEMMA UsedOnceIsKey ==
    ASSUME TypeInv, Referenced(switch, used, host, vip)
    PROVE  UsedOnce(used, host, vip) <=> IpIsKey /\ UsedIsRedundant
<1>1. ASSUME NEW a PROVE IsFiniteSet(Having(host, a)) /\ IsFiniteSet(Having(vip, a))
  <2>1. IsFiniteSet(1..(nextID - 1))
    BY FS_Interval DEF TypeInv
  <2>2. Having(host, a) \in SUBSET (1..(nextID - 1)) /\ Having(vip, a) \in SUBSET (1..(nextID - 1))
    BY DEF TypeInv, Having
  <2> QED BY <2>1, <2>2, FS_Subset
<1> DEFINE Owners(a) == Cardinality(Having(host, a)) + Cardinality(Having(vip, a))
           Single(a) == /\ \A h, k \in Having(host, a) : h = k
                        /\ \A v, w \in Having(vip, a) : v = w
                        /\ Having(host, a) = {} \/ Having(vip, a) = {}
           Owned(a) == Having(host, a) # {} \/ Having(vip, a) # {}
<1>2. ASSUME NEW a PROVE (Owners(a) <= 1 <=> Single(a)) /\ (Owners(a) <= 1 => (Owners(a) = 1 <=> Owned(a)))
  BY <1>1, AtMostOne
<1>3. UsedOnce(used, host, vip) <=> \A a \in DOMAIN used : Owners(a) <= 1 /\ (used[a] <=> Owners(a) = 1)
  BY DEF UsedOnce
<1> HIDE DEF Owners
<1>4. UsedOnce(used, host, vip) <=> \A a \in DOMAIN used : Single(a) /\ (used[a] <=> Owned(a))
  BY <1>2, <1>3
<1>5. (\A a \in DOMAIN used : Single(a)) <=> IpIsKey
  BY DEF Having, IpIsKey, Referenced
<1>6. (\A a \in DOMAIN used : used[a] <=> Owned(a)) <=> UsedIsRedundant
  BY DEF Having, UsedIsRedundant
<1> QED BY <1>4, <1>5, <1>6

LEMMA TablesConsistent == TablesInv => Consistent
BY UsedOnceIsKey DEF TablesInv, Consistent, WellFormed

LEMMA TablesInit == Init => TablesInv
<1> SUFFICES ASSUME Init PROVE TablesInv
  OBVIOUS
<1>1. TypeInv /\ WellFormed(switch, network, used, host, vip)
  BY StartsConsistent DEF Init, TypeInv, IsHost, IsVIP
<1> QED BY <1>1, UsedOnceIsKey DEF TablesInv, WellFormed

-----------------------------------------------------------------------------
(* The transactions.  Each keeps the tables well-formed. *)

LEMMA AddSwitchKeeps ==
    ASSUME TablesInv, NEW s, AddSwitch(s)
    PROVE  TablesInv'
BY DEF AddSwitch, TablesInv, TypeInv, IpIsKey, UsedIsRedundant, NetworksWhole, Referenced

\* The port of a host is a port of the switch that is removed, or the row of
\* its switch stays.
LEMMA RemoveSwitchKeeps ==
    ASSUME TablesInv, NEW s, RemoveSwitch(s)
    PROVE  TablesInv'
<1>1. ASSUME NEW h \in DOMAIN host, host[h].port # NULL PROVE host[h].port[1] # s
  <2>1. PICK r \in Switch : host[h].port \in {r} \X Port[r]
    BY <1>1 DEF TablesInv, TypeInv, Ports
  <2>2. host[h].port[1] = r
    BY <2>1
  <2>3. host[h].port \notin Ports({s})
    BY DEF RemoveSwitch, HostsAt
  <2> QED BY <2>1, <2>2, <2>3 DEF Ports
<1> QED
  BY <1>1 DEF RemoveSwitch, TablesInv, TypeInv, IpIsKey, UsedIsRedundant, NetworksWhole, Referenced

LEMMA AddNetworkKeeps ==
    ASSUME TablesInv, NEW n, AddNetwork(n)
    PROVE  TablesInv'
<1>1. /\ DOMAIN used' = DOMAIN used \cup Addresses(n)
      /\ \A a \in DOMAIN used' : used'[a] = (a \in DOMAIN used /\ used[a])
      /\ UNCHANGED <<switch, host, vip, nextID>>
  BY DEF AddNetwork
<1>2. TypeInv'
  BY DEF AddNetwork, TablesInv, TypeInv
<1>3. IpIsKey'
  BY <1>1 DEF TablesInv, IpIsKey
<1>4. Referenced(switch, used, host, vip)'
  BY <1>1 DEF TablesInv, Referenced
<1>5. UsedIsRedundant'
  BY <1>1 DEF TablesInv, UsedIsRedundant, Referenced
<1>6. NetworksWhole(network, used)'
  <2> USE DEF AddNetwork, TablesInv, NetworksWhole
  <2>1. DOMAIN used' = UNION {Addresses(m) : m \in network'}
    BY <1>1
  <2>2. ASSUME NEW m \in network PROVE Addresses(m) \cap Addresses(n) = {}
    OBVIOUS
  <2> QED BY <2>1, <2>2
<1> QED BY <1>2, <1>3, <1>4, <1>5, <1>6 DEF TablesInv

\* The addresses that go are those of no other network, and of no row.
LEMMA RemoveNetworkKeeps ==
    ASSUME TablesInv, NEW n, RemoveNetwork(n)
    PROVE  TablesInv'
<1>1. /\ DOMAIN used' = DOMAIN used \ Addresses(n)
      /\ \A a \in DOMAIN used' : used'[a] = used[a]
      /\ UNCHANGED <<switch, host, vip, nextID>>
  BY DEF RemoveNetwork, Restrict
<1>2. TypeInv'
  BY <1>1 DEF RemoveNetwork, TablesInv, TypeInv, Restrict
<1>3. IpIsKey'
  BY <1>1 DEF TablesInv, IpIsKey
<1>4. Referenced(switch, used, host, vip)'
  BY <1>1 DEF TablesInv, Referenced, RemoveNetwork, HostOf, VIPOf
<1>5. UsedIsRedundant'
  BY <1>1 DEF TablesInv, UsedIsRedundant
<1>6. NetworksWhole(network, used)'
  BY <1>1, SMTT(30) DEF RemoveNetwork, TablesInv, NetworksWhole
<1> QED BY <1>2, <1>3, <1>4, <1>5, <1>6 DEF TablesInv

\* nextID is the number of no row.
LEMMA AddHostKeeps ==
    ASSUME TablesInv, NEW a, NEW mac, AddHost(a, mac)
    PROVE  TablesInv'
<1> USE DEF TablesInv
<1>1. nextID \notin DOMAIN host
  BY DEF TypeInv
<1>2. /\ DOMAIN host' = DOMAIN host \cup {nextID}
      /\ host'[nextID] = [ip |-> a, mac |-> mac, port |-> NULL]
      /\ \A h \in DOMAIN host : host'[h] = host[h]
  BY <1>1 DEF AddHost, NewRow
<1>3. /\ a \in DOMAIN used /\ ~used[a]
      /\ DOMAIN used' = DOMAIN used /\ used'[a] = TRUE
      /\ \A b \in DOMAIN used : b # a => used'[b] = used[b]
      /\ UNCHANGED <<switch, network, vip>>
  BY DEF AddHost, isAvailableIP
<1>4. TypeInv'
  <2>1. used' \in [DOMAIN used' -> BOOLEAN]
    BY <1>3 DEF AddHost, TypeInv
  <2>2. (nextID \in Nat \ {0})' /\ (DOMAIN host \cup DOMAIN vip \subseteq 1..(nextID - 1))'
    BY <1>2, <1>3 DEF AddHost, TypeInv
  <2> QED BY <2>1, <2>2, <1>2, <1>3 DEF TypeInv, IsHost, IsVIP
<1>5. IpIsKey'
  BY <1>1, <1>2, <1>3 DEF IpIsKey, UsedIsRedundant
<1>6. UsedIsRedundant'
  BY <1>1, <1>2, <1>3 DEF UsedIsRedundant
<1>7. NetworksWhole(network, used)' /\ Referenced(switch, used, host, vip)'
  BY <1>1, <1>2, <1>3 DEF NetworksWhole, Referenced
<1> QED BY <1>4, <1>5, <1>6, <1>7

\* Nobody else has the address of the row that goes.
LEMMA RemoveHostKeeps ==
    ASSUME TablesInv, NEW id, RemoveHost(id)
    PROVE  TablesInv'
<1> USE DEF TablesInv
<1>1. /\ DOMAIN host' = DOMAIN host \ {id}
      /\ \A h \in DOMAIN host' : host'[h] = host[h]
      /\ UNCHANGED <<switch, network, vip, nextID>>
  BY DEF RemoveHost, Restrict
<1>2. /\ DOMAIN used' = DOMAIN used
      /\ id \in DOMAIN host => used'[host[id].ip] = FALSE
      /\ \A b \in DOMAIN used : (id \in DOMAIN host => b # host[id].ip) => used'[b] = used[b]
  BY DEF RemoveHost, Referenced
<1>3. TypeInv'
  <2>1. used' \in [DOMAIN used' -> BOOLEAN]
    BY DEF RemoveHost, TypeInv
  <2> QED BY <2>1, <1>1 DEF TypeInv, IsHost, IsVIP
<1>4. IpIsKey'
  BY <1>1 DEF IpIsKey
<1>5. UsedIsRedundant'
  BY <1>1, <1>2 DEF UsedIsRedundant, IpIsKey
<1>6. NetworksWhole(network, used)' /\ Referenced(switch, used, host, vip)'
  BY <1>1, <1>2 DEF NetworksWhole, Referenced, RemoveHost, RemovableHost
<1> QED BY <1>3, <1>4, <1>5, <1>6

LEMMA AddVIPKeeps ==
    ASSUME TablesInv, NEW a, NEW active, NEW standby, active # standby, AddVIP(a, active, standby)
    PROVE  TablesInv'
<1> USE DEF TablesInv
<1>1. nextID \notin DOMAIN vip
  BY DEF TypeInv
<1>2. /\ DOMAIN vip' = DOMAIN vip \cup {nextID}
      /\ vip'[nextID] = [ip |-> a, active |-> active, standby |-> standby]
      /\ \A v \in DOMAIN vip : vip'[v] = vip[v]
  BY <1>1 DEF AddVIP, NewRow
<1>3. /\ a \in DOMAIN used /\ ~used[a]
      /\ DOMAIN used' = DOMAIN used /\ used'[a] = TRUE
      /\ \A b \in DOMAIN used : b # a => used'[b] = used[b]
      /\ {active, standby} \subseteq DOMAIN host
      /\ UNCHANGED <<switch, network, host>>
  BY DEF AddVIP, isAvailableIP
<1>4. TypeInv'
  <2>1. used' \in [DOMAIN used' -> BOOLEAN]
    BY <1>3 DEF AddVIP, TypeInv
  <2>2. (nextID \in Nat \ {0})' /\ (DOMAIN host \cup DOMAIN vip \subseteq 1..(nextID - 1))'
    BY <1>2, <1>3 DEF AddVIP, TypeInv
  <2> QED BY <2>1, <2>2, <1>2, <1>3 DEF TypeInv, IsHost, IsVIP
<1>5. IpIsKey'
  BY <1>1, <1>2, <1>3 DEF IpIsKey, UsedIsRedundant
<1>6. UsedIsRedundant'
  BY <1>1, <1>2, <1>3 DEF UsedIsRedundant
<1>7. NetworksWhole(network, used)' /\ Referenced(switch, used, host, vip)'
  BY <1>1, <1>2, <1>3 DEF NetworksWhole, Referenced
<1> QED BY <1>4, <1>5, <1>6, <1>7

LEMMA RemoveVIPKeeps ==
    ASSUME TablesInv, NEW id, RemoveVIP(id)
    PROVE  TablesInv'
<1> USE DEF TablesInv
<1>1. /\ DOMAIN vip' = DOMAIN vip \ {id}
      /\ \A v \in DOMAIN vip' : vip'[v] = vip[v]
      /\ UNCHANGED <<switch, network, host, nextID>>
  BY DEF RemoveVIP, Restrict
<1>2. /\ DOMAIN used' = DOMAIN used
      /\ id \in DOMAIN vip => used'[vip[id].ip] = FALSE
      /\ \A b \in DOMAIN used : (id \in DOMAIN vip => b # vip[id].ip) => used'[b] = used[b]
  BY DEF RemoveVIP, Referenced
<1>3. TypeInv'
  <2>1. used' \in [DOMAIN used' -> BOOLEAN]
    BY DEF RemoveVIP, TypeInv
  <2> QED BY <2>1, <1>1 DEF TypeInv, IsHost, IsVIP
<1>4. IpIsKey'
  BY <1>1 DEF IpIsKey
<1>5. UsedIsRedundant'
  BY <1>1, <1>2 DEF UsedIsRedundant, IpIsKey
<1>6. NetworksWhole(network, used)' /\ Referenced(switch, used, host, vip)'
  BY <1>1, <1>2 DEF NetworksWhole, Referenced
<1> QED BY <1>3, <1>4, <1>5, <1>6

\* What a swap does to the rows of vip
LEMMA Swapped ==
    ASSUME TypeInv, NEW S, swapVIPHosts(S)
    PROVE  /\ DOMAIN vip' = DOMAIN vip
           /\ \A v \in DOMAIN vip :
                /\ IsVIP(vip'[v]) /\ vip'[v].ip = vip[v].ip
                /\ v \in S => vip'[v].active = vip[v].standby /\ vip'[v].standby = vip[v].active
                /\ v \notin S => vip'[v] = vip[v]
<1>1. ASSUME NEW r, IsVIP(r)
      PROVE  LET q == [r EXCEPT !.active = r.standby, !.standby = r.active]
             IN  IsVIP(q) /\ q.ip = r.ip /\ q.active = r.standby /\ q.standby = r.active
  BY <1>1 DEF IsVIP
<1> QED BY <1>1 DEF swapVIPHosts, TypeInv, IsVIP

LEMMA swapVIPHostsKeeps ==
    ASSUME TablesInv, NEW S, swapVIPHosts(S)
    PROVE  TablesInv'
<1> USE DEF TablesInv
<1>1. /\ DOMAIN vip' = DOMAIN vip
      /\ \A v \in DOMAIN vip :
           /\ IsVIP(vip'[v]) /\ vip'[v].ip = vip[v].ip
           /\ v \in S => vip'[v].active = vip[v].standby /\ vip'[v].standby = vip[v].active
           /\ v \notin S => vip'[v] = vip[v]
  BY Swapped
<1>2. UNCHANGED <<switch, network, used, host, nextID>>
  BY DEF swapVIPHosts
<1>3. TypeInv'
  BY <1>1, <1>2 DEF TypeInv
<1>4. IpIsKey' /\ UsedIsRedundant' /\ NetworksWhole(network, used)'
  BY <1>1, <1>2 DEF IpIsKey, UsedIsRedundant, NetworksWhole
<1>5. Referenced(switch, used, host, vip)'
  BY <1>1, <1>2 DEF Referenced
<1> QED BY <1>3, <1>4, <1>5

\* Hosts that move to ports of known switches, or to none, keep the rest.
LEMMA MovedHostsKeep ==
    ASSUME TablesInv, UNCHANGED <<switch, network, used, vip, nextID>>,
           DOMAIN host' = DOMAIN host,
           \A h \in DOMAIN host :
                /\ IsHost(host'[h]) /\ host'[h].ip = host[h].ip
                /\ \/ host'[h].port \in {host[h].port, NULL}
                   \/ host'[h].port \in Ports(Switch) /\ host'[h].port[1] \in switch
    PROVE  TablesInv'
<1> USE DEF TablesInv
<1>1. TypeInv'
  BY DEF TypeInv
<1>2. IpIsKey' /\ UsedIsRedundant' /\ NetworksWhole(network, used)'
  BY DEF IpIsKey, UsedIsRedundant, NetworksWhole
<1>3. Referenced(switch, used, host, vip)'
  BY DEF Referenced
<1> QED BY <1>1, <1>2, <1>3

\* A row of host with another port
LEMMA Moved ==
    ASSUME NEW r, NEW p, IsHost(r)
    PROVE  LET q == [r EXCEPT !.port = p]
           IN  IsHost(q) /\ q.ip = r.ip /\ q.port = p
BY DEF IsHost

LEMMA UpdateHostLocationKeeps ==
    ASSUME TablesInv, NEW h \in DOMAIN host, NEW p \in Ports(Switch), UpdateHostLocation(h, p)
    PROVE  TablesInv'
<1>1. /\ DOMAIN host' = DOMAIN host /\ host'[h] = [host[h] EXCEPT !.port = p]
      /\ \A k \in DOMAIN host : k # h => host'[k] = host[k]
      /\ UNCHANGED <<switch, network, used, vip, nextID>>
  BY DEF UpdateHostLocation
<1>2. \A k \in DOMAIN host : IsHost(host[k])
  BY DEF TablesInv, TypeInv
<1>3. IsHost(host'[h]) /\ host'[h].ip = host[h].ip /\ host'[h].port = p
  BY <1>1, <1>2, Moved
<1>4. p[1] \in switch
  BY DEF UpdateHostLocation, KnownPort
<1> QED BY <1>1, <1>2, <1>3, <1>4, MovedHostsKeep

LEMMA ResetHostLocationsKeeps ==
    ASSUME TablesInv, NEW P, ResetHostLocations(P)
    PROVE  TablesInv'
<1>1. /\ DOMAIN host' = DOMAIN host
      /\ \A h \in DOMAIN host : host'[h] = host[h] \/ host'[h] = [host[h] EXCEPT !.port = NULL]
      /\ UNCHANGED <<switch, network, used, vip, nextID>>
  BY DEF ResetHostLocations
<1>2. \A h \in DOMAIN host : IsHost(host[h])
  BY DEF TablesInv, TypeInv
<1>3. ASSUME NEW h \in DOMAIN host
      PROVE  /\ IsHost(host'[h]) /\ host'[h].ip = host[h].ip
             /\ host'[h].port \in {host[h].port, NULL}
  <2>1. CASE host'[h] = host[h]
    BY <2>1, <1>2
  <2>2. CASE host'[h] = [host[h] EXCEPT !.port = NULL]
    BY <2>2, <1>2, Moved
  <2> QED BY <2>1, <2>2, <1>1
<1> QED BY <1>1, <1>3, MovedHostsKeep

LEMMA NoTransactionKeeps ==
    ASSUME TablesInv, UNCHANGED tables
    PROVE  TablesInv'
BY DEF tables, TablesInv, TypeInv, IpIsKey, UsedIsRedundant, NetworksWhole, Referenced

-----------------------------------------------------------------------------
(* Every step is one transaction, or none. *)

LEMMA WorkKeeps ==
    ASSUME TablesInv, NEW w \in Worker, Work(w)
    PROVE  TablesInv'
<1> USE DEF Work
<1>1. ASSUME NEW s, removeSwitch(w, s) PROVE TablesInv'
  BY <1>1, RemoveSwitchKeeps DEF removeSwitch
<1>2. ASSUME NEW n, removeNetwork(w, n) PROVE TablesInv'
  BY <1>2, RemoveNetworkKeeps DEF removeNetwork
<1>3. ASSUME NEW p, addHost(w, p[1], p[2]) PROVE TablesInv'
  BY <1>3, AddHostKeeps DEF addHost
<1>4. ASSUME NEW p, NEW h, NEW k, addVIP(w, p, h, k) PROVE TablesInv'
  BY <1>4, AddVIPKeeps DEF addVIP
<1>5. ASSUME NEW v, removeVIP(w, v) PROVE TablesInv'
  BY <1>5, RemoveVIPKeeps DEF removeVIP
<1>6. ASSUME NEW v, toggleVIP(w, v) PROVE TablesInv'
  BY <1>6, swapVIPHostsKeeps DEF toggleVIP
<1>7. CASE addSwitch2(w)
  BY <1>7, AddSwitchKeeps DEF addSwitch2
<1>8. CASE addNetwork2(w)
  BY <1>8, AddNetworkKeeps DEF addNetwork2
<1>9. CASE removeHost2(w)
  BY <1>9, RemoveHostKeeps, NoTransactionKeeps DEF removeHost2
<1>10. ASSUME \/ \E s : addSwitch(w, s)
              \/ \E n : addNetwork(w, n)
              \/ \E h : removeHost(w, h)
              \/ \E ip : OnPacketIn(w, ip)
              \/ queryHost(w) \/ sendARPAnnouncement(w) \/ Abort(w)
       PROVE  TablesInv'
  BY <1>10, NoTransactionKeeps
     DEF addSwitch, addNetwork, removeHost, OnPacketIn, queryHost, sendARPAnnouncement, Abort
<1> QED BY <1>1, <1>2, <1>3, <1>4, <1>5, <1>6, <1>7, <1>8, <1>9, <1>10

LEMMA EventKeeps ==
    ASSUME TablesInv, NEW s \in Switch, Event(s)
    PROVE  TablesInv'
<1>1. CASE Toggle(s)
  BY <1>1, swapVIPHostsKeeps DEF Toggle
<1>2. CASE Reset(s)
  BY <1>2, ResetHostLocationsKeeps, NoTransactionKeeps DEF Reset
<1>3. ASSUME \/ \E P, device : Down(s, P, device)
             \/ ToggleDeadlock(s) \/ ToggleFails(s) \/ broadcastARPAnnouncement(s)
      PROVE  TablesInv'
  BY <1>3, NoTransactionKeeps DEF Down, ToggleDeadlock, ToggleFails, broadcastARPAnnouncement
<1> QED BY <1>1, <1>2, <1>3 DEF Event

LEMMA TablesStep == TablesInv /\ [Next]_vars => TablesInv'
<1> SUFFICES ASSUME TablesInv, [Next]_vars PROVE TablesInv'
  OBVIOUS
<1>1. ASSUME NEW w \in Worker, Work(w) PROVE TablesInv'
  BY <1>1, WorkKeeps
<1>2. ASSUME NEW s \in Switch, Event(s) PROVE TablesInv'
  BY <1>2, EventKeeps
<1>3. ASSUME NEW h \in DOMAIN host, NEW p \in Ports(Switch), Found(h, p) PROVE TablesInv'
  BY <1>3, UpdateHostLocationKeeps DEF Found
<1>4. ASSUME \/ \E b \in apps : Broadcasting(b)
             \/ \E b \in apps, ip \in Known : Rested(b, ip)
      PROVE  TablesInv'
  BY <1>4, NoTransactionKeeps DEF Broadcasting, Tick, ActiveHost, Broadcast, Rested
<1>5. CASE UNCHANGED vars
  BY <1>5, NoTransactionKeeps DEF vars
<1> QED BY <1>1, <1>2, <1>3, <1>4, <1>5 DEF Next

LEMMA TablesInvariant == Spec => []TablesInv
BY TablesInit, TablesStep, PTL DEF Spec

\* No order of requests, events and packets, nor the checks that addSwitch
\* and addNetwork make outside the transaction, leaves an address with two
\* owners or a wrong mark, networks that overlap, or a row that refers to
\* none (mysql.go, mysql_schema.sql).
THEOREM AlwaysConsistent == Spec => []Consistent
BY TablesInvariant, TablesConsistent, PTL

-----------------------------------------------------------------------------
(* The handlers of an event *)

\* The virtual IPs with an active host at the ports that are down, and what
\* the toggle announces, as its last transaction left the tables.
SeenVIPs(e) ==
    {v \in DOMAIN e.seen[2] : e.seen[2][v].active \in {h \in DOMAIN e.seen[1] : e.seen[1][h].port \in e.ports}}
SeenToggled(e) ==
    {Address(e.seen[2][v].ip, e.seen[1][e.seen[2][v].standby].mac) : v \in SeenVIPs(e)}

IsEvent(e) ==
    /\ DOMAIN e = {"left", "ports", "device", "result", "ready", "tries", "seen", "failed", "hit"}
    /\ e.left \in {Chain, <<"Discovery">>}
    /\ e.ready \in BOOLEAN /\ e.failed \in BOOLEAN
    /\ e.tries \in Nat
    /\ \E X : e.result \in Seq(X)

\* The toggle of VirtualIP has not been committed, and has not been given up.
ToToggle(e) == e.left = Chain /\ ~e.ready

\* Until the toggle, as long as the tables do not change, hit is what is to
\* be toggled, and the result has nothing but what will be committed.  It
\* is empty before the first try.
Before(e) ==
    /\ e.tries = 0 => e.result = <<>>
    /\ e.seen # <<>> => /\ e.hit = {<<v, e.seen[2][v].active>> : v \in SeenVIPs(e)}
                        /\ \A i \in DOMAIN e.result : e.result[i] \in SeenToggled(e)

\* What was to be toggled is.
Flipped(e) ==
    e.seen # <<>> /\ ~e.failed =>
        \A x \in e.hit : x[1] \in DOMAIN e.seen[2] => e.seen[2][x[1]].active # x[2]

\* After the toggle the virtual IPs are flipped, and VirtualIP is in the way
\* of Discovery only while there is something to announce.
After(e) == (e.left = Chain => e.result # <<>>) /\ Flipped(e)

EventInv(e) ==
    e = NoEvent \/ (IsEvent(e) /\ IF ToToggle(e) THEN Before(e) ELSE After(e))

EventsInv == DOMAIN down = Switch /\ \A s \in Switch : EventInv(down[s])

-----------------------------------------------------------------------------
LEMMA Permutation ==
    ASSUME NEW S, IsFiniteSet(S), NEW q \in SetToSeqs(S)
    PROVE  q \in Seq(S) /\ DOMAIN q = 1..Len(q) /\ \A x \in S : \E i \in 1..Len(q) : q[i] = x
<1>1. Cardinality(S) \in Nat
  BY FS_CardinalityType
<1>2. q \in [1..Cardinality(S) -> S] /\ IsInjective(q)
  BY DEF SetToSeqs, IsInjective
<1>3. q \in Seq(S) /\ Len(q) = Cardinality(S)
  BY <1>1, <1>2
<1>4. q \in Injection(1..Cardinality(S), S)
  BY <1>2 DEF Injection
<1>5. Cardinality(1..Cardinality(S)) = Cardinality(S)
  BY <1>1, FS_Interval
<1>6. q \in Surjection(1..Cardinality(S), S)
  BY <1>4, <1>5, FS_Injection
<1> QED BY <1>2, <1>3, <1>6 DEF Surjection

LEMMA ToggledFinite ==
    ASSUME TypeInv, NEW S \in SUBSET DOMAIN vip
    PROVE  IsFiniteSet(Toggled(S))
<1>1. IsFiniteSet(S)
  <2>1. IsFiniteSet(1..(nextID - 1))
    BY FS_Interval DEF TypeInv
  <2>2. S \in SUBSET (1..(nextID - 1))
    BY DEF TypeInv
  <2> QED BY <2>1, <2>2, FS_Subset
<1> DEFINE f == [v \in S |-> Address(vip[v].ip, hostMAC(v))]
<1>2. f \in Surjection(S, Toggled(S))
  BY DEF Surjection, Toggled
<1> QED BY <1>1, <1>2, FS_Surjection

\* What a try of the toggle appends to the result
LEMMA Appended ==
    ASSUME NEW X, NEW r \in Seq(X), NEW S, IsFiniteSet(S), NEW q \in SetToSeqs(S)
    PROVE  /\ r \o q \in Seq(X \cup S)
           /\ Len(r) \in Nat /\ DOMAIN r = 1..Len(r)
           /\ DOMAIN (r \o q) = 1..(Len(r) + Len(q))
           /\ \A i \in DOMAIN (r \o q) :
                \/ i <= Len(r) /\ i \in DOMAIN r /\ (r \o q)[i] = r[i]
                \/ ~(i <= Len(r)) /\ (r \o q)[i] \in S
           /\ \A x \in S : \E i \in DOMAIN (r \o q) : i > Len(r) /\ (r \o q)[i] = x
<1>1. q \in Seq(S) /\ DOMAIN q = 1..Len(q) /\ \A x \in S : \E i \in 1..Len(q) : q[i] = x
  BY Permutation
<1>2. r \in Seq(X \cup S) /\ q \in Seq(X \cup S)
  BY <1>1, SeqMonotonic
<1>3. /\ r \o q \in Seq(X \cup S)
      /\ Len(r \o q) = Len(r) + Len(q)
      /\ \A i \in 1..Len(r) + Len(q) : (r \o q)[i] = IF i <= Len(r) THEN r[i] ELSE q[i - Len(r)]
  BY <1>2, ConcatProperties
<1>4. Len(r) \in Nat /\ DOMAIN r = 1..Len(r) /\ Len(q) \in Nat /\ DOMAIN (r \o q) = 1..Len(r \o q)
  BY <1>1, <1>2, <1>3, LenProperties
<1>5. ASSUME NEW i \in 1..(Len(r) + Len(q)), ~(i <= Len(r)) PROVE (r \o q)[i] \in S
  <2>1. i - Len(r) \in 1..Len(q)
    BY <1>4, <1>5
  <2>2. q[i - Len(r)] \in S
    BY <1>1, <2>1, ElementOfSeq
  <2> QED BY <1>3, <1>5, <2>2
<1>6. ASSUME NEW x \in S PROVE \E i \in 1..(Len(r) + Len(q)) : i > Len(r) /\ (r \o q)[i] = x
  <2>1. PICK j \in 1..Len(q) : q[j] = x
    BY <1>1
  <2>2. j + Len(r) \in 1..(Len(r) + Len(q)) /\ j + Len(r) > Len(r) /\ (j + Len(r)) - Len(r) = j
    BY <1>4
  <2> QED BY <2>1, <2>2, <1>3, <1>4
<1>7. \A i \in 1..(Len(r) + Len(q)) : i <= Len(r) => i \in DOMAIN r /\ (r \o q)[i] = r[i]
  BY <1>3, <1>4
<1> QED BY <1>3, <1>4, <1>5, <1>6, <1>7

-----------------------------------------------------------------------------
LEMMA Chains ==
    /\ Chain # <<>> /\ Chain # <<"Discovery">> /\ <<"Discovery">> # <<>>
    /\ Head(Chain) = "VirtualIP" /\ Tail(Chain) = <<"Discovery">>
    /\ Head(<<"Discovery">>) = "Discovery" /\ Tail(<<"Discovery">>) = <<>>
BY DEF Chain

\* Whose turn it is tells how far the handler is.
LEMMA Turns ==
    ASSUME NEW s, EventInv(down[s])
    PROVE  /\ down[s] # NoEvent => IsEvent(down[s])
           /\ Turn(s, "VirtualIP") => IsEvent(down[s]) /\ down[s].left = Chain
           /\ Turn(s, "Discovery") => IsEvent(down[s]) /\ down[s].left = <<"Discovery">>
<1>1. NoEvent.left = <<>>
  BY DEF NoEvent
<1>2. CASE down[s] = NoEvent
  BY <1>1, <1>2 DEF Turn
<1>3. CASE down[s] # NoEvent
  BY <1>3, Chains DEF EventInv, IsEvent, Turn
<1> QED BY <1>2, <1>3

\* An event is not NoEvent.
LEMMA EventIsOne ==
    ASSUME NEW e, IsEvent(e)
    PROVE  e # NoEvent /\ e.left # <<>>
<1>1. e.left # <<>>
  BY Chains DEF IsEvent
<1>2. NoEvent.left = <<>>
  BY DEF NoEvent
<1> QED BY <1>1, <1>2

\* Only the handler of s changes down[s].
LEMMA Gone ==
    ASSUME DOMAIN down = Switch, NEW s \in Switch, NEW e, Go(s, e)
    PROVE  /\ down'[s] = IF e.left = <<>> THEN NoEvent ELSE e
           /\ \A r \in Switch : r # s => down'[r] = down[r]
           /\ DOMAIN down' = Switch
BY DEF Go

\* The tables that the handler saw are the current ones.
LEMMA Current ==
    ASSUME NEW e, e.seen = <<host, vip>>
    PROVE  /\ e.seen[1] = host /\ e.seen[2] = vip
           /\ SeenVIPs(e) = getActiveVIPs(e.ports)
           /\ SeenToggled(e) = Toggled(getActiveVIPs(e.ports))
<1>1. e.seen[1] = host /\ e.seen[2] = vip
  OBVIOUS
<1>2. SeenVIPs(e) = getActiveVIPs(e.ports)
  BY <1>1 DEF SeenVIPs, getActiveVIPs, HostsAt
<1>3. SeenToggled(e) = Toggled(getActiveVIPs(e.ports))
  BY <1>1, <1>2 DEF SeenToggled, Toggled, hostMAC
<1> QED BY <1>1, <1>2, <1>3

LEMMA DownKeeps ==
    ASSUME EventsInv, NEW s \in Switch, NEW P, NEW device, Down(s, P, device)
    PROVE  /\ EventsInv' /\ down[s] = NoEvent
           /\ \A r \in Switch : r # s => down'[r] = down[r]
<1> DEFINE e == [left |-> Chain, ports |-> P, device |-> device,
                 result |-> <<>>, ready |-> FALSE, tries |-> 0, seen |-> <<host, vip>>,
                 failed |-> FALSE, hit |-> {<<v, vip[v].active>> : v \in getActiveVIPs(P)}]
<1>1. down' = [down EXCEPT ![s] = e] /\ down[s] = NoEvent
  BY DEF Down
<1>2. /\ DOMAIN e = {"left", "ports", "device", "result", "ready", "tries", "seen", "failed", "hit"}
      /\ e.left = Chain /\ e.ports = P /\ e.result = <<>> /\ e.ready = FALSE /\ e.tries = 0
      /\ e.seen = <<host, vip>> /\ e.failed = FALSE
      /\ e.hit = {<<v, vip[v].active>> : v \in getActiveVIPs(P)}
  OBVIOUS
<1> HIDE DEF e
<1>3. IsEvent(e)
  <2>1. \E X : e.result \in Seq(X)
    <3>1. <<>> \in Seq({})
      OBVIOUS
    <3> QED BY <1>2, <3>1
  <2>2. e.tries \in Nat
    BY <1>2
  <2>3. e.ready \in BOOLEAN /\ e.failed \in BOOLEAN /\ ~e.ready
    BY <1>2
  <2> QED BY <1>2, <2>1, <2>2, <2>3 DEF IsEvent
<1>4. ToToggle(e) /\ Before(e)
  <2>1. e.hit = {<<v, e.seen[2][v].active>> : v \in SeenVIPs(e)}
    BY <1>2, Current
  <2>2. DOMAIN e.result = {}
    BY <1>2
  <2> QED BY <1>2, <2>1, <2>2 DEF ToToggle, Before
<1>5. EventInv(e)
  BY <1>3, <1>4 DEF EventInv
<1> QED BY <1>1, <1>5 DEF EventsInv

\* The handler gives up the toggle, or leaves it to the next application.
LEMMA ToggleFailsKeeps ==
    ASSUME EventsInv, NEW s \in Switch, ToggleFails(s)
    PROVE  /\ EventsInv' /\ down[s] # NoEvent /\ down'[s] # NoEvent /\ ~down'[s].ready
           /\ \A r \in Switch : r # s => down'[r] = down[r]
<1> DEFINE f == [down[s] EXCEPT !.left = Tail(@), !.failed = TRUE]
<1>1. IsEvent(down[s]) /\ down[s].left = Chain /\ ~down[s].ready
  BY Turns DEF EventsInv, ToggleFails
<1>2. /\ DOMAIN f = DOMAIN down[s] /\ f.left = Tail(down[s].left) /\ f.failed = TRUE
      /\ f.result = down[s].result /\ f.ready = down[s].ready /\ f.tries = down[s].tries
      /\ f.seen = down[s].seen
  BY <1>1 DEF IsEvent
<1>3. Go(s, f)
  BY DEF ToggleFails
<1> HIDE DEF f
<1>4. IsEvent(f) /\ f.left = <<"Discovery">>
  BY <1>1, <1>2, Chains DEF IsEvent
<1>5. EventInv(f)
  BY <1>2, <1>4, Chains DEF EventInv, ToToggle, After, Flipped
<1> QED BY <1>1, <1>2, <1>3, <1>4, <1>5, Gone, EventIsOne DEF EventsInv

LEMMA ResetKeeps ==
    ASSUME EventsInv, NEW s \in Switch, Reset(s)
    PROVE  /\ EventsInv' /\ down[s].left = <<"Discovery">> /\ down'[s] = NoEvent /\ vip' = vip
           /\ \A r \in Switch : r # s => down'[r] = down[r]
<1> DEFINE f == [down[s] EXCEPT !.left = Tail(@), !.seen = Saw(s, <<host', vip>>)]
<1>1. IsEvent(down[s]) /\ down[s].left = <<"Discovery">>
  BY Turns DEF EventsInv, Reset
<1>2. f.left = <<>>
  BY <1>1, Chains DEF IsEvent
<1>3. Go(s, f)
  BY DEF Reset
<1> HIDE DEF f
<1>4. vip' = vip
  BY DEF Reset, ResetHostLocations, tables
<1> QED BY <1>1, <1>2, <1>3, <1>4, Gone DEF EventsInv, EventInv

\* What follows the toggle: an announcement, or Discovery.
LEMMA Announces ==
    ASSUME NEW f, IsEvent(f), f.left = Chain, Flipped(f)
    PROVE  LET g == Announcing(f)
           IN  /\ IsEvent(g) /\ EventInv(g)
               /\ g.ready /\ ~f.ready => g.result = f.result
<1> DEFINE g == Announcing(f)
<1>1. CASE f.result = <<>>
  <2> DEFINE q == [f EXCEPT !.left = Tail(@)]
  <2>1. g = q
    BY <1>1 DEF Announcing
  <2>2. /\ DOMAIN q = DOMAIN f /\ q.left = Tail(f.left) /\ q.result = f.result /\ q.ready = f.ready
        /\ q.tries = f.tries /\ q.failed = f.failed /\ q.seen = f.seen /\ q.hit = f.hit
    BY DEF IsEvent
  <2> HIDE DEF q, g
  <2>3. IsEvent(g) /\ g.left # Chain
    BY <2>1, <2>2, Chains DEF IsEvent
  <2>4. After(g) /\ ~ToToggle(g)
    BY <2>1, <2>2, <2>3 DEF After, Flipped, ToToggle
  <2> QED BY <2>1, <2>2, <2>3, <2>4 DEF EventInv, g
<1>2. CASE f.result # <<>>
  <2> DEFINE q == [f EXCEPT !.ready = TRUE]
  <2>1. g = q
    BY <1>2 DEF Announcing
  <2>2. /\ DOMAIN q = DOMAIN f /\ q.left = f.left /\ q.result = f.result /\ q.ready = TRUE
        /\ q.tries = f.tries /\ q.failed = f.failed /\ q.seen = f.seen /\ q.hit = f.hit
    BY DEF IsEvent
  <2> HIDE DEF q, g
  <2>3. IsEvent(g)
    BY <2>1, <2>2 DEF IsEvent
  <2>4. After(g) /\ ~ToToggle(g)
    BY <2>1, <2>2, <1>2 DEF After, Flipped, ToToggle
  <2> QED BY <2>1, <2>2, <2>3, <2>4 DEF EventInv, g
<1> QED BY <1>1, <1>2

LEMMA broadcastKeeps ==
    ASSUME EventsInv, NEW s \in Switch, broadcastARPAnnouncement(s)
    PROVE  /\ EventsInv' /\ down[s].ready /\ down[s] # NoEvent /\ down'[s] # NoEvent
           /\ \A r \in Switch : r # s => down'[r] = down[r]
<1> DEFINE e == down[s]
           f == [e EXCEPT !.result = Tail(@)]
<1>1. IsEvent(e) /\ e.left = Chain /\ e.ready
  BY Turns DEF EventsInv, broadcastARPAnnouncement
<1>2. e.result # <<>> /\ Flipped(e)
  BY <1>1, EventIsOne DEF EventsInv, EventInv, ToToggle, After
<1>3. /\ DOMAIN f = DOMAIN e /\ f.left = e.left /\ f.result = Tail(e.result) /\ f.ready = e.ready
      /\ f.tries = e.tries /\ f.failed = e.failed /\ f.seen = e.seen /\ f.hit = e.hit
  BY <1>1 DEF IsEvent
<1>4. Go(s, Announcing(f))
  BY DEF broadcastARPAnnouncement
<1> HIDE DEF f
<1>5. IsEvent(f)
  <2>1. PICK X : e.result \in Seq(X)
    BY <1>1 DEF IsEvent
  <2>2. Tail(e.result) \in Seq(X)
    BY <1>2, <2>1, HeadTailProperties
  <2>3. \E Y : f.result \in Seq(Y)
    BY <1>3, <2>2
  <2> QED BY <1>1, <1>3, <2>3 DEF IsEvent
<1>6. f.left = Chain /\ Flipped(f)
  BY <1>1, <1>2, <1>3 DEF Flipped
<1>7. IsEvent(Announcing(f)) /\ EventInv(Announcing(f))
  BY <1>5, <1>6, Announces
<1>8. Announcing(f).left # <<>>
  BY <1>7, EventIsOne
<1> QED BY <1>1, <1>4, <1>7, <1>8, Gone, EventIsOne DEF EventsInv

\* If nothing has changed the tables, the toggle is about what it sees now.
LEMMA NotRaced ==
    ASSUME EventsInv, NEW s \in Switch, Turn(s, "VirtualIP"), ~down[s].ready
    PROVE  LET e == down[s]
               S == getActiveVIPs(e.ports)
           IN  /\ IsEvent(e) /\ e.left = Chain
               /\ e.tries = 0 => e.result = <<>>
               /\ ~Raced(s) => /\ e.hit = {<<v, vip[v].active>> : v \in S}
                               /\ \A i \in DOMAIN e.result : e.result[i] \in Toggled(S)
<1> DEFINE e == down[s]
<1>1. IsEvent(e) /\ e.left = Chain
  BY Turns DEF EventsInv
<1>2. Before(e)
  BY <1>1, EventIsOne DEF EventsInv, EventInv, ToToggle
<1>3. ASSUME ~Raced(s)
      PROVE  /\ e.hit = {<<v, vip[v].active>> : v \in getActiveVIPs(e.ports)}
             /\ \A i \in DOMAIN e.result : e.result[i] \in Toggled(getActiveVIPs(e.ports))
  <2>1. e.seen = <<host, vip>> /\ e.seen # <<>>
    BY <1>3 DEF Raced
  <2> QED BY <1>2, <2>1, Current DEF Before
<1> QED BY <1>1, <1>2, <1>3 DEF Before

\* A try that is rolled back leaves a part of what would be committed.
LEMMA ToggleDeadlockKeeps ==
    ASSUME TablesInv, EventsInv, NEW s \in Switch, ToggleDeadlock(s)
    PROVE  /\ EventsInv' /\ down[s] # NoEvent /\ down'[s] # NoEvent /\ ~down'[s].ready
           /\ \A r \in Switch : r # s => down'[r] = down[r]
<1> DEFINE e == down[s]
           A == getActiveVIPs(e.ports)
<1>0. PICK S \in SUBSET A : \E new \in SetToSeqs(Toggled(S)) :
        Go(s, [e EXCEPT !.result = @ \o new, !.tries = @ + 1, !.seen = Saw(s, <<host, vip>>)])
  BY DEF ToggleDeadlock
<1>1. PICK new \in SetToSeqs(Toggled(S)) :
        Go(s, [e EXCEPT !.result = @ \o new, !.tries = @ + 1, !.seen = Saw(s, <<host, vip>>)])
  BY <1>0
<1> DEFINE f == [e EXCEPT !.result = @ \o new, !.tries = @ + 1, !.seen = Saw(s, <<host, vip>>)]
<1>2. /\ IsEvent(e) /\ e.left = Chain /\ ~e.ready
      /\ ~Raced(s) => /\ e.hit = {<<v, vip[v].active>> : v \in A}
                      /\ \A i \in DOMAIN e.result : e.result[i] \in Toggled(A)
  BY NotRaced DEF ToggleDeadlock
<1>3. /\ DOMAIN f = DOMAIN e /\ f.left = e.left /\ f.ports = e.ports /\ f.ready = e.ready
      /\ f.failed = e.failed /\ f.hit = e.hit
      /\ f.result = e.result \o new /\ f.tries = e.tries + 1
      /\ f.seen = Saw(s, <<host, vip>>)
  BY <1>2 DEF IsEvent
<1>4. Go(s, f)
  BY <1>1
<1> HIDE DEF f
<1>5. PICK X : e.result \in Seq(X)
  BY <1>2 DEF IsEvent
<1>6. IsFiniteSet(Toggled(S)) /\ Toggled(S) \subseteq Toggled(A)
  BY ToggledFinite DEF TablesInv, getActiveVIPs, Toggled
<1>7. /\ e.result \o new \in Seq(X \cup Toggled(S))
      /\ \A i \in DOMAIN (e.result \o new) :
            \/ i \in DOMAIN e.result /\ (e.result \o new)[i] = e.result[i]
            \/ (e.result \o new)[i] \in Toggled(S)
  BY <1>5, <1>6, Appended
<1>8. IsEvent(f)
  <2>1. f.tries \in Nat /\ f.tries # 0
    BY <1>2, <1>3 DEF IsEvent
  <2>2. \E Y : f.result \in Seq(Y)
    BY <1>3, <1>7
  <2> QED BY <1>2, <1>3, <2>1, <2>2 DEF IsEvent
<1>9. Before(f)
  <2>1. f.tries # 0
    BY <1>2, <1>3 DEF IsEvent
  <2>3. ASSUME f.seen # <<>>
        PROVE  /\ f.hit = {<<v, f.seen[2][v].active>> : v \in SeenVIPs(f)}
               /\ \A i \in DOMAIN f.result : f.result[i] \in SeenToggled(f)
    <3>1. ~Raced(s) /\ f.seen = <<host, vip>>
      BY <1>3, <2>3 DEF Saw
    <3>2. f.seen[2] = vip /\ SeenVIPs(f) = A /\ SeenToggled(f) = Toggled(A)
      BY <1>3, <3>1, Current
    <3> QED BY <3>1, <3>2, <1>2, <1>3, <1>6, <1>7
  <2> QED BY <2>1, <2>3 DEF Before
<1>10. EventInv(f) /\ ~f.ready
  BY <1>2, <1>3, <1>8, <1>9 DEF EventInv, ToToggle
<1> QED BY <1>2, <1>4, <1>8, <1>10, Gone, EventIsOne DEF EventsInv

\* What the announcements of a toggle say, the last one of each address, is
\* what it commits.
Announced(s, r) ==
    \A i \in DOMAIN r :
        \/ \E j \in DOMAIN r : j > i /\ r[j].ip = r[i].ip
        \/ \E ip \in DOMAIN used : r[i].ip = ip /\ r[i].mac \in MAC(ip)'
        \/ down[s].tries > 0 /\ Raced(s)

LEMMA ToggleKeeps ==
    ASSUME TablesInv, EventsInv, NEW s \in Switch, Toggle(s)
    PROVE  /\ EventsInv' /\ down[s] # NoEvent /\ down'[s] # NoEvent
           /\ down'[s].ready => Announced(s, down'[s].result)
           /\ \A r \in Switch : r # s => down'[r] = down[r]
<1> DEFINE e == down[s]
           S == getActiveVIPs(e.ports)
<1>1. PICK new \in SetToSeqs(Toggled(S)) :
        /\ swapVIPHosts(S)
        /\ Go(s, Announcing([e EXCEPT !.result = @ \o new, !.seen = Saw(s, <<host, vip'>>)]))
  BY DEF Toggle
<1> DEFINE f == [e EXCEPT !.result = @ \o new, !.seen = Saw(s, <<host, vip'>>)]
<1>2. /\ IsEvent(e) /\ e.left = Chain /\ ~e.ready
      /\ e.tries = 0 => e.result = <<>>
      /\ ~Raced(s) => /\ e.hit = {<<v, vip[v].active>> : v \in S}
                      /\ \A i \in DOMAIN e.result : e.result[i] \in Toggled(S)
  BY NotRaced DEF Toggle
<1>3. /\ DOMAIN f = DOMAIN e /\ f.left = e.left /\ f.ports = e.ports /\ f.ready = e.ready
      /\ f.tries = e.tries /\ f.failed = e.failed /\ f.hit = e.hit
      /\ f.result = e.result \o new /\ f.seen = Saw(s, <<host, vip'>>)
  BY <1>2 DEF IsEvent
<1>4. Go(s, Announcing(f))
  BY <1>1
<1> HIDE DEF f
<1>5. PICK X : e.result \in Seq(X)
  BY <1>2 DEF IsEvent
<1>6. IsFiniteSet(Toggled(S))
  BY ToggledFinite DEF TablesInv, getActiveVIPs
<1>7. /\ f.result \in Seq(X \cup Toggled(S))
      /\ Len(e.result) \in Nat /\ DOMAIN e.result = 1..Len(e.result)
      /\ \A i \in DOMAIN f.result :
            \/ i <= Len(e.result) /\ i \in DOMAIN e.result /\ f.result[i] = e.result[i]
            \/ ~(i <= Len(e.result)) /\ f.result[i] \in Toggled(S)
      /\ \A x \in Toggled(S) : \E i \in DOMAIN f.result : i > Len(e.result) /\ f.result[i] = x
      /\ DOMAIN f.result = 1..(Len(e.result) + Len(new))
  <2> DEFINE r == e.result
             T == Toggled(S)
  <2>1. r \in Seq(X) /\ f.result = r \o new /\ new \in SetToSeqs(T) /\ IsFiniteSet(T)
    BY <1>3, <1>5, <1>6
  <2> HIDE DEF r, T
  <2>2. /\ r \o new \in Seq(X \cup T)
        /\ Len(r) \in Nat /\ DOMAIN r = 1..Len(r)
        /\ DOMAIN (r \o new) = 1..(Len(r) + Len(new))
        /\ \A i \in DOMAIN (r \o new) :
              \/ i <= Len(r) /\ i \in DOMAIN r /\ (r \o new)[i] = r[i]
              \/ ~(i <= Len(r)) /\ (r \o new)[i] \in T
        /\ \A x \in T : \E i \in DOMAIN (r \o new) : i > Len(r) /\ (r \o new)[i] = x
    BY <2>1, Appended
  <2> QED BY <2>1, <2>2, Zenon DEF r, T
<1>8. /\ DOMAIN vip' = DOMAIN vip
      /\ \A v \in S : vip'[v].ip = vip[v].ip /\ vip'[v].active = vip[v].standby
      /\ UNCHANGED <<used, host>>
  BY <1>1, Swapped DEF TablesInv, getActiveVIPs, swapVIPHosts
<1>9. IsEvent(f)
  <2>1. \E Y : f.result \in Seq(Y)
    BY <1>7
  <2> QED BY <1>2, <1>3, <2>1 DEF IsEvent
<1>10. Flipped(f)
  <2> SUFFICES ASSUME f.seen # <<>>, NEW x \in f.hit, x[1] \in DOMAIN f.seen[2]
               PROVE  f.seen[2][x[1]].active # x[2]
    BY DEF Flipped
  <2>1. f.seen[2] = vip' /\ ~Raced(s)
    BY <1>3 DEF Saw
  <2>2. PICK v \in S : x = <<v, vip[v].active>>
    BY <1>2, <1>3, <2>1
  <2>3. vip[v].active # vip[v].standby
    BY DEF TablesInv, Referenced, getActiveVIPs
  <2> QED BY <2>1, <2>2, <2>3, <1>8
<1>11. /\ IsEvent(Announcing(f)) /\ EventInv(Announcing(f))
       /\ Announcing(f).ready => Announcing(f).result = f.result
  BY <1>2, <1>3, <1>9, <1>10, Announces
<1>12. Announced(s, f.result)
  <2>1. ASSUME NEW x \in Toggled(S) PROVE \E ip \in DOMAIN used : x.ip = ip /\ x.mac \in MAC(ip)'
    <3>1. PICK v \in S : x = Address(vip[v].ip, hostMAC(v))
      BY DEF Toggled
    <3>2. PICK ip \in DOMAIN used : v \in DOMAIN vip /\ vip[v].ip = ip
      BY DEF TablesInv, Referenced, getActiveVIPs
    <3>3. x.ip = ip /\ x.mac = host'[vip'[v].active].mac
      BY <3>1, <3>2, <1>8 DEF Address, hostMAC
    <3>4. v \in VIPOf(ip)'
      BY <3>2, <1>8 DEF VIPOf
    <3>5. x.mac \in MAC(ip)'
      BY <3>3, <3>4 DEF MAC
    <3> QED BY <3>3, <3>5
  <2> SUFFICES ASSUME NEW i \in DOMAIN f.result
               PROVE  \/ \E j \in DOMAIN f.result : j > i /\ f.result[j].ip = f.result[i].ip
                      \/ \E ip \in DOMAIN used : f.result[i].ip = ip /\ f.result[i].mac \in MAC(ip)'
                      \/ e.tries > 0 /\ Raced(s)
    BY DEF Announced
  <2>2. CASE ~(i <= Len(e.result))
    BY <2>1, <2>2, <1>7
  <2>3. CASE i <= Len(e.result)
    <3>1. i \in DOMAIN e.result /\ f.result[i] = e.result[i]
      BY <2>3, <1>7
    <3>2. e.tries > 0
      <4>1. e.result # <<>>
        BY <3>1, <1>7
      <4> QED BY <4>1, <1>2 DEF IsEvent
    <3>3. CASE ~Raced(s)
      <4>1. f.result[i] \in Toggled(S)
        BY <3>1, <3>3, <1>2
      <4>2. PICK j \in DOMAIN f.result : j > Len(e.result) /\ f.result[j] = f.result[i]
        BY <4>1, <1>7
      <4>3. j > i
        BY <4>2, <2>3, <1>7
      <4> QED BY <4>2, <4>3
    <3> QED BY <3>2, <3>3
  <2> QED BY <2>2, <2>3
<1>13. Announcing(f).left # <<>>
  BY <1>11, EventIsOne
<1>14. down'[s] = Announcing(f) /\ (\A r \in Switch : r # s => down'[r] = down[r]) /\ DOMAIN down' = Switch
  BY <1>4, <1>13, Gone DEF EventsInv
<1>15. EventsInv'
  BY <1>11, <1>14 DEF EventsInv
<1>16. down[s] # NoEvent /\ down'[s] # NoEvent
  BY <1>2, <1>11, <1>14, EventIsOne
<1>17. down'[s].ready => Announced(s, down'[s].result)
  BY <1>11, <1>12, <1>14
<1> QED BY <1>14, <1>15, <1>16, <1>17

-----------------------------------------------------------------------------
(* What a step does to the events, and what it may not do                  *)

FailsOver(s) ==
    down[s] # NoEvent /\ down'[s] = NoEvent =>
        \A x \in down[s].hit :
            \/ x[1] \in DOMAIN vip' => vip'[x[1]].active # x[2]
            \/ down[s].failed \/ Raced(s)

TellsToggled(s) ==
    down[s] # NoEvent /\ down'[s] # NoEvent /\ ~down[s].ready /\ down'[s].ready =>
        Announced(s, down'[s].result)

EventsGood == EventsInv' /\ \A s \in Switch : FailsOver(s) /\ TellsToggled(s)

\* Nothing happens to an event.
LEMMA SameEvents ==
    ASSUME EventsInv, down' = down
    PROVE  EventsGood
BY DEF EventsGood, EventsInv, FailsOver, TellsToggled

\* The handler of s takes a step.
LEMMA OneEvent ==
    ASSUME NEW s \in Switch, EventsInv', FailsOver(s), TellsToggled(s),
           \A r \in Switch : r # s => down'[r] = down[r]
    PROVE  EventsGood
<1>1. ASSUME NEW r \in Switch, r # s PROVE FailsOver(r) /\ TellsToggled(r)
  BY <1>1 DEF FailsOver, TellsToggled
<1> QED BY <1>1 DEF EventsGood

LEMMA EventGood ==
    ASSUME TablesInv, EventsInv, NEW s \in Switch, Event(s)
    PROVE  EventsGood
<1> USE DEF FailsOver, TellsToggled
<1>1. ASSUME NEW P, NEW device, Down(s, P, device) PROVE EventsGood
  BY <1>1, DownKeeps, OneEvent
<1>2. CASE Toggle(s)
  BY <1>2, ToggleKeeps, OneEvent
<1>3. CASE ToggleDeadlock(s)
  BY <1>3, ToggleDeadlockKeeps, OneEvent
<1>4. CASE ToggleFails(s)
  BY <1>4, ToggleFailsKeeps, OneEvent
<1>5. CASE broadcastARPAnnouncement(s)
  BY <1>5, broadcastKeeps, OneEvent
<1>6. CASE Reset(s)
  <2>1. /\ EventsInv' /\ down[s].left = <<"Discovery">> /\ down'[s] = NoEvent /\ vip' = vip
        /\ \A r \in Switch : r # s => down'[r] = down[r]
    BY <1>6, ResetKeeps
  <2>2. FailsOver(s)
    <3> SUFFICES ASSUME down[s] # NoEvent, ~down[s].failed, ~Raced(s), NEW x \in down[s].hit,
                        x[1] \in DOMAIN vip'
                 PROVE  vip'[x[1]].active # x[2]
      OBVIOUS
    <3>0. down[s].seen = <<host, vip>>
      BY DEF Raced
    <3>1. down[s].seen # <<>> /\ down[s].seen = <<host, vip>>
      BY <3>0
    <3>2. down[s].seen[2] = vip
      BY <3>1
    <3>3. Flipped(down[s])
      BY <2>1, Chains DEF EventsInv, EventInv, ToToggle, After
    <3> QED BY <2>1, <3>1, <3>2, <3>3 DEF Flipped
  <2> QED BY <2>1, <2>2, OneEvent
<1> QED BY <1>1, <1>2, <1>3, <1>4, <1>5, <1>6 DEF Event

LEMMA EventsStep == TablesInv /\ EventsInv /\ [Next]_vars => EventsGood
<1> SUFFICES ASSUME TablesInv, EventsInv, [Next]_vars PROVE EventsGood
  OBVIOUS
<1>1. ASSUME NEW s \in Switch, Event(s) PROVE EventsGood
  BY <1>1, EventGood
<1>2. ASSUME NEW w \in Worker, Work(w) PROVE down' = down
  BY <1>2 DEF Work, addSwitch, addSwitch2, removeSwitch, addNetwork, addNetwork2, removeNetwork,
              addHost, addVIP, queryHost, removeHost, removeHost2, removeVIP, toggleVIP,
              sendARPAnnouncement, OnPacketIn, Abort
<1>3. ASSUME \/ \E h \in DOMAIN host, p \in Ports(Switch) : Found(h, p)
             \/ \E b \in apps : Broadcasting(b)
             \/ \E b \in apps, ip \in Known : Rested(b, ip)
             \/ UNCHANGED vars
      PROVE  down' = down
  BY <1>3 DEF Found, Broadcasting, Tick, ActiveHost, Broadcast, Rested, vars
<1> QED BY <1>1, <1>2, <1>3, SameEvents DEF Next

LEMMA EventsInit == Init => EventsInv
BY DEF Init, EventsInv, EventInv

LEMMA EventsInvariant == Spec => [](TablesInv /\ EventsInv)
<1>1. EventsGood => EventsInv'
  BY DEF EventsGood
<1> QED BY <1>1, TablesInit, EventsInit, TablesStep, EventsStep, PTL DEF Spec

-----------------------------------------------------------------------------
\* "This VirtualIP module should be executed before the Discovery module":
\* every virtual IP whose active host was at a port or device that went down
\* has another active host when the applications are done, whatever the
\* requests and the other events do meanwhile (OnPortDown, OnDeviceDown).
THEOREM AlwaysFailedOver == Spec => FailedOver
<1>1. EventsGood =>
        (\A s \in Switch :
            down[s] # NoEvent /\ down'[s] = NoEvent =>
                \A x \in down[s].hit :
                    \/ x[1] \in DOMAIN vip' => vip'[x[1]].active # x[2]
                    \/ down[s].failed \/ Raced(s))
  BY DEF EventsGood, FailsOver
<1> QED BY <1>1, EventsInvariant, EventsStep, PTL DEF Spec, FailedOver

\* However often TogglePortVIP and ToggleDeviceVIP are retried after a
\* deadlock, what is announced last for each address is what they committed.
THEOREM AlwaysToggleAnnounced == Spec => ToggleAnnounced
<1>1. EventsGood =>
        (\A s \in Switch :
            down[s] # NoEvent /\ down'[s] # NoEvent /\ ~down[s].ready /\ down'[s].ready =>
                LET r == down'[s].result
                IN  \A i \in DOMAIN r :
                        \/ \E j \in DOMAIN r : j > i /\ r[j].ip = r[i].ip
                        \/ \E ip \in DOMAIN used : r[i].ip = ip /\ r[i].mac \in MAC(ip)'
                        \/ down[s].tries > 0 /\ Raced(s))
  BY DEF EventsGood, TellsToggled, Announced
<1> QED BY <1>1, EventsInvariant, EventsStep, PTL DEF Spec, ToggleAnnounced
=============================================================================
