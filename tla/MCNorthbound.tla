---------------------------- MODULE MCNorthbound ----------------------------
(* Two switches with one port each.  The database is empty, or has two     *)
(* located hosts with a virtual IP.  The networks tried overlap: 0/29 has  *)
(* the addresses 1 to 6, 0/30 has 1 and 2, 4/30 has 5 and 6.               *)
EXTENDS Northbound

CONSTANTS s1, s2, m1, m2

MCPort == [s \in Switch |-> {1}]

Net(address, mask) == [address |-> address, mask |-> mask]
MCNetworkParam == {Net(0, 29), Net(0, 30), Net(4, 30)}

MCHostParam == {<<1, m1>>, <<2, m2>>}
MCVIPParam == {1, 3}

Host(ip, mac, s) == [ip |-> ip, mac |-> mac, port |-> <<s, 1>>]

EmptyDatabase ==
    [switch |-> {}, network |-> {}, used |-> [a \in {} |-> FALSE],
     host |-> [h \in {} |-> <<>>], vip |-> [v \in {} |-> <<>>], nextID |-> 1]
OneVIP ==
    [switch |-> {s1, s2}, network |-> {Net(0, 29)}, used |-> [a \in 1..6 |-> a \in 1..3],
     host |-> (1 :> Host(1, m1, s1)) @@ (2 :> Host(2, m2, s2)),
     vip |-> 3 :> [ip |-> 3, active |-> 1, standby |-> 2], nextID |-> 4]
MCStart == {EmptyDatabase, OneVIP}
=============================================================================
