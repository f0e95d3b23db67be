---------------------------- MODULE MCForwarding ----------------------------
(* Two switches with a port for the host (1) and a port for the link (2).  *)
EXTENDS Forwarding

CONSTANTS d1, d2

MCDevice == {d1, d2}
MCPort == {1, 2}
MCHostEnd == {<<d1, 1>>, <<d1, 2>>, <<d2, 1>>}
MCLink == {{<<d1, 2>>, <<d2, 2>>}}
MCHop == [ls \in SUBSET MCLink |-> [p \in MCDevice \X MCDevice |-> IF p[1] # p[2] /\ ls # {} THEN 2 ELSE NoPort]]
=============================================================================
