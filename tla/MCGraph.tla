------------------------------ MODULE MCGraph -------------------------------
(***************************************************************************)
(* Bounded instance of Graph: three switches in a ring of three links, two *)
(* of which share port <<a, 1>> (its neighbour changed, or there are       *)
(* several switches behind an unmanaged one), and a port looped to itself. *)
(***************************************************************************)
EXTENDS Graph

CONSTANTS a, b, c

MCEdge == { {<<a, 1>>, <<b, 1>>}, {<<b, 2>>, <<c, 1>>}, {<<a, 1>>, <<c, 2>>},
            {<<c, 3>>, <<c, 3>>} }
=============================================================================
