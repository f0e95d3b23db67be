------------------------------- MODULE Forest -------------------------------
(***************************************************************************)
(* Reference definitions about undirected multigraphs, used to say what    *)
(* the spanning-tree code of graph/graph.go has to compute.                *)
(*                                                                         *)
(* A point is a pair <<vertex, port>> and an edge is the set of its two    *)
(* points: link.ID() of network/link.go sorts the two port IDs, so a link  *)
(* is identified by the unordered pair of its ports.  A port that is       *)
(* looped back to itself gives an edge with a single point.                *)
(*                                                                         *)
(* Connectivity is expressed with vertex sets that no edge crosses, which  *)
(* needs neither recursion nor paths.                                      *)
(***************************************************************************)

\* The vertices an edge touches: Points()[i].Vertex() of graph.Edge.
Ends(e) == {p[1] : p \in e}

\* Every edge that can join two points of P.
EdgesOver(P) == {{p, q} : p \in P, q \in P}

\* No edge of F leads out of S.
Closed(S, F) == \A e \in F : Ends(e) \subseteq S \/ Ends(e) \cap S = {}

\* S separates the ends of e.
Separates(S, e) == Ends(e) \cap S # {} /\ ~(Ends(e) \subseteq S)

\* No edge of F lies on a cycle: without it, its ends fall apart.
Acyclic(V, F) ==
    \A e \in F : \E S \in SUBSET V : Closed(S, F \ {e}) /\ Separates(S, e)

\* F connects whatever E connects.
Spanning(V, E, F) == \A S \in SUBSET V : Closed(S, F) => Closed(S, E)

SpanningForest(V, E, F) == F \subseteq E /\ Acyclic(V, F) /\ Spanning(V, E, F)

\* u and v are in the same component of (V, F).
Connected(u, v, V, F) == \A S \in SUBSET V : Closed(S, F) /\ u \in S => v \in S
=============================================================================
