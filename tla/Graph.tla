------------------------------- MODULE Graph --------------------------------
(***************************************************************************)
(* graph.Graph (graph/graph.go): the switches, the links between them and  *)
(* the spanning tree, as the controller's topology uses it.  Every method  *)
(* holds the graph's mutex from its first to its last line, so each is one *)
(* action.                                                                 *)
(*                                                                         *)
(* Where the inputs come from: AddVertex and RemoveVertex are called when  *)
(* a switch connects or disconnects, AddEdge for every LLDP packet that a  *)
(* switch reports, RemoveEdge when a port goes down, RemoveStaleEdges by   *)
(* the timer of topology.staleEdgeRemover.                                 *)
(***************************************************************************)
EXTENDS Integers, FiniteSets, Forest

CONSTANTS
    Vertex,      \* device IDs
    Port,        \* port numbers
    Edge,        \* the links that LLDP packets may report
    Expiration   \* age, in clock ticks, at which a link is stale

ASSUME VertexFinite == IsFiniteSet(Vertex)
ASSUME EdgeJoinsPoints == Edge \subseteq EdgesOver(Vertex \X Port)
ASSUME ExpirationPos == Expiration \in Nat \ {0}

Point == Vertex \X Port

VARIABLES
    vertexies,  \* Graph.vertexies: the edges map of each vertex present
    edges,      \* Graph.edges: the keys
    enabled,    \* the edges whose flag `enabled` is set
    points,     \* Graph.points: point -> edge, a partial function
    age,        \* ticks since edge.timestamp, at most Expiration
    announced   \* environment: links whose LLDP packets (still) arrive

vars == <<vertexies, edges, enabled, points, age, announced>>

Init ==
    /\ vertexies = [v \in {} |-> {}]
    /\ edges = {}
    /\ enabled = {}
    /\ points = [p \in {} |-> {}]
    /\ age = [e \in {} |-> 0]
    /\ announced = {}

-----------------------------------------------------------------------------
\* calculateMST.  Module MST shows that Kruskal's loop ends with a spanning
\* forest of minimum weight enabled; all links weigh the same (link.Weight),
\* so it may be any spanning forest.  The flags stay as they are when there
\* are no edges or no vertices.
calculateMST(V, E) ==
    IF E = {} \/ V = {}
    THEN enabled' = enabled \cap E
    ELSE \E F \in SUBSET E : SpanningForest(V, E, F) /\ enabled' = F

\* Mutant of WithoutPoints: the points of removed edges stay.
WithoutPoints_Kept(D) == points

\* The graph after the private removeEdge has been called for each edge of D:
\* out of both vertices, out of the edges, and whatever the two points map to
\* out of the points.
WithoutVertexEdges(D) == [v \in DOMAIN vertexies |-> vertexies[v] \ D]
WithoutPoints(D) == [p \in DOMAIN points \ UNION D |-> points[p]]
removeEdges(D) ==
    /\ edges' = edges \ D
    /\ points' = WithoutPoints(D)
    /\ age' = [e \in edges \ D |-> age[e]]

AddVertex(v) ==
    /\ v \notin DOMAIN vertexies
    /\ vertexies' = [u \in DOMAIN vertexies \cup {v} |->
                        IF u = v THEN {} ELSE vertexies[u]]
    /\ calculateMST(DOMAIN vertexies \cup {v}, edges)
    /\ UNCHANGED <<edges, points, age, announced>>

\* Mutant of RemoveVertex: the links of the vertex stay.
RemoveVertex_KeepsLinks(v) ==
    /\ v \in DOMAIN vertexies
    /\ vertexies' = [u \in DOMAIN vertexies \ {v} |-> vertexies[u]]
    /\ calculateMST(DOMAIN vertexies \ {v}, {e \in edges : v \notin Ends(e)})
    /\ UNCHANGED <<edges, points, age, announced>>

RemoveVertex(v) ==
    /\ v \in DOMAIN vertexies
    /\ LET D == vertexies[v]
           V == DOMAIN vertexies \ {v}
       IN  /\ removeEdges(D)
           /\ vertexies' = [u \in V |-> WithoutVertexEdges(D)[u]]
           /\ calculateMST(V, edges \ D)
    /\ UNCHANGED announced

\* Mutant of RefreshEdge: the tree is computed anew.
RefreshEdge_Recalculates(e) ==
    /\ e \in announced
    /\ e \in edges
    /\ age' = [age EXCEPT ![e] = 0]
    /\ calculateMST(DOMAIN vertexies, edges)
    /\ UNCHANGED <<vertexies, edges, points, announced>>

\* AddEdge of a link that is known: the timestamp only.
RefreshEdge(e) ==
    /\ e \in announced
    /\ e \in edges
    /\ age' = [age EXCEPT ![e] = 0]
    /\ UNCHANGED <<vertexies, edges, enabled, points, announced>>

\* AddEdge of a new link: both its points are pointed to it, whatever they
\* were pointing to.  A link to a device that is not registered is refused.
AddEdge(e) ==
    /\ e \in announced
    /\ e \notin edges
    /\ Ends(e) \subseteq DOMAIN vertexies
    /\ edges' = edges \cup {e}
    /\ vertexies' = [v \in DOMAIN vertexies |->
                        IF v \in Ends(e) THEN vertexies[v] \cup {e} ELSE vertexies[v]]
    /\ points' = [p \in DOMAIN points \cup e |-> IF p \in e THEN e ELSE points[p]]
    /\ age' = [f \in edges \cup {e} |-> IF f = e THEN 0 ELSE age[f]]
    /\ calculateMST(DOMAIN vertexies, edges \cup {e})
    /\ UNCHANGED announced

\* Mutant of RemoveEdge: the tree is not computed anew.
RemoveEdge_NoTree(p) ==
    /\ p \in DOMAIN points
    /\ LET D == {points[p]}
       IN  /\ removeEdges(D)
           /\ vertexies' = WithoutVertexEdges(D)
           /\ enabled' = enabled \ D
    /\ UNCHANGED announced

\* RemoveEdge(p) of a point on no edge returns at once, hence the guard.
RemoveEdge(p) ==
    /\ p \in DOMAIN points
    /\ LET D == {points[p]}
       IN  /\ removeEdges(D)
           /\ vertexies' = WithoutVertexEdges(D)
           /\ calculateMST(DOMAIN vertexies, edges \ D)
    /\ UNCHANGED announced

\* Mutant of Stale: only links of the tree expire.
Stale_TreeOnly == {e \in enabled : age[e] >= Expiration}

Stale == {e \in edges : age[e] >= Expiration}

RemoveStaleEdges ==
    /\ Stale # {}
    /\ removeEdges(Stale)
    /\ vertexies' = WithoutVertexEdges(Stale)
    /\ calculateMST(DOMAIN vertexies, edges \ Stale)
    /\ UNCHANGED announced

IsEdge(p) == p \in DOMAIN points

IsEnabledPoint(p) == p \in DOMAIN points /\ points[p] \in enabled

-----------------------------------------------------------------------------
(* Environment: time, and cables that are plugged and unplugged.           *)

Tick ==
    /\ \E e \in edges : age[e] < Expiration
    /\ age' = [e \in edges |-> IF age[e] < Expiration THEN age[e] + 1 ELSE age[e]]
    /\ UNCHANGED <<vertexies, edges, enabled, points, announced>>

Plug(e) ==
    /\ e \notin announced
    /\ announced' = announced \cup {e}
    /\ UNCHANGED <<vertexies, edges, enabled, points, age>>

Unplug(e) ==
    /\ e \in announced
    /\ announced' = announced \ {e}
    /\ UNCHANGED <<vertexies, edges, enabled, points, age>>

Next ==
    \/ \E v \in Vertex : AddVertex(v) \/ RemoveVertex(v)
    \/ \E e \in Edge : RefreshEdge(e) \/ AddEdge(e)
    \/ \E p \in Point : RemoveEdge(p)
    \/ RemoveStaleEdges
    \/ Tick
    \/ \E e \in Edge : Plug(e) \/ Unplug(e)

\* Time passes and staleEdgeRemover is a ticker loop that never ends.  No
\* fairness for switches, ports, cables or LLDP packets.
Fairness == WF_vars(Tick) /\ WF_vars(RemoveStaleEdges)

Spec == Init /\ [][Next]_vars /\ Fairness

-----------------------------------------------------------------------------
(* Properties *)

TypeOK ==
    /\ DOMAIN vertexies \in SUBSET Vertex
    /\ vertexies \in [DOMAIN vertexies -> SUBSET Edge]
    /\ edges \in SUBSET Edge
    /\ enabled \in SUBSET edges
    /\ DOMAIN points \in SUBSET Point
    /\ points \in [DOMAIN points -> Edge]
    /\ age \in [edges -> 0..Expiration]
    /\ announced \in SUBSET Edge

\* calculateMST never meets "invalid edge pointing an unknown vertex", its
\* panic: removing a vertex takes all its links along, in any sequence of calls.
KnownEnds == \A e \in edges : Ends(e) \subseteq DOMAIN vertexies

\* The per-vertex edge maps, which FindPath and RemoveVertex go by, agree
\* with the edges of the graph.
VertexEdgesAgree ==
    \A v \in DOMAIN vertexies : vertexies[v] = {e \in edges : v \in Ends(e)}

\* points never leads to a link that is gone, so IsEdge and IsEnabledPoint
\* never answer from a removed edge, and RemoveEdge(p) removes a link at p.
PointsLive == \A p \in DOMAIN points : points[p] \in edges /\ p \in points[p]

\* After every operation the enabled links are loop free and connect all that
\* is connected: broadcasts reach every switch and cannot circle.
TreeUpToDate == SpanningForest(DOMAIN vertexies, edges, enabled)

\* The tree is only recomputed (and, as equal links are picked at random,
\* possibly moved) when a switch or a link came or went: LLDP refreshes and
\* refused links leave it alone, and so the flows that rely on it.
TreeStable ==
    [][enabled' # enabled => edges' # edges \/ DOMAIN vertexies' # DOMAIN vertexies]_vars

\* A link that is unplugged for good is forgotten, even if no port-down
\* event ever told so.
DeadLinksForgotten == \A e \in Edge : <>[](e \notin announced) => <>[](e \notin edges)

\* "IsEdge returns whether p is on an edge between two vertexeis" (graph.go):
\* also when p was on another link before, which expires after p was seen on
\* its new one.
IsEdgeAsDocumented == \A p \in Point : IsEdge(p) <=> \E e \in edges : p \in e
=============================================================================
