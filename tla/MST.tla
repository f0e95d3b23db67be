-------------------------------- MODULE MST ---------------------------------
(***************************************************************************)
(* Graph.calculateMST of graph/graph.go, one step per iteration of its     *)
(* loop.  The caller holds the graph's write lock, so nothing else touches *)
(* the graph meanwhile; the inputs are the vertices and edges found then.  *)
(*                                                                         *)
(* The edges are sorted by weight, out of a Go map whose order is random   *)
(* and with an unstable sort: the next edge popped is ANY remaining edge   *)
(* of minimum weight.                                                      *)
(***************************************************************************)
EXTENDS Integers, FiniteSets, Forest

CONSTANTS
    Vertex,     \* identifiers of vertices
    Port,       \* port numbers
    Edge,       \* the edges that may appear
    Weight      \* Edge.Weight(): a function on edges

ASSUME VertexFinite == IsFiniteSet(Vertex)
ASSUME EdgeJoinsPoints == Edge \subseteq EdgesOver(Vertex \X Port)
ASSUME WeightNat == Weight \in [Edge -> Nat]

VARIABLES
    vertexies,  \* Graph.vertexies (its keys), an input
    edges,      \* Graph.edges (its keys), an input
    enabled,    \* the edges whose flag `enabled` is set
    queue,      \* the local list `edges` of calculateMST
    clusters,   \* the local map `clusters`, from a vertex to its cluster
    count,      \* the local counter `count`
    pc          \* where calculateMST is

vars == <<vertexies, edges, enabled, queue, clusters, count, pc>>

inputs == <<vertexies, edges>>

\* Every edge joins vertices of the graph: calculateMST panics otherwise.
\* That the callers establish it is checked in module Graph (KnownEnds).
KnownInput == \A e \in edges : Ends(e) \subseteq vertexies

\* The flags left by an earlier computation are arbitrary.
Init ==
    /\ vertexies \in SUBSET Vertex
    /\ edges \in SUBSET Edge
    /\ KnownInput
    /\ enabled \in SUBSET edges
    /\ queue = {}
    /\ clusters = [v \in vertexies |-> {v}]
    /\ count = 0
    /\ pc = "start"

-----------------------------------------------------------------------------
\* Nothing to do without edges or without vertices.
EarlyReturn ==
    /\ pc = "start"
    /\ edges = {} \/ vertexies = {}
    /\ pc' = "done"
    /\ UNCHANGED <<inputs, enabled, queue, clusters, count>>

\* Mutant of Reset: resetEdges is forgotten.
Reset_KeepsFlags ==
    /\ pc = "start"
    /\ edges # {} /\ vertexies # {}
    /\ queue' = edges
    /\ clusters' = [v \in vertexies |-> {v}]
    /\ count' = 0
    /\ pc' = "loop"
    /\ UNCHANGED <<inputs, enabled>>

\* resetEdges and makeClusters.
Reset ==
    /\ pc = "start"
    /\ edges # {} /\ vertexies # {}
    /\ enabled' = {}
    /\ queue' = edges
    /\ clusters' = [v \in vertexies |-> {v}]
    /\ count' = 0
    /\ pc' = "loop"
    /\ UNCHANGED inputs

LoopGuard == count < Cardinality(vertexies) - 1

\* Mutant of IsFront: the edges are not sorted.
IsFront_Unsorted(e) == e \in queue

\* edges.Front() after the sort.
IsFront(e) == e \in queue /\ \A f \in queue : Weight[e] <= Weight[f]

\* The cluster of a vertex holds both ends of e.
SameCluster(e) == \A u, v \in Ends(e) : clusters[u] = clusters[v]

\* "Prevent a loop": the edge is popped and dropped.
Skip(e) ==
    /\ pc = "loop" /\ LoopGuard
    /\ IsFront(e)
    /\ SameCluster(e)
    /\ queue' = queue \ {e}
    /\ UNCHANGED <<inputs, enabled, clusters, count, pc>>

\* mergeCluster: every member of either cluster points to the merged one.
Merged(e) ==
    LET both == UNION {clusters[v] : v \in Ends(e)}
    IN  [v \in vertexies |-> IF v \in both THEN both ELSE clusters[v]]

\* "Found new edge to be included in MST".
Take(e) ==
    /\ pc = "loop" /\ LoopGuard
    /\ IsFront(e)
    /\ ~SameCluster(e)
    /\ queue' = queue \ {e}
    /\ clusters' = Merged(e)
    /\ enabled' = enabled \cup {e}
    /\ count' = count + 1
    /\ UNCHANGED <<inputs, pc>>

\* Mutant of Finish: the break on an empty list is missing.
Finish_NoBreak ==
    /\ pc = "loop"
    /\ ~LoopGuard
    /\ pc' = "done"
    /\ UNCHANGED <<inputs, enabled, queue, clusters, count>>

\* The loop ends on its condition or on the break.
Finish ==
    /\ pc = "loop"
    /\ ~LoopGuard \/ queue = {}
    /\ pc' = "done"
    /\ UNCHANGED <<inputs, enabled, queue, clusters, count>>

Next ==
    \/ EarlyReturn
    \/ Reset
    \/ \E e \in edges : Skip(e) \/ Take(e)
    \/ Finish

\* The loop is straight sequential code: it keeps taking steps.
Spec == Init /\ [][Next]_vars /\ WF_vars(Next)

-----------------------------------------------------------------------------
(* Properties *)

TypeOK ==
    /\ vertexies \in SUBSET Vertex
    /\ edges \in SUBSET Edge
    /\ KnownInput
    /\ enabled \in SUBSET edges
    /\ queue \in SUBSET edges
    /\ clusters \in [vertexies -> SUBSET vertexies]
    /\ count \in Nat
    /\ pc \in {"start", "loop", "done"}

\* What calculateMST is for: when it returns, the enabled edges form a
\* spanning forest of the graph - no loop a broadcast could circle in, and
\* everything that is physically connected stays connected.
SpanningForestWhenDone ==
    pc = "done" => SpanningForest(vertexies, edges, enabled)

\* The forest is a minimum one: the ends of every edge left out are already
\* joined by enabled edges that weigh no more than it does.
MinimumWhenDone ==
    pc = "done" =>
        \A e \in edges \ enabled :
            \A S \in SUBSET vertexies :
                Closed(S, {f \in enabled : Weight[f] <= Weight[e]}) => Closed(S, {e})

\* The loop may stop early, at count = len(vertexies) - 1, because the
\* counter tells the number of clusters that remain.
CountsClusters ==
    pc = "loop" =>
        Cardinality({clusters[v] : v \in vertexies}) = Cardinality(vertexies) - count
=============================================================================
