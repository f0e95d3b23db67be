---------------------------- MODULE Graph_proofs ----------------------------
(***************************************************************************)
(* Proofs about the graph of switches and links, for any number of         *)
(* switches, ports and links and any sequence of calls.                    *)
(***************************************************************************)
EXTENDS Graph, TLAPS

\* The inductive invariant.  TreeUpToDate needs KnownEnds (calculateMST stops
\* early when there are no vertices), KnownEnds needs VertexEdgesAgree (the
\* links RemoveVertex takes along are those in the vertex's own map).
IInv ==
    /\ TypeOK
    /\ KnownEnds
    /\ VertexEdgesAgree
    /\ PointsLive
    /\ TreeUpToDate

-----------------------------------------------------------------------------
(* Lemmas *)

\* Every link touches a switch.
LEMMA EdgeNonempty == \A e \in Edge : e # {} /\ e \subseteq Point /\ Ends(e) # {}
<1> SUFFICES ASSUME NEW e \in Edge PROVE e # {} /\ e \subseteq Point /\ Ends(e) # {}
  OBVIOUS
<1>1. PICK p \in Vertex \X Port, q \in Vertex \X Port : e = {p, q}
  BY EdgeJoinsPoints DEF EdgesOver
<1>2. p[1] \in Ends(e)
  BY <1>1 DEF Ends
<1> QED BY <1>1, <1>2 DEF Point

\* calculateMST leaves a spanning forest of the graph it is called on, also
\* when it returns early.
LEMMA CalculateMST ==
    ASSUME NEW V, NEW E \in SUBSET Edge, TypeOK,
           \A e \in E : Ends(e) \subseteq V,
           calculateMST(V, E)
    PROVE  enabled' \in SUBSET E /\ SpanningForest(V, E, enabled')
<1>1. CASE E = {} \/ V = {}
  <2>1. E = {}
    BY <1>1, EdgeNonempty
  <2>2. enabled' = {}
    BY <2>1 DEF calculateMST
  <2> QED BY <2>1, <2>2 DEF SpanningForest, Acyclic, Spanning, Closed
<1>2. CASE ~(E = {} \/ V = {})
  BY <1>2 DEF calculateMST
<1> QED BY <1>1, <1>2

\* Taking a set of links out, through removeEdge, keeps the maps consistent.
LEMMA RemoveEdges ==
    ASSUME IInv, NEW D \in SUBSET edges, removeEdges(D)
    PROVE  /\ edges' = edges \ D /\ edges' \in SUBSET Edge
           /\ DOMAIN points' \in SUBSET Point
           /\ points' \in [DOMAIN points' -> Edge]
           /\ age' \in [edges' -> 0..Expiration]
           /\ PointsLive'
<1> USE DEF removeEdges, IInv, TypeOK
<1>1. edges' = edges \ D /\ edges' \in SUBSET Edge
  OBVIOUS
<1>2. age' \in [edges' -> 0..Expiration]
  OBVIOUS
<1>3. DOMAIN points' = DOMAIN points \ UNION D
  BY DEF WithoutPoints
<1>4. \A p \in DOMAIN points' : points'[p] = points[p]
  BY DEF WithoutPoints
<1>5. points' \in [DOMAIN points' -> Edge]
  BY <1>3, <1>4 DEF WithoutPoints
<1>6. PointsLive'
  <2> SUFFICES ASSUME NEW p \in DOMAIN points'
               PROVE  points'[p] \in edges' /\ p \in points'[p]
    BY DEF PointsLive
  <2>1. points[p] \in edges /\ p \in points[p]
    BY <1>3 DEF PointsLive
  <2>2. points[p] \notin D
    BY <1>3, <2>1
  <2> QED BY <1>1, <1>4, <2>1, <2>2
<1> QED BY <1>1, <1>2, <1>3, <1>5, <1>6

-----------------------------------------------------------------------------
(* One lemma per operation *)

\* AddVertex keeps the invariant.
LEMMA AddVertexInv == ASSUME IInv, NEW v \in Vertex, AddVertex(v) PROVE IInv'
<1> DEFINE V == DOMAIN vertexies \cup {v}
<1>1. DOMAIN vertexies' = V /\ \A u \in V : vertexies'[u] = IF u = v THEN {} ELSE vertexies[u]
  BY DEF AddVertex
<1>2. UNCHANGED <<edges, points, age, announced>> /\ calculateMST(V, edges) /\ v \notin DOMAIN vertexies
  BY DEF AddVertex
<1>3. KnownEnds'
  BY <1>1, <1>2 DEF IInv, KnownEnds
<1>4. enabled' \in SUBSET edges' /\ TreeUpToDate'
  <2>1. \A e \in edges : Ends(e) \subseteq V
    BY DEF IInv, KnownEnds
  <2>2. enabled' \in SUBSET edges /\ SpanningForest(V, edges, enabled')
    BY <1>2, <2>1, CalculateMST DEF IInv, TypeOK
  <2> QED BY <1>1, <1>2, <2>2 DEF TreeUpToDate
<1>5. vertexies' \in [DOMAIN vertexies' -> SUBSET Edge]
  BY <1>1 DEF AddVertex, IInv, TypeOK
<1>6. TypeOK'
  BY <1>1, <1>2, <1>4, <1>5 DEF IInv, TypeOK
<1>7. VertexEdgesAgree'
  BY <1>1, <1>2 DEF IInv, VertexEdgesAgree, KnownEnds
<1>8. PointsLive'
  BY <1>2 DEF IInv, PointsLive
<1> QED BY <1>3, <1>4, <1>6, <1>7, <1>8 DEF IInv

\* RemoveVertex keeps it: the vertex's own map holds all of its links.
LEMMA RemoveVertexInv == ASSUME IInv, NEW v \in Vertex, RemoveVertex(v) PROVE IInv'
<1> DEFINE V == DOMAIN vertexies \ {v}
<1> DEFINE D == vertexies[v]
<1>1. /\ v \in DOMAIN vertexies /\ removeEdges(D) /\ calculateMST(V, edges \ D)
      /\ vertexies' = [u \in V |-> WithoutVertexEdges(D)[u]] /\ UNCHANGED announced
  BY DEF RemoveVertex
<1>2. DOMAIN vertexies' = V /\ \A u \in V : vertexies'[u] = vertexies[u] \ D
  BY <1>1 DEF WithoutVertexEdges
<1>3. D = {e \in edges : v \in Ends(e)}
  BY <1>1 DEF IInv, VertexEdgesAgree
<1>4. /\ edges' = edges \ D /\ edges' \in SUBSET Edge
      /\ DOMAIN points' \in SUBSET Point /\ points' \in [DOMAIN points' -> Edge]
      /\ age' \in [edges' -> 0..Expiration] /\ PointsLive'
  <2>1. D \in SUBSET edges
    BY <1>3
  <2> HIDE DEF D
  <2> QED BY <1>1, <2>1, RemoveEdges
<1>5. \A e \in edges \ D : Ends(e) \subseteq V
  BY <1>3 DEF IInv, KnownEnds
<1>6. enabled' \in SUBSET edges' /\ TreeUpToDate'
  <2>1. enabled' \in SUBSET (edges \ D) /\ SpanningForest(V, edges \ D, enabled')
    <3>1. edges \ D \in SUBSET Edge
      BY DEF IInv, TypeOK
    <3> HIDE DEF D, V
    <3> QED BY <1>1, <1>5, <3>1, CalculateMST DEF IInv
  <2> QED BY <1>2, <1>4, <2>1 DEF TreeUpToDate
<1>7. vertexies' \in [DOMAIN vertexies' -> SUBSET Edge]
  BY <1>1, <1>2 DEF IInv, TypeOK
<1>8. TypeOK'
  BY <1>1, <1>2, <1>4, <1>6, <1>7 DEF IInv, TypeOK
<1>9. KnownEnds'
  BY <1>2, <1>4, <1>5 DEF KnownEnds
<1>10. VertexEdgesAgree'
  <2> SUFFICES ASSUME NEW u \in V PROVE vertexies'[u] = {e \in edges' : u \in Ends(e)}
    BY <1>2 DEF VertexEdgesAgree
  <2>1. vertexies[u] = {e \in edges : u \in Ends(e)}
    BY DEF IInv, VertexEdgesAgree
  <2> QED BY <1>2, <1>4, <2>1
<1> QED BY <1>4, <1>6, <1>8, <1>9, <1>10 DEF IInv

\* AddEdge keeps it: both vertices learn of the link.
LEMMA AddEdgeInv == ASSUME IInv, NEW e \in Edge, AddEdge(e) PROVE IInv'
<1> DEFINE V == DOMAIN vertexies
<1>1. /\ e \notin edges /\ Ends(e) \subseteq V /\ edges' = edges \cup {e}
      /\ calculateMST(V, edges \cup {e}) /\ UNCHANGED announced
  BY DEF AddEdge
<1>2. DOMAIN vertexies' = V
  BY DEF AddEdge
<1>3. \A v \in V : vertexies'[v] = IF v \in Ends(e) THEN vertexies[v] \cup {e} ELSE vertexies[v]
  BY DEF AddEdge
<1>4. \A f \in edges' : Ends(f) \subseteq V
  BY <1>1 DEF IInv, KnownEnds
<1>5. enabled' \in SUBSET edges' /\ TreeUpToDate'
  <2>1. edges' \in SUBSET Edge
    BY <1>1 DEF IInv, TypeOK
  <2>2. enabled' \in SUBSET (edges \cup {e}) /\ SpanningForest(V, edges \cup {e}, enabled')
    <3> HIDE DEF V
    <3> QED BY <1>1, <1>4, <2>1, CalculateMST DEF IInv
  <2> QED BY <1>1, <1>2, <2>2 DEF TreeUpToDate
<1>6. DOMAIN points' = DOMAIN points \cup e
  BY DEF AddEdge
<1>7. \A p \in DOMAIN points' : points'[p] = IF p \in e THEN e ELSE points[p]
  BY DEF AddEdge
<1>8. PointsLive'
  <2> SUFFICES ASSUME NEW p \in DOMAIN points'
               PROVE  points'[p] \in edges' /\ p \in points'[p]
    BY DEF PointsLive
  <2>1. CASE p \in e
    BY <1>1, <1>7, <2>1
  <2>2. CASE p \notin e
    <3>1. points[p] \in edges /\ p \in points[p]
      BY <1>6, <2>2 DEF IInv, PointsLive
    <3> QED BY <1>1, <1>7, <2>2, <3>1
  <2> QED BY <2>1, <2>2
<1>9. TypeOK'
  <2>1. vertexies' \in [DOMAIN vertexies' -> SUBSET Edge]
    BY DEF AddEdge, IInv, TypeOK
  <2>2. points' \in [DOMAIN points' -> Edge] /\ DOMAIN points' \in SUBSET Point
    BY <1>6, EdgeNonempty DEF AddEdge, IInv, TypeOK
  <2>3. age' \in [edges' -> 0..Expiration]
    BY ExpirationPos DEF AddEdge, IInv, TypeOK
  <2> QED BY <1>1, <1>2, <1>5, <2>1, <2>2, <2>3 DEF IInv, TypeOK
<1>10. KnownEnds'
  BY <1>2, <1>4 DEF KnownEnds
<1>11. VertexEdgesAgree'
  <2> SUFFICES ASSUME NEW u \in V PROVE vertexies'[u] = {f \in edges' : u \in Ends(f)}
    BY <1>2 DEF VertexEdgesAgree
  <2>1. vertexies[u] = {f \in edges : u \in Ends(f)}
    BY DEF IInv, VertexEdgesAgree
  <2> QED BY <1>1, <1>3, <2>1
<1> QED BY <1>5, <1>8, <1>9, <1>10, <1>11 DEF IInv

\* Taking links out without a vertex keeps it (RemoveEdge, RemoveStaleEdges).
LEMMA CutLinksInv ==
    ASSUME IInv, NEW D \in SUBSET edges, removeEdges(D),
           vertexies' = WithoutVertexEdges(D),
           calculateMST(DOMAIN vertexies, edges \ D), UNCHANGED announced
    PROVE  IInv'
<1> DEFINE V == DOMAIN vertexies
<1>1. DOMAIN vertexies' = V /\ \A u \in V : vertexies'[u] = vertexies[u] \ D
  BY DEF WithoutVertexEdges
<1>2. /\ edges' = edges \ D /\ edges' \in SUBSET Edge
      /\ DOMAIN points' \in SUBSET Point /\ points' \in [DOMAIN points' -> Edge]
      /\ age' \in [edges' -> 0..Expiration] /\ PointsLive'
  BY RemoveEdges
<1>3. \A e \in edges \ D : Ends(e) \subseteq V
  BY DEF IInv, KnownEnds
<1>4. enabled' \in SUBSET edges' /\ TreeUpToDate'
  <2>1. enabled' \in SUBSET (edges \ D) /\ SpanningForest(V, edges \ D, enabled')
    <3>1. edges \ D \in SUBSET Edge
      BY DEF IInv, TypeOK
    <3> QED BY <1>3, <3>1, CalculateMST DEF IInv
  <2> QED BY <1>1, <1>2, <2>1 DEF TreeUpToDate
<1>5. vertexies' \in [DOMAIN vertexies' -> SUBSET Edge]
  BY <1>1 DEF WithoutVertexEdges, IInv, TypeOK
<1>6. TypeOK'
  BY <1>1, <1>2, <1>4, <1>5 DEF IInv, TypeOK
<1>7. KnownEnds'
  BY <1>1, <1>2, <1>3 DEF KnownEnds
<1>8. VertexEdgesAgree'
  <2> SUFFICES ASSUME NEW u \in V PROVE vertexies'[u] = {e \in edges' : u \in Ends(e)}
    BY <1>1 DEF VertexEdgesAgree
  <2>1. vertexies[u] = {e \in edges : u \in Ends(e)}
    BY DEF IInv, VertexEdgesAgree
  <2> QED BY <1>1, <1>2, <2>1
<1> QED BY <1>2, <1>4, <1>6, <1>7, <1>8 DEF IInv

\* RemoveEdge keeps it.
LEMMA RemoveEdgeInv == ASSUME IInv, NEW p \in Point, RemoveEdge(p) PROVE IInv'
<1>1. {points[p]} \in SUBSET edges
  BY DEF RemoveEdge, IInv, PointsLive
<1> QED BY <1>1, CutLinksInv DEF RemoveEdge

\* RemoveStaleEdges keeps it.
LEMMA RemoveStaleEdgesInv == ASSUME IInv, RemoveStaleEdges PROVE IInv'
<1>1. Stale \in SUBSET edges
  BY DEF Stale
<1> QED BY <1>1, CutLinksInv DEF RemoveStaleEdges

\* Steps that leave vertices, links, tree and points alone.
LEMMA QuietInv ==
    ASSUME IInv, UNCHANGED <<vertexies, edges, enabled, points>>,
           age' \in [edges -> 0..Expiration], announced' \in SUBSET Edge
    PROVE  IInv'
BY DEF IInv, TypeOK, KnownEnds, VertexEdgesAgree, PointsLive, TreeUpToDate

-----------------------------------------------------------------------------
\* The invariant is inductive.
LEMMA InductiveInvariant == Spec => []IInv
<1>1. Init => IInv
  BY DEF Init, IInv, TypeOK, KnownEnds, VertexEdgesAgree, PointsLive, TreeUpToDate,
         SpanningForest, Acyclic, Spanning, Closed
<1>2. IInv /\ [Next]_vars => IInv'
  <2> SUFFICES ASSUME IInv, [Next]_vars PROVE IInv'
    OBVIOUS
  <2>1. ASSUME NEW v \in Vertex, AddVertex(v) PROVE IInv'
    BY <2>1, AddVertexInv
  <2>2. ASSUME NEW v \in Vertex, RemoveVertex(v) PROVE IInv'
    BY <2>2, RemoveVertexInv
  <2>3. ASSUME NEW e \in Edge, RefreshEdge(e) PROVE IInv'
    BY <2>3, QuietInv, ExpirationPos DEF RefreshEdge, IInv, TypeOK
  <2>4. ASSUME NEW e \in Edge, AddEdge(e) PROVE IInv'
    BY <2>4, AddEdgeInv
  <2>5. ASSUME NEW p \in Point, RemoveEdge(p) PROVE IInv'
    BY <2>5, RemoveEdgeInv
  <2>6. CASE RemoveStaleEdges
    BY <2>6, RemoveStaleEdgesInv
  <2>7. CASE Tick
    <3>1. age' \in [edges -> 0..Expiration]
      BY <2>7, ExpirationPos DEF Tick, IInv, TypeOK
    <3> QED BY <2>7, <3>1, QuietInv DEF Tick, IInv, TypeOK
  <2>8. ASSUME NEW e \in Edge, Plug(e) PROVE IInv'
    BY <2>8, QuietInv DEF Plug, IInv, TypeOK
  <2>9. ASSUME NEW e \in Edge, Unplug(e) PROVE IInv'
    BY <2>9, QuietInv DEF Unplug, IInv, TypeOK
  <2>10. CASE UNCHANGED vars
    BY <2>10, QuietInv DEF vars, IInv, TypeOK
  <2> QED BY <2>1, <2>2, <2>3, <2>4, <2>5, <2>6, <2>7, <2>8, <2>9, <2>10 DEF Next
<1> QED BY <1>1, <1>2, PTL DEF Spec

\* The graph is well typed.
THEOREM TypeCorrect == Spec => []TypeOK
<1>1. IInv => TypeOK
  BY DEF IInv
<1> QED BY <1>1, InductiveInvariant, PTL

\* calculateMST never panics on "invalid edge pointing an unknown vertex".
THEOREM NeverUnknownVertex == Spec => []KnownEnds
<1>1. IInv => KnownEnds
  BY DEF IInv
<1> QED BY <1>1, InductiveInvariant, PTL

\* No operation leaves the tree behind: the enabled links are a spanning
\* forest of the links known, after every call of the graph's methods.
THEOREM TreeAlwaysUpToDate == Spec => []TreeUpToDate
<1>1. IInv => TreeUpToDate
  BY DEF IInv
<1> QED BY <1>1, InductiveInvariant, PTL

\* points never leads to a removed link.
THEOREM PointsAlwaysLive == Spec => []PointsLive
<1>1. IInv => PointsLive
  BY DEF IInv
<1> QED BY <1>1, InductiveInvariant, PTL

-----------------------------------------------------------------------------
\* The tree is recomputed only when a switch or a link came or went.
THEOREM TreeOnlyMovesOnChange == Spec => TreeStable
<1>1. IInv /\ [Next]_vars =>
        [enabled' # enabled => edges' # edges \/ DOMAIN vertexies' # DOMAIN vertexies]_vars
  <2> SUFFICES ASSUME IInv, [Next]_vars, edges' = edges, DOMAIN vertexies' = DOMAIN vertexies
               PROVE  enabled' = enabled
    OBVIOUS
  <2>1. ASSUME NEW v \in Vertex, AddVertex(v) PROVE FALSE
    BY <2>1 DEF AddVertex
  <2>2. ASSUME NEW v \in Vertex, RemoveVertex(v) PROVE FALSE
    BY <2>2 DEF RemoveVertex
  <2>3. ASSUME NEW e \in Edge, RefreshEdge(e) PROVE enabled' = enabled
    BY <2>3 DEF RefreshEdge
  <2>4. ASSUME NEW e \in Edge, AddEdge(e) PROVE FALSE
    BY <2>4 DEF AddEdge
  <2>5. ASSUME NEW p \in Point, RemoveEdge(p) PROVE FALSE
    <3>1. points[p] \in edges /\ edges' = edges \ {points[p]}
      BY <2>5 DEF RemoveEdge, removeEdges, IInv, PointsLive
    <3> QED BY <3>1
  <2>6. ASSUME RemoveStaleEdges PROVE FALSE
    BY <2>6 DEF RemoveStaleEdges, removeEdges, Stale
  <2>7. CASE Tick
    BY <2>7 DEF Tick
  <2>8. ASSUME NEW e \in Edge, Plug(e) \/ Unplug(e) PROVE enabled' = enabled
    BY <2>8 DEF Plug, Unplug
  <2>9. CASE UNCHANGED vars
    BY <2>9 DEF vars
  <2> QED BY <2>1, <2>2, <2>3, <2>4, <2>5, <2>6, <2>7, <2>8, <2>9 DEF Next
<1> QED BY <1>1, InductiveInvariant, PTL DEF Spec, TreeStable
=============================================================================
