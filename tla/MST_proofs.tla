----------------------------- MODULE MST_proofs -----------------------------
(***************************************************************************)
(* Proof, for every graph, that calculateMST leaves a minimum spanning     *)
(* forest of enabled edges, and that FindPath finds its way over it.       *)
(***************************************************************************)
EXTENDS PathSearch, FiniteSetTheorems, SequenceTheorems, TLAPS

-----------------------------------------------------------------------------
(* The inductive invariant *)

\* The clusters partition the vertices.
Partition ==
    \A v \in vertexies :
        v \in clusters[v] /\ \A u \in clusters[v] : clusters[u] = clusters[v]

\* No enabled edge leaves a cluster, ...
ClustersClosed == \A v \in vertexies : Closed(clusters[v], enabled)

\* ... and a cluster holds only what enabled edges connect.
ClustersTight ==
    \A S \in SUBSET vertexies :
        Closed(S, enabled) => \A v \in S : clusters[v] \subseteq S

\* Both ends of a popped edge are in one cluster.
Popped == \A e \in edges \ queue : \E v \in vertexies : Ends(e) \subseteq clusters[v]

\* Edges are popped in order of their weights.
PoppedInOrder == \A e \in edges \ queue : \A f \in queue : Weight[e] <= Weight[f]

\* Enabled edges no heavier than e connect what e connects.
Light(e) == {f \in enabled : Weight[f] <= Weight[e]}
Covers(e) == \A S \in SUBSET vertexies : Closed(S, Light(e)) => Closed(S, {e})

LoopInv ==
    /\ enabled \cap queue = {}
    /\ Partition
    /\ ClustersClosed
    /\ ClustersTight
    /\ Popped
    /\ PoppedInOrder
    /\ \A e \in edges \ queue : Covers(e)
    /\ Acyclic(vertexies, enabled)
    /\ Cardinality({clusters[v] : v \in vertexies}) = Cardinality(vertexies) - count

IInv ==
    /\ TypeOK
    /\ pc = "loop" => LoopInv
    /\ SpanningForestWhenDone
    /\ MinimumWhenDone

-----------------------------------------------------------------------------
(* Lemmas about vertex sets that no edge crosses *)

\* Fewer edges cross less.
LEMMA ClosedMono ==
    ASSUME NEW S, NEW F, NEW G, F \subseteq G, Closed(S, G)
    PROVE  Closed(S, F)
BY DEF Closed

\* Closed sets are closed under intersection.
LEMMA ClosedCap ==
    ASSUME NEW S, NEW T, NEW F, Closed(S, F), Closed(T, F)
    PROVE  Closed(S \cap T, F)
BY DEF Closed

\* Closed sets are closed under union.
LEMMA ClosedCup ==
    ASSUME NEW S, NEW T, NEW F, Closed(S, F), Closed(T, F)
    PROVE  Closed(S \cup T, F)
BY DEF Closed

\* Adding an edge that does not cross S.
LEMMA ClosedAdd ==
    ASSUME NEW S, NEW F, NEW e, Closed(S, F), Ends(e) \subseteq S \/ Ends(e) \cap S = {}
    PROVE  Closed(S, F \cup {e})
BY DEF Closed

\* An edge of the graph has two ends (equal for a switch cabled to itself).
LEMMA EdgeEnds == \A e \in Edge : \E u, v \in Vertex : Ends(e) = {u, v}
<1> SUFFICES ASSUME NEW e \in Edge PROVE \E u, v \in Vertex : Ends(e) = {u, v}
  OBVIOUS
<1>1. PICK p \in Vertex \X Port, q \in Vertex \X Port : e = {p, q}
  BY EdgeJoinsPoints DEF EdgesOver
<1>2. Ends(e) = {p[1], q[1]}
  BY <1>1 DEF Ends
<1>3. p[1] \in Vertex /\ q[1] \in Vertex
  OBVIOUS
<1> QED BY <1>2, <1>3

-----------------------------------------------------------------------------
(* Taking an edge between two clusters *)

\* The situation in which Take(e) enables e, with its two ends named.
Joins(e, x, y) ==
    /\ e \in edges
    /\ x \in vertexies /\ y \in vertexies
    /\ Ends(e) = {x, y}
    /\ clusters[x] # clusters[y]

\* Different clusters are disjoint.
LEMMA DisjointClusters ==
    ASSUME Partition, TypeOK, NEW u \in vertexies, NEW v \in vertexies,
           clusters[u] # clusters[v]
    PROVE  clusters[u] \cap clusters[v] = {}
BY DEF Partition, TypeOK

\* An old enabled edge f that lies in cluster D stays on no cycle when an
\* edge from x in D to y outside D is added.
LEMMA StillBridge ==
    ASSUME TypeOK, Partition, ClustersClosed,
           NEW x \in vertexies, NEW y \in vertexies, NEW e, NEW f, f # e,
           Ends(e) = {x, y}, clusters[x] # clusters[y],
           NEW S \in SUBSET vertexies,
           Closed(S, enabled \ {f}), Separates(S, f),
           Ends(f) \subseteq clusters[x]
    PROVE  \E T \in SUBSET vertexies :
              Closed(T, (enabled \cup {e}) \ {f}) /\ Separates(T, f)
<1> DEFINE T == S \cap clusters[x]
<1> DEFINE U == T \cup clusters[y]
<1>0. clusters[x] \in SUBSET vertexies /\ clusters[y] \in SUBSET vertexies
  BY DEF TypeOK
<1>1. Closed(clusters[x], enabled \ {f}) /\ Closed(clusters[y], enabled \ {f})
  <2>1. Closed(clusters[x], enabled) /\ Closed(clusters[y], enabled)
    BY DEF ClustersClosed
  <2> QED BY <2>1, ClosedMono, enabled \ {f} \subseteq enabled
<1>2. Closed(T, enabled \ {f}) /\ Closed(U, enabled \ {f})
  BY <1>1, ClosedCap, ClosedCup
<1>3. clusters[x] \cap clusters[y] = {}
  BY DisjointClusters
<1>4. Separates(T, f) /\ Separates(U, f)
  BY <1>3 DEF Separates
<1>5. (enabled \cup {e}) \ {f} = (enabled \ {f}) \cup {e}
  OBVIOUS
<1>6. x \in clusters[x] /\ y \in clusters[y]
  BY DEF Partition
<1>7. CASE x \in S
  <2>1. Ends(e) \subseteq U
    BY <1>6, <1>7
  <2>2. Closed(U, (enabled \cup {e}) \ {f})
    BY <1>2, <1>5, <2>1, ClosedAdd
  <2> QED BY <1>0, <1>4, <2>2
<1>8. CASE x \notin S
  <2>1. Ends(e) \cap T = {}
    BY <1>3, <1>6, <1>8
  <2>2. Closed(T, (enabled \cup {e}) \ {f})
    BY <1>2, <1>5, <2>1, ClosedAdd
  <2> QED BY <1>0, <1>4, <2>2
<1> QED BY <1>7, <1>8

\* An edge between two clusters closes no cycle.
LEMMA TakeAcyclic ==
    ASSUME TypeOK, LoopInv, NEW e, NEW x, NEW y, Joins(e, x, y)
    PROVE  Acyclic(vertexies, enabled \cup {e})
<1> USE DEF Joins
<1>1. clusters[x] \cap clusters[y] = {}
  BY DisjointClusters DEF LoopInv
<1>2. x \in clusters[x] /\ y \in clusters[y]
  BY DEF LoopInv, Partition
<1> SUFFICES ASSUME NEW f \in enabled \cup {e}
             PROVE  \E T \in SUBSET vertexies :
                       Closed(T, (enabled \cup {e}) \ {f}) /\ Separates(T, f)
  BY DEF Acyclic
<1>3. CASE f = e
  <2>1. Closed(clusters[x], (enabled \cup {e}) \ {f})
    <3>1. Closed(clusters[x], enabled)
      BY DEF LoopInv, ClustersClosed
    <3>2. (enabled \cup {e}) \ {f} \subseteq enabled
      BY <1>3
    <3> QED BY <3>1, <3>2, ClosedMono
  <2>2. Separates(clusters[x], f)
    BY <1>1, <1>2, <1>3 DEF Separates
  <2>3. clusters[x] \in SUBSET vertexies
    BY DEF TypeOK
  <2> QED BY <2>1, <2>2, <2>3
<1>4. CASE f # e
  <2>0. f \in enabled /\ f \in edges \ queue
    BY <1>4 DEF LoopInv, TypeOK
  <2>1. PICK S \in SUBSET vertexies : Closed(S, enabled \ {f}) /\ Separates(S, f)
    BY <2>0 DEF LoopInv, Acyclic
  <2>2. PICK v \in vertexies : Ends(f) \subseteq clusters[v]
    BY <2>0 DEF LoopInv, Popped
  <2>3. CASE clusters[v] = clusters[x]
    BY <1>4, <2>1, <2>2, <2>3, StillBridge DEF LoopInv
  <2>4. CASE clusters[v] = clusters[y]
    <3>1. Ends(e) = {y, x}
      OBVIOUS
    <3> QED BY <1>4, <2>1, <2>2, <2>4, <3>1, StillBridge DEF LoopInv
  <2>5. CASE clusters[v] # clusters[x] /\ clusters[v] # clusters[y]
    <3> DEFINE T == S \cap clusters[v]
    <3>1. Closed(clusters[v], enabled \ {f})
      <4>1. Closed(clusters[v], enabled)
        BY DEF LoopInv, ClustersClosed
      <4> QED BY <4>1, ClosedMono, enabled \ {f} \subseteq enabled
    <3>2. Closed(T, enabled \ {f})
      BY <2>1, <3>1, ClosedCap
    <3>3. clusters[v] \cap clusters[x] = {} /\ clusters[v] \cap clusters[y] = {}
      BY <2>5, DisjointClusters DEF LoopInv
    <3>4. Ends(e) \cap T = {}
      BY <1>2, <3>3
    <3>5. Closed(T, (enabled \ {f}) \cup {e})
      BY <3>2, <3>4, ClosedAdd
    <3>6. (enabled \ {f}) \cup {e} = (enabled \cup {e}) \ {f}
      BY <1>4
    <3>7. Separates(T, f)
      BY <2>1, <2>2 DEF Separates
    <3>8. T \in SUBSET vertexies
      BY DEF TypeOK
    <3> QED BY <3>5, <3>6, <3>7, <3>8
  <2> QED BY <2>3, <2>4, <2>5
<1> QED BY <1>3, <1>4

\* mergeCluster, when the two clusters are named.
LEMMA MergedClusters ==
    ASSUME NEW e, NEW x, NEW y, Joins(e, x, y)
    PROVE  Merged(e) = [v \in vertexies |->
                          IF v \in clusters[x] \cup clusters[y]
                          THEN clusters[x] \cup clusters[y] ELSE clusters[v]]
<1>1. UNION {clusters[v] : v \in Ends(e)} = clusters[x] \cup clusters[y]
  BY DEF Joins
<1> QED BY <1>1 DEF Merged

\* A merge leaves one cluster less.
LEMMA MergeCounts ==
    ASSUME TypeOK, Partition, NEW e, NEW x, NEW y, Joins(e, x, y)
    PROVE  Cardinality({Merged(e)[v] : v \in vertexies})
              = Cardinality({clusters[v] : v \in vertexies}) - 1
<1> USE DEF Joins
<1> DEFINE cl == Merged(e)
<1> DEFINE C == {clusters[v] : v \in vertexies}
<1> DEFINE D == {cl[v] : v \in vertexies}
<1> DEFINE cx == clusters[x]
<1> DEFINE cy == clusters[y]
<1> DEFINE rest == C \ {cx, cy}
<1>0. IsFiniteSet(vertexies)
  BY VertexFinite, FS_Subset DEF TypeOK
<1>1. IsFiniteSet(C)
  <2>1. clusters \in Surjection(vertexies, C)
    BY DEF TypeOK, Surjection
  <2> QED BY <1>0, <2>1, FS_Surjection
<1>2. IsFiniteSet(rest)
  BY <1>1, FS_Subset
<1>3. cx \in C /\ cy \in C /\ cx # cy
  OBVIOUS
<1>4. C = (rest \cup {cy}) \cup {cx}
  BY <1>3
<1>5. Cardinality(C) = Cardinality(rest) + 2
  <2>1. IsFiniteSet(rest \cup {cy}) /\ Cardinality(rest \cup {cy}) = Cardinality(rest) + 1
    <3>1. cy \notin rest
      OBVIOUS
    <3> QED BY <1>2, <3>1, FS_AddElement
  <2>2. Cardinality((rest \cup {cy}) \cup {cx}) = Cardinality(rest \cup {cy}) + 1
    <3>1. cx \notin rest \cup {cy}
      BY <1>3
    <3> HIDE DEF rest, cy, cx
    <3> QED BY <2>1, <3>1, FS_AddElement
  <2>3. Cardinality(rest) \in Nat
    BY <1>2, FS_CardinalityType
  <2> HIDE DEF C, rest, cx, cy
  <2> QED BY <1>4, <2>1, <2>2, <2>3
<1>6. x \in cx /\ y \in cy
  BY DEF Partition
<1>7. D = rest \cup {cx \cup cy}
  <2>1. \A v \in vertexies : cl[v] = IF v \in cx \cup cy THEN cx \cup cy ELSE clusters[v]
    <3>1. cl = [v \in vertexies |->
                  IF v \in clusters[x] \cup clusters[y]
                  THEN clusters[x] \cup clusters[y] ELSE clusters[v]]
      BY MergedClusters
    <3> HIDE DEF cl
    <3> QED BY <3>1
  <2>2. \A v \in vertexies : v \in cx => clusters[v] = cx
    BY DEF Partition
  <2>3. \A v \in vertexies : v \in cy => clusters[v] = cy
    BY DEF Partition
  <2>4. \A v \in vertexies : v \in clusters[v]
    BY DEF Partition
  <2>5. ASSUME NEW c \in D PROVE c \in rest \cup {cx \cup cy}
    <3>1. PICK v \in vertexies : c = cl[v]
      OBVIOUS
    <3>2. CASE v \in cx \cup cy
      BY <2>1, <3>1, <3>2
    <3>3. CASE v \notin cx \cup cy
      <4>1. c = clusters[v] /\ c # cx /\ c # cy
        BY <2>1, <2>4, <3>1, <3>3
      <4> QED BY <4>1
    <3> QED BY <3>2, <3>3
  <2>6. cx \cup cy \in D
    <3>1. cl[x] = cx \cup cy
      BY <1>6, <2>1
    <3> QED BY <3>1
  <2>7. ASSUME NEW c \in rest PROVE c \in D
    <3>1. PICK v \in vertexies : c = clusters[v]
      OBVIOUS
    <3>2. v \notin cx \cup cy
      BY <2>2, <2>3, <3>1
    <3>3. cl[v] = c
      BY <2>1, <3>1, <3>2
    <3> QED BY <3>3
  <2> QED BY <2>5, <2>6, <2>7
<1>8. cx \cup cy \notin rest
  <2>1. ASSUME NEW v \in vertexies, clusters[v] = cx \cup cy PROVE FALSE
    BY <1>6, <2>1, <1>3 DEF Partition
  <2> QED BY <2>1
<1>9. Cardinality(D) = Cardinality(rest) + 1
  <2> HIDE DEF D, rest, cx, cy
  <2> QED BY <1>2, <1>7, <1>8, FS_AddElement
<1>10. Cardinality(rest) \in Nat
  BY <1>2, FS_CardinalityType
<1> HIDE DEF C, D, rest
<1>11. Cardinality(D) = Cardinality(C) - 1
  BY <1>5, <1>9, <1>10
<1> QED BY <1>11 DEF C, D

-----------------------------------------------------------------------------
(* The steps of calculateMST *)

\* resetEdges and makeClusters establish the loop invariant: every vertex is
\* a cluster of its own and no edge has been popped.
LEMMA ResetInv == TypeOK /\ Reset => LoopInv'
<1> SUFFICES ASSUME TypeOK, Reset PROVE LoopInv'
  OBVIOUS
<1> USE DEF Reset, inputs, TypeOK
<1>1. (enabled \cap queue = {})' /\ Partition' /\ ClustersTight' /\ Popped'
  BY DEF Partition, ClustersTight, Popped
<1>2. ClustersClosed' /\ Acyclic(vertexies, enabled)'
  BY DEF ClustersClosed, Closed, Acyclic
<1>3. PoppedInOrder' /\ (\A e \in edges \ queue : Covers(e))'
  BY DEF PoppedInOrder
<1>4. (Cardinality({clusters[v] : v \in vertexies}) = Cardinality(vertexies) - count)'
  <2> DEFINE f == [v \in vertexies |-> {v}]
  <2> DEFINE C == {{v} : v \in vertexies}
  <2>1. IsFiniteSet(vertexies) /\ Cardinality(vertexies) \in Nat
    BY VertexFinite, FS_Subset, FS_CardinalityType
  <2>2. f \in Bijection(vertexies, C)
    <3>1. f \in Surjection(vertexies, C)
      BY DEF Surjection
    <3>2. f \in Injection(vertexies, C)
      <4>1. \A u, v \in vertexies : f[u] = f[v] => u = v
        <5>1. \A v \in vertexies : f[v] = {v}
          OBVIOUS
        <5> HIDE DEF f
        <5> QED BY <5>1
      <4>2. f \in [vertexies -> C]
        OBVIOUS
      <4> HIDE DEF f, C
      <4> QED BY <4>1, <4>2 DEF Injection, IsInjective
    <3> QED BY <3>1, <3>2 DEF Bijection
  <2>3. Cardinality(C) = Cardinality(vertexies)
    <3> HIDE DEF C, f
    <3>1. Cardinality(vertexies) = Cardinality(C)
      BY <2>1, <2>2, FS_Bijection DEF ExistsBijection
    <3> QED BY <3>1
  <2>4. {clusters'[v] : v \in vertexies'} = C
    OBVIOUS
  <2>5. count' = 0 /\ vertexies' = vertexies
    OBVIOUS
  <2>6. Cardinality({clusters'[v] : v \in vertexies'}) = Cardinality(vertexies')
    BY <2>3, <2>4, <2>5
  <2>7. Cardinality(vertexies') = Cardinality(vertexies') - count'
    BY <2>1, <2>5
  <2> QED BY <2>6, <2>7
<1> QED BY <1>1, <1>2, <1>3, <1>4 DEF LoopInv

\* Dropping an edge whose ends are connected already keeps the loop invariant.
LEMMA SkipInv ==
    ASSUME TypeOK, LoopInv, NEW e \in edges, Skip(e)
    PROVE  LoopInv'
<1> USE DEF Skip, inputs
<1>1. PICK x, y : x \in vertexies /\ y \in vertexies /\ Ends(e) = {x, y}
  BY EdgeEnds DEF TypeOK, KnownInput
<1>2. clusters[x] = clusters[y]
  BY <1>1 DEF SameCluster
<1>3. Ends(e) \subseteq clusters[x]
  BY <1>1, <1>2 DEF LoopInv, Partition
<1>4. Popped'
  BY <1>1, <1>3 DEF LoopInv, Popped
<1>5. PoppedInOrder'
  BY DEF LoopInv, PoppedInOrder, IsFront
<1>6. Covers(e)
  <2>1. Light(e) = enabled
    <3>1. \A f \in enabled : f \in edges \ queue /\ e \in queue
      BY DEF LoopInv, TypeOK, IsFront
    <3> QED BY <3>1 DEF LoopInv, PoppedInOrder, Light
  <2>2. ASSUME NEW S \in SUBSET vertexies, Closed(S, enabled) PROVE Closed(S, {e})
    <3>1. \A v \in S : clusters[v] \subseteq S
      BY <2>2 DEF LoopInv, ClustersTight
    <3>2. x \in S <=> y \in S
      BY <1>1, <1>2, <3>1 DEF LoopInv, Partition
    <3> QED BY <1>1, <3>2 DEF Closed
  <2> QED BY <2>1, <2>2 DEF Covers
<1>7. (\A f \in edges \ queue : Covers(f))'
  BY <1>6 DEF LoopInv, Covers, Light
<1>8. (enabled \cap queue = {})' /\ Partition' /\ ClustersClosed' /\ ClustersTight'
  BY DEF LoopInv, Partition, ClustersClosed, ClustersTight
<1>9. Acyclic(vertexies, enabled)'
  BY DEF LoopInv
<1>10. (Cardinality({clusters[v] : v \in vertexies}) = Cardinality(vertexies) - count)'
  BY DEF LoopInv
<1> QED BY <1>4, <1>5, <1>7, <1>8, <1>9, <1>10 DEF LoopInv

\* Enabling an edge between two clusters, and merging these, keeps it.
LEMMA TakeInv ==
    ASSUME TypeOK, LoopInv, NEW e \in edges, Take(e)
    PROVE  LoopInv'
<1> USE DEF Take, inputs
<1>1. PICK x, y : x \in vertexies /\ y \in vertexies /\ Ends(e) = {x, y}
  BY EdgeEnds DEF TypeOK, KnownInput
<1>2. clusters[x] # clusters[y]
  BY <1>1 DEF SameCluster
<1>3. Joins(e, x, y)
  BY <1>1, <1>2 DEF Joins
<1> DEFINE both == clusters[x] \cup clusters[y]
<1>4. clusters' = [v \in vertexies |-> IF v \in both THEN both ELSE clusters[v]]
  BY <1>3, MergedClusters
<1>5. \A v \in vertexies : /\ v \in clusters[v]
                           /\ clusters[v] \subseteq vertexies
                           /\ \A u \in clusters[v] : clusters[u] = clusters[v]
  BY DEF LoopInv, Partition, TypeOK
<1>6. \A v \in vertexies : v \notin both => clusters[v] \cap both = {}
  BY <1>1, <1>5
<1>7. Partition'
  BY <1>1, <1>4, <1>5, <1>6 DEF Partition
<1>8. ClustersClosed'
  <2>1. ASSUME NEW v \in vertexies PROVE Closed(clusters'[v], enabled \cup {e})
    <3>1. Closed(clusters[v], enabled) /\ Closed(clusters[x], enabled) /\ Closed(clusters[y], enabled)
      BY <1>1 DEF LoopInv, ClustersClosed
    <3>2. CASE v \in both
      <4>1. Closed(both, enabled) /\ clusters'[v] = both
        BY <1>4, <3>1, <3>2, ClosedCup
      <4>2. Ends(e) \subseteq both
        BY <1>1, <1>5
      <4> QED BY <4>1, <4>2, ClosedAdd
    <3>3. CASE v \notin both
      <4>1. Ends(e) \cap clusters[v] = {} /\ clusters'[v] = clusters[v]
        BY <1>1, <1>4, <1>5, <1>6, <3>3
      <4> QED BY <3>1, <4>1, ClosedAdd
    <3> QED BY <3>2, <3>3
  <2> QED BY <2>1 DEF ClustersClosed
<1>9. ClustersTight'
  <2> SUFFICES ASSUME NEW S \in SUBSET vertexies, Closed(S, enabled \cup {e}), NEW v \in S
               PROVE  clusters'[v] \subseteq S
    BY DEF ClustersTight
  <2>1. Closed(S, enabled)
    BY ClosedMono, enabled \subseteq enabled \cup {e}
  <2>2. \A u \in S : clusters[u] \subseteq S
    BY <2>1 DEF LoopInv, ClustersTight
  <2>3. x \in S <=> y \in S
    BY <1>1 DEF Closed
  <2>4. CASE v \in both
    <3>1. x \in S /\ y \in S
      BY <1>1, <1>5, <2>2, <2>3, <2>4
    <3> QED BY <1>4, <2>2, <2>4, <3>1
  <2>5. CASE v \notin both
    BY <1>4, <2>2, <2>5
  <2> QED BY <2>4, <2>5
<1>10. Popped'
  <2>1. ASSUME NEW f \in edges \ queue'
        PROVE  \E v \in vertexies : Ends(f) \subseteq clusters'[v]
    <3>1. CASE f = e
      BY <1>1, <1>4, <1>5, <3>1
    <3>2. CASE f # e
      <4>1. PICK v \in vertexies : Ends(f) \subseteq clusters[v]
        BY <3>2 DEF LoopInv, Popped
      <4>2. clusters[v] \subseteq clusters'[v]
        BY <1>1, <1>4, <1>5
      <4> QED BY <4>1, <4>2
    <3> QED BY <3>1, <3>2
  <2> QED BY <2>1 DEF Popped
<1>11. PoppedInOrder'
  BY DEF LoopInv, PoppedInOrder, IsFront
<1>12. (\A f \in edges \ queue : Covers(f))'
  <2>1. ASSUME NEW f \in edges \ queue', NEW S \in SUBSET vertexies,
               Closed(S, {g \in enabled \cup {e} : Weight[g] <= Weight[f]})
        PROVE  Closed(S, {f})
    <3>1. CASE f = e
      <4>1. Weight[e] <= Weight[e]
        BY WeightNat DEF TypeOK
      <4> QED BY <2>1, <3>1, <4>1 DEF Closed
    <3>2. CASE f # e
      <4>1. Light(f) \subseteq {g \in enabled \cup {e} : Weight[g] <= Weight[f]}
        BY DEF Light
      <4>2. Closed(S, Light(f))
        BY <2>1, <4>1, ClosedMono
      <4>3. Covers(f)
        BY <3>2 DEF LoopInv
      <4> QED BY <4>2, <4>3 DEF Covers
    <3> QED BY <3>1, <3>2
  <2> QED BY <2>1 DEF Covers, Light
<1>13. Acyclic(vertexies, enabled)'
  BY <1>3, TakeAcyclic
<1>14. (Cardinality({clusters[v] : v \in vertexies}) = Cardinality(vertexies) - count)'
  <2> DEFINE n == Cardinality({clusters[v] : v \in vertexies})
  <2> DEFINE m == Cardinality({Merged(e)[v] : v \in vertexies})
  <2>1. m = n - 1
    BY <1>3, MergeCounts DEF LoopInv
  <2>2. n = Cardinality(vertexies) - count
    BY DEF LoopInv
  <2>3. Cardinality(vertexies) \in Nat /\ count \in Nat
    BY VertexFinite, FS_Subset, FS_CardinalityType DEF TypeOK
  <2>4. Cardinality({clusters'[v] : v \in vertexies'}) = m
    OBVIOUS
  <2> HIDE DEF n, m
  <2> QED BY <2>1, <2>2, <2>3, <2>4
<1>15. (enabled \cap queue = {})'
  BY DEF LoopInv
<1> QED BY <1>7, <1>8, <1>9, <1>10, <1>11, <1>12, <1>13, <1>14, <1>15 DEF LoopInv

\* When the loop stops at count = len(vertexies) - 1, one cluster is left.
LEMMA OneCluster ==
    ASSUME TypeOK, LoopInv, ~LoopGuard, NEW u \in vertexies, NEW v \in vertexies
    PROVE  clusters[u] = clusters[v]
<1> DEFINE C == {clusters[w] : w \in vertexies}
<1>0. IsFiniteSet(vertexies) /\ Cardinality(vertexies) \in Nat
  BY VertexFinite, FS_Subset, FS_CardinalityType DEF TypeOK
<1>1. IsFiniteSet(C)
  <2>1. clusters \in Surjection(vertexies, C)
    BY DEF TypeOK, Surjection
  <2> QED BY <1>0, <2>1, FS_Surjection
<1>2. Cardinality(C) <= 1
  <2>1. Cardinality(C) = Cardinality(vertexies) - count
    BY DEF LoopInv
  <2>2. count \in Nat
    BY DEF TypeOK
  <2>3. ~(count < Cardinality(vertexies) - 1)
    BY DEF LoopGuard
  <2> HIDE DEF C
  <2> QED BY <1>0, <2>1, <2>2, <2>3
<1>3. clusters[u] \in C /\ clusters[v] \in C
  OBVIOUS
<1>4. Cardinality(C) \in Nat
  BY <1>1, FS_CardinalityType
<1> HIDE DEF C
<1>5. Cardinality(C) # 0
  BY <1>1, <1>3, FS_EmptySet
<1>6. \E w : C = {w}
  <2>1. Cardinality(C) = 1
    BY <1>2, <1>4, <1>5
  <2> QED BY <1>1, <2>1, FS_Singleton
<1> QED BY <1>3, <1>6

\* The loop's exit leaves a spanning forest that is a minimum one.
LEMMA FinishForest ==
    ASSUME TypeOK, LoopInv, Finish
    PROVE  SpanningForestWhenDone' /\ MinimumWhenDone'
<1> USE DEF Finish, inputs
<1>1. ASSUME NEW e \in edges, NEW S \in SUBSET vertexies, Closed(S, enabled)
      PROVE  Ends(e) \subseteq S \/ Ends(e) \cap S = {}
  <2>1. \A v \in S : clusters[v] \subseteq S
    BY <1>1 DEF LoopInv, ClustersTight
  <2>2. Ends(e) \subseteq vertexies
    BY DEF TypeOK, KnownInput
  <2>3. \A x, y \in Ends(e) : clusters[x] = clusters[y]
    <3>1. CASE queue = {}
      BY <3>1 DEF LoopInv, Popped, Partition
    <3>2. CASE ~LoopGuard
      BY <2>2, <3>2, OneCluster
    <3> QED BY <3>1, <3>2
  <2> QED BY <2>1, <2>2, <2>3 DEF LoopInv, Partition
<1>2. SpanningForest(vertexies, edges, enabled)
  <2>1. Spanning(vertexies, edges, enabled)
    BY <1>1 DEF Spanning, Closed
  <2> QED BY <2>1 DEF SpanningForest, LoopInv, TypeOK
<1>3. ASSUME NEW e \in edges \ enabled, NEW S \in SUBSET vertexies,
             Closed(S, {f \in enabled : Weight[f] <= Weight[e]})
      PROVE  Closed(S, {e})
  <2>1. CASE e \in queue
    <3>1. \A f \in enabled : f \in edges \ queue
      BY DEF LoopInv, TypeOK
    <3>2. \A f \in enabled : Weight[f] <= Weight[e]
      BY <2>1, <3>1 DEF LoopInv, PoppedInOrder
    <3>3. {f \in enabled : Weight[f] <= Weight[e]} = enabled
      BY <3>2
    <3> QED BY <1>1, <1>3, <3>3 DEF Closed
  <2>2. CASE e \notin queue
    BY <1>3, <2>2 DEF LoopInv, Covers, Light
  <2> QED BY <2>1, <2>2
<1> QED BY <1>2, <1>3 DEF SpanningForestWhenDone, MinimumWhenDone

\* Type correctness of one step.
LEMMA TypeStep == TypeOK /\ [Next]_vars => TypeOK'
<1> SUFFICES ASSUME TypeOK, [Next]_vars PROVE TypeOK'
  OBVIOUS
<1> USE DEF TypeOK, inputs, KnownInput
<1>1. CASE EarlyReturn
  BY <1>1 DEF EarlyReturn
<1>2. CASE Reset
  BY <1>2 DEF Reset
<1>3. ASSUME NEW e \in edges, Skip(e) PROVE TypeOK'
  BY <1>3 DEF Skip
<1>4. ASSUME NEW e \in edges, Take(e) PROVE TypeOK'
  <2>1. Merged(e) \in [vertexies -> SUBSET vertexies]
    <3> DEFINE both == UNION {clusters[v] : v \in Ends(e)}
    <3>1. both \subseteq vertexies
      OBVIOUS
    <3>2. \A v \in vertexies : clusters[v] \in SUBSET vertexies
      OBVIOUS
    <3> HIDE DEF both
    <3> QED BY <3>1, <3>2 DEF Merged, both
  <2>2. clusters' \in [vertexies' -> SUBSET vertexies']
    BY <1>4, <2>1 DEF Take
  <2>3. /\ (vertexies \in SUBSET Vertex)' /\ (edges \in SUBSET Edge)' /\ KnownInput'
        /\ (enabled \in SUBSET edges)' /\ (queue \in SUBSET edges)'
        /\ (count \in Nat)' /\ (pc \in {"start", "loop", "done"})'
    BY <1>4 DEF Take
  <2> QED BY <2>2, <2>3
<1>5. CASE Finish
  BY <1>5 DEF Finish
<1>6. CASE UNCHANGED vars
  BY <1>6 DEF vars
<1> QED BY <1>1, <1>2, <1>3, <1>4, <1>5, <1>6 DEF Next

-----------------------------------------------------------------------------
\* One step of calculateMST keeps the invariant.
LEMMA InvStep == IInv /\ [Next]_vars => IInv'
<1> SUFFICES ASSUME IInv, [Next]_vars PROVE IInv'
  OBVIOUS
<1>0. TypeOK /\ TypeOK'
  BY TypeStep DEF IInv
<1>1. CASE EarlyReturn
  <2>1. edges = {}
    <3>1. CASE vertexies = {}
      <4>1. \A e \in edges : \E u, v \in Vertex : Ends(e) = {u, v}
        BY <1>0, EdgeEnds DEF TypeOK
      <4> QED BY <1>0, <3>1, <4>1 DEF TypeOK, KnownInput
    <3> QED BY <1>1, <3>1 DEF EarlyReturn
  <2>2. SpanningForestWhenDone' /\ MinimumWhenDone'
    BY <1>0, <1>1, <2>1
    DEF EarlyReturn, inputs, TypeOK, SpanningForestWhenDone, MinimumWhenDone,
        SpanningForest, Acyclic, Spanning, Closed
  <2> QED BY <1>0, <1>1, <2>2 DEF EarlyReturn, IInv
<1>2. CASE Reset
  <2>1. LoopInv' /\ pc' = "loop"
    BY <1>0, <1>2, ResetInv DEF Reset
  <2> QED BY <1>0, <2>1 DEF IInv, SpanningForestWhenDone, MinimumWhenDone
<1>3. ASSUME NEW e \in edges, Skip(e) PROVE IInv'
  <2>1. LoopInv' /\ pc' = "loop"
    <3>1. pc = "loop" /\ pc' = "loop"
      BY <1>3 DEF Skip
    <3>2. LoopInv
      BY <3>1 DEF IInv
    <3> QED BY <1>0, <1>3, <3>1, <3>2, SkipInv
  <2> QED BY <1>0, <2>1 DEF IInv, SpanningForestWhenDone, MinimumWhenDone
<1>4. ASSUME NEW e \in edges, Take(e) PROVE IInv'
  <2>1. LoopInv' /\ pc' = "loop"
    <3>1. pc = "loop" /\ pc' = "loop"
      BY <1>4 DEF Take
    <3>2. LoopInv
      BY <3>1 DEF IInv
    <3> QED BY <1>0, <1>4, <3>1, <3>2, TakeInv
  <2> QED BY <1>0, <2>1 DEF IInv, SpanningForestWhenDone, MinimumWhenDone
<1>5. CASE Finish
  <2>1. pc = "loop" /\ pc' = "done"
    BY <1>5 DEF Finish
  <2>2. LoopInv
    BY <2>1 DEF IInv
  <2>3. SpanningForestWhenDone' /\ MinimumWhenDone'
    BY <1>0, <1>5, <2>2, FinishForest
  <2> QED BY <1>0, <2>1, <2>3 DEF IInv
<1>6. CASE UNCHANGED vars
  <2>1. LoopInv => LoopInv'
    BY <1>6 DEF vars, LoopInv, Partition, ClustersClosed, ClustersTight, Popped,
                PoppedInOrder, Covers, Light
  <2> QED BY <1>0, <1>6, <2>1
          DEF vars, IInv, SpanningForestWhenDone, MinimumWhenDone
<1> QED BY <1>1, <1>2, <1>3, <1>4, <1>5, <1>6 DEF Next

(* calculateMST enables a minimum spanning forest, for every graph: the    *)
(* enabled links never form a loop, and they connect all that the links    *)
(* connect.                                                                *)
LEMMA Invariant == Spec => []IInv
<1>1. Init => IInv
  BY DEF Init, IInv, TypeOK, KnownInput, SpanningForestWhenDone, MinimumWhenDone
<1> QED BY <1>1, InvStep, PTL DEF Spec

\* calculateMST (graph.go) leaves a spanning forest enabled, whatever the
\* graph and whatever order equal weights are popped in.
THEOREM SpanningForestThm == Spec => []SpanningForestWhenDone
<1>1. IInv => SpanningForestWhenDone
  BY DEF IInv
<1> QED BY <1>1, Invariant, PTL

\* ... and no other choice of links is lighter: each link left disabled is
\* bypassed by enabled links that weigh no more.
THEOREM MinimumThm == Spec => []MinimumWhenDone
<1>1. IInv => MinimumWhenDone
  BY DEF IInv
<1> QED BY <1>1, Invariant, PTL

\* The counter that ends the loop of calculateMST early counts the merges:
\* it is always the number of vertices less the number of clusters.
THEOREM CountsClustersThm == Spec => []CountsClusters
<1>1. IInv => CountsClusters
  BY DEF IInv, LoopInv, CountsClusters
<1> QED BY <1>1, Invariant, PTL

-----------------------------------------------------------------------------
(* FindPath: the search *)

\* A path element leads to w over an enabled edge.
LeadsTo(p, w) ==
    /\ p = [V |-> p.V, E |-> p.E]
    /\ p.V \in visited /\ p.E \in enabled /\ Ends(p.E) = {p.V, w}

\* prev leads from every visited vertex back to the source: in no set of
\* vertices does it go round in circles, ...
Tree ==
    /\ src \in visited /\ visited \subseteq vertexies \cup {src}
    /\ prev = [w \in visited \ {src} |-> prev[w]]
    /\ \A w \in visited \ {src} : LeadsTo(prev[w], w)
    /\ \A S \in SUBSET (visited \ {src}) : S # {} => \E w \in S : prev[w].V \notin S

\* ... and nothing is visited that is not connected to the source.
Reached == \A S \in SUBSET vertexies : Closed(S, enabled) /\ src \in S => visited \subseteq S

\* What is left to do is behind the vertices of the queue.
Holds(q, v) == \E i \in 1..Len(q) : q[i] = v
Explored(v) == \A e \in Usable(v) : Ends(e) \subseteq visited

Frontier ==
    /\ fifo \in Seq(visited)
    /\ src \notin vertexies => fifo = <<src>>
    /\ \A v \in visited : Holds(fifo, v) \/ Explored(v)

Complete == src \in vertexies /\ \A v \in visited : Explored(v)

-----------------------------------------------------------------------------
(* FindPath: the way back *)

\* The n-th vertex on the way back
Stop(n) == IF n = 1 THEN dst ELSE result[n - 1].V

Element == [V : Vertex, E : edges]

WayBack ==
    /\ result \in Seq(Element)
    /\ at = Stop(Len(result) + 1)
    /\ \A n \in 1..Len(result) : Stop(n) \in visited \ {src} /\ result[n] = prev[Stop(n)]
    /\ \A n, k \in 1..(Len(result) + 1) : n # k => Stop(n) # Stop(k)

TreeReady ==
    /\ vertexies \in SUBSET Vertex /\ edges \in SUBSET Edge /\ KnownInput
    /\ SpanningForest(vertexies, edges, enabled)

SearchInv ==
    /\ pc \in {"start", "loop", "done", "search", "back", "found"}
    /\ src \in Vertex /\ dst \in Vertex
    /\ pc \in {"start", "loop", "done"} => IInv /\ DOMAIN prev = {} /\ result = <<>>
    /\ pc \in {"search", "back"} => TreeReady /\ Tree /\ Reached
    /\ pc = "search" => Frontier /\ result = <<>>
    /\ pc = "back" => Complete /\ WayBack
    /\ PathsRight

-----------------------------------------------------------------------------
(* Lemmas about the search *)

\* The point of an edge that FindPath goes on to
LEMMA OtherEnd ==
    ASSUME TreeReady, NEW v, NEW e \in Usable(v)
    PROVE  e \in enabled /\ e \in edges /\ Ends(e) = {v, Other(v, e)} /\ Ends(e) \subseteq vertexies
<1>1. e \in edges /\ e \in enabled /\ v \in Ends(e)
  BY DEF Usable
<1>2. PICK x, y \in Vertex : Ends(e) = {x, y}
  BY <1>1, EdgeEnds DEF TreeReady
<1>3. Ends(e) = {v, Other(v, e)}
  <2>1. CASE Ends(e) = {v}
    BY <2>1 DEF Other
  <2>2. CASE Ends(e) # {v}
    <3>1. \E w \in Ends(e) : w # v
      BY <1>1, <2>2
    <3>2. Other(v, e) \in Ends(e) /\ Other(v, e) # v
      BY <2>2, <3>1 DEF Other
    <3> QED BY <1>1, <1>2, <3>2
  <2> QED BY <2>1, <2>2
<1> QED BY <1>1, <1>3 DEF TreeReady, KnownInput

\* The vertices in the order in which they are enqueued
LEMMA Order ==
    ASSUME NEW S, IsFiniteSet(S), NEW q \in SetToSeqs(S)
    PROVE  q \in Seq(S) /\ \A x \in S : Holds(q, x)
<1>1. Cardinality(S) \in Nat
  BY FS_CardinalityType
<1>2. q \in [1..Cardinality(S) -> S] /\ IsInjective(q)
  BY DEF SetToSeqs, IsInjective
<1>3. q \in Seq(S) /\ Len(q) = Cardinality(S)
  BY <1>1, <1>2
<1>4. q \in Injection(1..Cardinality(S), S)
  BY <1>2 DEF Injection
<1>5. Cardinality(1..Cardinality(S)) = Cardinality(S)
  BY <1>1, FS_Interval
<1>6. q \in Surjection(1..Cardinality(S), S)
  BY <1>4, <1>5, FS_Injection
<1> QED BY <1>3, <1>6 DEF Surjection, Holds

\* What is in a queue after its head was taken and others were appended
LEMMA Dequeued ==
    ASSUME NEW X, NEW q \in Seq(X), q # <<>>, NEW r \in Seq(X), NEW t, t = Tail(q) \o r
    PROVE  /\ t \in Seq(X)
           /\ \A x : Holds(q, x) => x = Head(q) \/ Holds(t, x)
           /\ \A x : Holds(r, x) => Holds(t, x)
<1> DEFINE s == Tail(q)
<1>1. /\ s \in Seq(X) /\ Len(s) = Len(q) - 1 /\ Len(q) \in Nat \ {0} /\ Len(r) \in Nat
      /\ \A j \in 1..Len(s) : s[j] = q[j + 1]
  BY HeadTailProperties, EmptySeq, LenProperties
<1>2. Head(q) = q[1]
  BY HeadTailProperties
<1>3. t = s \o r
  OBVIOUS
<1> HIDE DEF s
<1>4. /\ t \in Seq(X) /\ Len(t) = Len(s) + Len(r)
      /\ \A j \in 1..(Len(s) + Len(r)) : t[j] = IF j <= Len(s) THEN s[j] ELSE r[j - Len(s)]
  BY <1>1, <1>3, ConcatProperties
<1>5. ASSUME NEW i \in 1..Len(q), i # 1 PROVE Holds(t, q[i])
  <2>1. i - 1 \in 1..Len(s) /\ i - 1 \in 1..Len(t) /\ (i - 1) + 1 = i
    BY <1>1, <1>4, <1>5
  <2>2. t[i - 1] = q[i]
    BY <1>1, <1>4, <2>1
  <2> QED BY <2>1, <2>2 DEF Holds
<1>6. ASSUME NEW i \in 1..Len(r) PROVE Holds(t, r[i])
  <2>1. i + Len(s) \in 1..Len(t) /\ ~(i + Len(s) <= Len(s)) /\ (i + Len(s)) - Len(s) = i
    BY <1>1, <1>4
  <2>2. t[i + Len(s)] = r[i]
    BY <1>1, <1>4, <2>1
  <2> QED BY <2>1, <2>2 DEF Holds
<1>7. \A x : Holds(q, x) => x = Head(q) \/ Holds(t, x)
  BY <1>2, <1>5 DEF Holds
<1>8. \A x : Holds(r, x) => Holds(t, x)
  BY <1>6 DEF Holds
<1> QED BY <1>4, <1>7, <1>8

\* A search that is complete has visited what the edges connect to src.
LEMMA VisitedConnected ==
    ASSUME TreeReady, Tree, Reached, Complete, NEW v \in Vertex
    PROVE  v \in visited <=> v \in vertexies /\ Connected(src, v, vertexies, edges)
<1>1. visited \in SUBSET vertexies /\ src \in visited
  BY DEF Tree, Complete
<1>2. Closed(visited, enabled)
  <2> SUFFICES ASSUME NEW e \in enabled, NEW w \in Ends(e), w \in visited
               PROVE  Ends(e) \subseteq visited
    BY DEF Closed
  <2>1. e \in Usable(w)
    BY DEF Usable, TreeReady, SpanningForest
  <2> QED BY <2>1 DEF Complete, Explored
<1>3. Closed(visited, edges)
  BY <1>1, <1>2 DEF TreeReady, SpanningForest, Spanning
<1>4. ASSUME v \in vertexies, Connected(src, v, vertexies, edges) PROVE v \in visited
  BY <1>1, <1>3, <1>4 DEF Connected
<1>5. ASSUME v \in visited, NEW S \in SUBSET vertexies, Closed(S, edges), src \in S
      PROVE  v \in S
  <2>1. Closed(S, enabled)
    BY <1>5, ClosedMono DEF TreeReady, SpanningForest
  <2> QED BY <1>5, <2>1 DEF Reached
<1> QED BY <1>1, <1>4, <1>5 DEF Connected

-----------------------------------------------------------------------------
(* The steps of FindPath *)

\* One vertex is visited, and those behind it are enqueued.
LEMMA VisitInv ==
    ASSUME TreeReady, Tree, Reached, Frontier, Visit, Head(fifo) \in vertexies
    PROVE  TreeReady' /\ Tree' /\ Reached' /\ Frontier'
<1> DEFINE v == Head(fifo)
           new == {Other(v, e) : e \in Usable(v)} \ visited
<1>1. /\ visited' = visited \cup new
      /\ \E via \in [new -> Usable(v)] :
            /\ \A w \in new : Other(v, via[w]) = w
            /\ prev' = [w \in DOMAIN prev \cup new |->
                            IF w \in new THEN [V |-> v, E |-> via[w]] ELSE prev[w]]
      /\ \E order \in SetToSeqs(new) : fifo' = Tail(fifo) \o order
      /\ fifo # <<>>
  BY DEF Visit
<1>2. UNCHANGED <<vertexies, edges, enabled, src>>
  BY DEF Visit, treeVars, inputs
<1>3. TreeReady'
  BY <1>2 DEF TreeReady, KnownInput
<1>4. v \in visited /\ v \in vertexies
  <2>1. Head(fifo) \in visited
    BY <1>1, HeadTailProperties DEF Frontier
  <2> QED BY <2>1
<1>5. src \in vertexies
  <2>1. CASE src \notin vertexies
    <3>1. Head(fifo) = src
      BY <2>1 DEF Frontier
    <3> QED BY <2>1, <3>1
  <2> QED BY <2>1
<1>6. \A e \in Usable(v) : e \in enabled /\ Ends(e) = {v, Other(v, e)} /\ Ends(e) \subseteq vertexies
  BY OtherEnd
<1>7. new \subseteq vertexies /\ new \cap visited = {}
  BY <1>6
<1>8. PICK via \in [new -> Usable(v)] :
            /\ \A w \in new : Other(v, via[w]) = w
            /\ prev' = [w \in DOMAIN prev \cup new |->
                            IF w \in new THEN [V |-> v, E |-> via[w]] ELSE prev[w]]
  BY <1>1
<1>9. DOMAIN prev = visited \ {src}
  BY DEF Tree
<1>10. visited' \ {src} = (visited \ {src}) \cup new
  BY <1>1, <1>7 DEF Tree
<1>11. \A w \in new : via[w] \in Usable(v) /\ Other(v, via[w]) = w
  BY <1>8
<1> HIDE DEF v, new
<1>12. \A w \in new : /\ prev'[w] = [V |-> v, E |-> via[w]]
                      /\ prev'[w].V = v /\ prev'[w].E = via[w]
  <2> SUFFICES ASSUME NEW w \in new
               PROVE  /\ prev'[w] = [V |-> v, E |-> via[w]]
                      /\ prev'[w].V = v /\ prev'[w].E = via[w]
    OBVIOUS
  <2>1. prev'[w] = [V |-> v, E |-> via[w]]
    BY <1>8
  <2>2. [V |-> v, E |-> via[w]].V = v /\ [V |-> v, E |-> via[w]].E = via[w]
    OBVIOUS
  <2> QED BY <2>1, <2>2
<1>13. \A w \in visited \ {src} : prev'[w] = prev[w]
  BY <1>7, <1>8, <1>9
<1>14. prev' = [w \in visited' \ {src} |-> prev'[w]]
  BY <1>8, <1>9, <1>10
<1>15. ASSUME NEW w \in visited' \ {src} PROVE LeadsTo(prev[w], w)'
  <2>1. CASE w \in new
    <3>1. via[w] \in enabled /\ Ends(via[w]) = {v, w}
      BY <1>6, <1>11, <2>1
    <3> QED BY <1>1, <1>2, <1>4, <1>12, <2>1, <3>1 DEF LeadsTo
  <2>2. CASE w \in visited \ {src}
    <3>1. LeadsTo(prev[w], w)
      BY <2>2 DEF Tree
    <3> QED BY <1>1, <1>2, <1>13, <2>2, <3>1 DEF LeadsTo, new
  <2> QED BY <1>10, <2>1, <2>2
<1>16. ASSUME NEW S \in SUBSET (visited' \ {src}), S # {}
       PROVE  \E w \in S : prev'[w].V \notin S
  <2> DEFINE Old == S \cap (visited \ {src})
  <2>1. CASE Old # {}
    <3>1. PICK w \in Old : prev[w].V \notin Old
      BY <2>1 DEF Tree
    <3>2. prev[w].V \in visited
      BY DEF Tree, LeadsTo
    <3>3. prev[w].V \notin S
      BY <1>7, <1>10, <3>1, <3>2
    <3> QED BY <1>13, <3>1, <3>3
  <2>2. CASE Old = {}
    <3>1. S \subseteq new
      BY <1>10, <2>2
    <3>2. PICK w \in S : w \in new
      BY <1>16, <3>1
    <3>3. prev'[w].V = v
      BY <1>12, <3>2
    <3>4. v \notin S
      BY <1>4, <1>7, <3>1
    <3> QED BY <3>2, <3>3, <3>4
  <2> QED BY <2>1, <2>2
<1>17. Tree'
  <2>1. src \in visited' /\ visited' \subseteq vertexies \cup {src}
    BY <1>1, <1>7 DEF Tree, new
  <2> QED BY <1>2, <1>14, <1>15, <1>16, <2>1 DEF Tree
<1>18. Reached'
  <2> SUFFICES ASSUME NEW S \in SUBSET vertexies, Closed(S, enabled), src \in S, NEW w \in new
               PROVE  w \in S
    BY <1>1, <1>2 DEF Reached, new
  <2>1. v \in S
    BY <1>4 DEF Reached
  <2>2. via[w] \in enabled /\ Ends(via[w]) = {v, w}
    BY <1>6, <1>11
  <2> QED BY <2>1, <2>2 DEF Closed
<1>19. Frontier'
  <2>1. PICK order \in SetToSeqs(new) : fifo' = Tail(fifo) \o order
    BY <1>1 DEF new, v
  <2>2. IsFiniteSet(new)
    <3>1. new \in SUBSET Vertex
      BY <1>7 DEF TreeReady
    <3> QED BY <3>1, VertexFinite, FS_Subset
  <2>3. order \in Seq(new) /\ \A x \in new : Holds(order, x)
    BY <2>1, <2>2, Order
  <2>4. visited' = visited \cup new
    BY <1>1 DEF new, v
  <2>5. order \in Seq(visited') /\ fifo \in Seq(visited')
    BY <2>3, <2>4, SeqMonotonic DEF Frontier
  <2>6. /\ fifo' \in Seq(visited')
        /\ \A x : Holds(fifo, x) => x = v \/ Holds(fifo', x)
        /\ \A x : Holds(order, x) => Holds(fifo', x)
    <3>1. fifo # <<>>
      BY <1>1
    <3> QED BY <2>1, <2>5, <3>1, Dequeued DEF v
  <2>7. ASSUME NEW w \in visited'
        PROVE  Holds(fifo, w)' \/ Explored(w)'
    <3>1. CASE w \in new
      BY <2>3, <2>6, <3>1 DEF Holds
    <3>2. CASE w = v
      <4>1. \A e \in Usable(v) : Other(v, e) \in visited \cup new
        BY DEF new
      <4>2. \A e \in Usable(v) : Ends(e) \subseteq visited'
        BY <1>4, <1>6, <2>4, <4>1
      <4> QED BY <1>2, <3>2, <4>2 DEF Explored, Usable
    <3>3. CASE w \in visited /\ w # v
      <4>1. Holds(fifo, w) \/ Explored(w)
        BY <3>3 DEF Frontier
      <4>2. Explored(w) => Explored(w)'
        BY <1>2, <2>4 DEF Explored, Usable
      <4>3. Holds(fifo', w) => Holds(fifo, w)'
        BY DEF Holds
      <4> QED BY <2>6, <3>3, <4>1, <4>2, <4>3
    <3> QED BY <2>4, <3>1, <3>2, <3>3
  <2> QED BY <1>2, <1>5, <2>6, <2>7 DEF Frontier
<1> QED BY <1>3, <1>17, <1>18, <1>19

\* The call: the source is visited and enqueued.
LEMMA CallInv ==
    ASSUME IInv, pc = "done", DOMAIN prev = {}, NEW s \in Vertex, NEW d \in Vertex, FindPath(s, d),
           edges # {}, vertexies # {}
    PROVE  TreeReady' /\ Tree' /\ Reached' /\ Frontier'
<1>1. /\ UNCHANGED <<vertexies, edges, enabled, prev>>
      /\ src' = s /\ visited' = {s} /\ fifo' = <<s>>
  BY DEF FindPath, treeVars, inputs
<1>2. TreeReady'
  BY <1>1 DEF TreeReady, IInv, TypeOK, KnownInput, SpanningForestWhenDone
<1>3. Tree'
  <2>1. visited' \ {s} = {}
    BY <1>1
  <2>2. prev' = [w \in visited' \ {s} |-> prev'[w]]
    BY <1>1, <2>1 DEF FindPath
  <2> QED BY <1>1, <2>1, <2>2 DEF Tree
<1>4. Reached'
  BY <1>1 DEF Reached
<1>5. Frontier'
  <2>1. fifo' \in Seq(visited')
    BY <1>1
  <2>2. Holds(fifo, s)'
    BY <1>1 DEF Holds
  <2> QED BY <1>1, <2>1, <2>2 DEF Frontier
<1> QED BY <1>2, <1>3, <1>4, <1>5

\* The empty queue: everything is explored.
LEMMA SearchedInv ==
    ASSUME TreeReady, Frontier, Tree, Searched, result = <<>>
    PROVE  Complete' /\ WayBack'
<1>1. /\ UNCHANGED <<vertexies, edges, enabled, src, dst, visited, prev, result>>
      /\ fifo = <<>> /\ at' = dst
  BY DEF Searched, treeVars, inputs
<1>2. \A v : ~Holds(fifo, v)
  BY <1>1 DEF Holds
<1>3. Complete
  BY <1>1, <1>2 DEF Frontier, Complete
<1>4. Complete'
  BY <1>1, <1>3 DEF Complete, Explored, Usable
<1>5. WayBack'
  BY <1>1 DEF WayBack, Stop
<1> QED BY <1>4, <1>5

\* A step back leads to a vertex that is new on the way: the vertices of a
\* circle would be a set from which prev does not lead out.
LEMMA BackInv ==
    ASSUME TreeReady, Tree, WayBack, Back, src \in Vertex
    PROVE  WayBack'
<1>0. PICK n \in Nat : n = Len(result)
  BY LenProperties DEF WayBack
<1>1. /\ UNCHANGED <<vertexies, edges, enabled, src, dst, visited, prev>>
      /\ at \in visited \ {src}
      /\ result' = Append(result, prev[at]) /\ at' = prev[at].V
  BY DEF Back, Tree, treeVars, inputs
<1>2. n \in Nat /\ n = Len(result) /\ result \in Seq(Element)
  BY <1>0 DEF WayBack
<1>3. /\ prev[at] = [V |-> prev[at].V, E |-> prev[at].E]
      /\ prev[at].V \in visited /\ prev[at].E \in enabled
  BY <1>1 DEF Tree, LeadsTo
<1>4. prev[at] \in Element
  <2>1. visited \subseteq Vertex /\ enabled \subseteq edges
    BY <1>1, EdgeEnds DEF TreeReady, Tree, SpanningForest, LeadsTo, KnownInput
  <2> QED BY <1>3, <2>1 DEF Element
<1>5. /\ result' \in Seq(Element) /\ Len(result') = n + 1
      /\ \A i \in 1..n : result'[i] = result[i]
      /\ result'[n + 1] = prev[at]
  BY <1>1, <1>2, <1>4, AppendProperties
<1>6. Element' = Element
  BY <1>1 DEF Element
<1>7. \A k \in 1..(n + 1) : Stop(k)' = Stop(k)
  BY <1>1, <1>2, <1>5 DEF Stop
<1>8. Stop(n + 2)' = prev[at].V /\ Stop(n + 1) = at
  <2>1. ~(n + 2 = 1) /\ (n + 2) - 1 = n + 1
    BY <1>2
  <2> QED BY <1>2, <1>5, <2>1 DEF Stop, WayBack
<1>9. \A k \in 1..n : Stop(k) \in visited \ {src} /\ prev[Stop(k)].V = Stop(k + 1)
  <2> SUFFICES ASSUME NEW k \in 1..n PROVE Stop(k) \in visited \ {src} /\ prev[Stop(k)].V = Stop(k + 1)
    OBVIOUS
  <2>1. Stop(k) \in visited \ {src} /\ result[k] = prev[Stop(k)]
    BY <1>2 DEF WayBack
  <2>2. ~(k + 1 = 1) /\ (k + 1) - 1 = k
    BY <1>2
  <2> QED BY <2>1, <2>2 DEF Stop
<1>10. ASSUME NEW j \in 1..(n + 1), prev[at].V = Stop(j) PROVE FALSE
  <2> DEFINE C == {Stop(k) : k \in j..(n + 1)}
  <2>1. \A k \in j..(n + 1) : Stop(k) \in visited \ {src} /\ prev[Stop(k)].V \in C
    <3> SUFFICES ASSUME NEW k \in j..(n + 1)
                 PROVE  Stop(k) \in visited \ {src} /\ prev[Stop(k)].V \in C
      OBVIOUS
    <3>1. CASE k = n + 1
      <4>1. j \in j..(n + 1)
        BY <1>2
      <4> QED BY <1>1, <1>8, <1>10, <3>1, <4>1
    <3>2. CASE k # n + 1
      <4>1. k \in 1..n /\ k + 1 \in j..(n + 1)
        BY <1>2, <3>2
      <4> QED BY <1>9, <4>1
    <3> QED BY <3>1, <3>2
  <2>2. C # {} /\ C \in SUBSET (visited \ {src})
    <3>1. j \in j..(n + 1)
      BY <1>2
    <3> QED BY <2>1, <3>1
  <2>3. PICK w \in C : prev[w].V \notin C
    BY <2>2 DEF Tree
  <2> QED BY <2>1, <2>3
<1>11. ASSUME NEW i \in 1..(n + 2), NEW j \in 1..(n + 2), i # j PROVE Stop(i)' # Stop(j)'
  <2>1. \A k \in 1..(n + 2) : k = n + 2 \/ k \in 1..(n + 1)
    BY <1>2
  <2>2. CASE i \in 1..(n + 1) /\ j \in 1..(n + 1)
    BY <1>2, <1>7, <1>11, <2>2 DEF WayBack
  <2>3. CASE i = n + 2 /\ j \in 1..(n + 1)
    BY <1>7, <1>8, <1>10, <2>3
  <2>4. CASE j = n + 2 /\ i \in 1..(n + 1)
    BY <1>7, <1>8, <1>10, <2>4
  <2> QED BY <1>11, <2>1, <2>2, <2>3, <2>4
<1>12. ASSUME NEW k \in 1..(n + 1)
       PROVE  Stop(k)' \in visited \ {src} /\ result'[k] = prev[Stop(k)']
  <2>1. CASE k = n + 1
    BY <1>1, <1>5, <1>7, <1>8, <2>1
  <2>2. CASE k # n + 1
    <3>1. k \in 1..n
      BY <1>2, <2>2
    <3> QED BY <1>2, <1>5, <1>7, <3>1 DEF WayBack
  <2> QED BY <2>1, <2>2
<1>13. Len(result') + 1 = n + 2
  BY <1>2, <1>5
<1> QED BY <1>1, <1>5, <1>6, <1>8, <1>11, <1>12, <1>13 DEF WayBack

\* The way has come to its end: turned round, it is the path.
LEMMA ReturnRight ==
    ASSUME TreeReady, Tree, Reached, Complete, WayBack, Return, src \in Vertex, dst \in Vertex
    PROVE  PathsRight'
<1> DEFINE n == Len(result)
<1>1. /\ UNCHANGED <<vertexies, edges, enabled, src, dst, visited, prev>>
      /\ at \notin visited \ {src}
      /\ result' = Reverse(result)
  BY DEF Return, Tree, treeVars, inputs
<1>2. n \in Nat /\ result \in Seq(Element)
  BY LenProperties DEF WayBack
<1>3. /\ result' = [i \in 1..n |-> result[(n - i) + 1]]
  BY <1>1 DEF Reverse
<1>4. Len(result') = n /\ DOMAIN result' = 1..n
  BY <1>2, <1>3
<1>5. result' # <<>> <=> n # 0
  BY <1>2, <1>3, <1>4
<1> HIDE DEF n
\* The i-th element of the path is the one that leads to Stop(n + 1 - i).
<1>6. ASSUME NEW i \in 1..n
      PROVE  LET k == n + 1 - i
             IN  /\ k \in 1..n /\ Stop(k) \in visited \ {src}
                 /\ result'[i] = prev[Stop(k)] /\ prev[Stop(k)].V = Stop(k + 1)
                 /\ To(i)' = Stop(k)
  <2> DEFINE k == n + 1 - i
  <2>1. k \in 1..n /\ (n - i) + 1 = k /\ ~(k + 1 = 1) /\ (k + 1) - 1 = k
    BY <1>2
  <2>2. Stop(k) \in visited \ {src} /\ result[k] = prev[Stop(k)]
    BY <2>1 DEF WayBack, n
  <2>3. result'[i] = result[k] /\ Stop(k + 1) = result[k].V
    BY <1>3, <2>1 DEF Stop
  <2>4. To(i)' = Stop(k)
    <3>1. CASE i = n
      <4>1. k = 1
        BY <1>2, <3>1
      <4> QED BY <1>1, <1>4, <3>1, <4>1 DEF To, Stop
    <3>2. CASE i # n
      <4>1. i + 1 \in 1..n /\ (n - (i + 1)) + 1 = k - 1 /\ k # 1
        BY <1>2, <3>2
      <4>2. result'[i + 1] = result[k - 1]
        BY <1>3, <4>1
      <4> QED BY <1>4, <3>2, <4>1, <4>2 DEF To, Stop
    <3> QED BY <3>1, <3>2
  <2> QED BY <2>1, <2>2, <2>3, <2>4
<1>7. \A i, j \in 1..(n + 1) : i # j => Stop(i) # Stop(j)
  BY DEF WayBack, n
<1>8. ASSUME NEW i \in 1..n
      PROVE  /\ result'[i].E \in enabled
             /\ Ends(result'[i].E) = {result'[i].V, To(i)'}
             /\ \A j \in 1..n : i # j => result'[i].V # result'[j].V
             /\ result'[i].V # dst
  <2> DEFINE k == n + 1 - i
  <2>1. /\ k \in 1..n /\ Stop(k) \in visited \ {src}
        /\ result'[i] = prev[Stop(k)] /\ result'[i].V = Stop(k + 1)
        /\ To(i)' = Stop(k)
    BY <1>6
  <2>2. result'[i].E \in enabled /\ Ends(result'[i].E) = {result'[i].V, To(i)'}
    BY <2>1 DEF Tree, LeadsTo
  <2>3. ASSUME NEW j \in 1..n, i # j PROVE result'[i].V # result'[j].V
    <3>1. result'[j].V = Stop((n + 1 - j) + 1)
      BY <1>6
    <3>2. k + 1 # (n + 1 - j) + 1 /\ k + 1 \in 1..(n + 1) /\ (n + 1 - j) + 1 \in 1..(n + 1)
      BY <1>2, <2>3
    <3> QED BY <1>7, <2>1, <3>1, <3>2
  <2>4. result'[i].V # dst
    <3>1. k + 1 # 1 /\ k + 1 \in 1..(n + 1) /\ 1 \in 1..(n + 1)
      BY <1>2, <2>1
    <3>2. Stop(1) = dst
      BY DEF Stop
    <3> HIDE DEF k
    <3> QED BY <1>7, <2>1, <3>1, <3>2
  <2> QED BY <2>2, <2>3, <2>4
<1>9. n # 0 => result'[1].V = src
  <2> SUFFICES ASSUME n # 0 PROVE result'[1].V = src
    OBVIOUS
  <2>1. 1 \in 1..n /\ n + 1 - 1 = n /\ n \in 1..n
    BY <1>2
  <2>2. Stop(n) \in visited \ {src} /\ result'[1] = prev[Stop(n)] /\ prev[Stop(n)].V = Stop(n + 1)
    BY <1>6, <2>1
  <2>3. Stop(n + 1) = at
    BY DEF WayBack, n
  <2>4. prev[Stop(n)].V \in visited
    BY <2>2 DEF Tree, LeadsTo
  <2> QED BY <1>1, <2>2, <2>3, <2>4
<1>10. n # 0 <=> dst \in visited \ {src}
  <2>1. CASE n = 0
    <3>1. at = dst
      BY <2>1 DEF WayBack, Stop, n
    <3> QED BY <1>1, <2>1, <3>1
  <2>2. CASE n # 0
    <3>1. 1 \in 1..n
      BY <1>2, <2>2
    <3>2. Stop(1) \in visited \ {src}
      BY <3>1 DEF WayBack, n
    <3> QED BY <2>2, <3>2 DEF Stop
  <2> QED BY <2>1, <2>2
<1>11. dst \in visited \ {src} <=> /\ {src, dst} \subseteq vertexies /\ src # dst
                                   /\ Connected(src, dst, vertexies, edges)
  BY VisitedConnected DEF Complete, Tree
<1> QED BY <1>1, <1>4, <1>5, <1>8, <1>9, <1>10, <1>11 DEF PathsRight

-----------------------------------------------------------------------------
\* Every step of calculateMST and FindPath keeps the invariant.
LEMMA SearchStep == SearchInv /\ [SearchNext]_<<vars, searchVars>> => SearchInv'
<1> SUFFICES ASSUME SearchInv, [SearchNext]_<<vars, searchVars>> PROVE SearchInv'
  OBVIOUS
<1>1. CASE Next /\ UNCHANGED searchVars
  <2>1. pc \in {"start", "loop"} /\ pc' \in {"start", "loop", "done"}
    BY <1>1 DEF Next, EarlyReturn, Reset, Skip, Take, Finish
  <2>2. IInv
    BY <2>1 DEF SearchInv
  <2>3. IInv'
    BY <1>1, <2>2, InvStep
  <2> QED BY <1>1, <2>1, <2>3 DEF SearchInv, searchVars, PathsRight
<1>2. ASSUME NEW s \in Vertex, NEW d \in Vertex, FindPath(s, d) PROVE SearchInv'
  <2>1. /\ pc = "done" /\ IInv /\ DOMAIN prev = {} /\ result = <<>>
        /\ src' = s /\ dst' = d /\ result' = result
        /\ UNCHANGED <<vertexies, edges, enabled>>
    BY <1>2 DEF SearchInv, FindPath, treeVars, inputs
  <2>2. CASE vertexies = {} \/ edges = {}
    <3>1. pc' = "found"
      BY <1>2, <2>2 DEF FindPath
    <3>2. KnownInput' /\ edges' = {}
      <4>1. edges = {}
        BY <2>1, <2>2, EdgeEnds DEF IInv, TypeOK, KnownInput
      <4> QED BY <2>1, <4>1 DEF KnownInput
    <3>3. PathsRight'
      <4>1. ASSUME src' \in vertexies', src' # dst' PROVE ~Connected(src, dst, vertexies, edges)'
        <5>1. Closed({src'}, edges') /\ {src'} \in SUBSET vertexies'
          BY <3>2, <4>1 DEF Closed
        <5> QED BY <4>1, <5>1 DEF Connected
      <4> QED BY <2>1, <4>1 DEF PathsRight
    <3> QED BY <2>1, <3>1, <3>3 DEF SearchInv
  <2>3. CASE vertexies # {} /\ edges # {}
    <3>1. pc' = "search"
      BY <1>2, <2>3 DEF FindPath
    <3>2. TreeReady' /\ Tree' /\ Reached' /\ Frontier'
      BY <1>2, <2>1, <2>3, CallInv
    <3> QED BY <2>1, <3>1, <3>2 DEF SearchInv, PathsRight
  <2> QED BY <2>2, <2>3
<1>3. CASE Visit
  <2>1. /\ pc = "search" /\ TreeReady /\ Tree /\ Reached /\ Frontier /\ result = <<>>
        /\ UNCHANGED <<vertexies, edges, enabled, src, dst, result>>
    BY <1>3 DEF SearchInv, Visit, treeVars, inputs
  <2>2. CASE Head(fifo) \in vertexies
    <3>1. pc' = "search"
      BY <1>3, <2>1, <2>2 DEF Visit
    <3>2. TreeReady' /\ Tree' /\ Reached' /\ Frontier'
      BY <1>3, <2>1, <2>2, VisitInv
    <3> QED BY <2>1, <3>1, <3>2 DEF SearchInv, PathsRight
  <2>3. CASE Head(fifo) \notin vertexies
    <3>1. pc' = "found"
      BY <1>3, <2>3 DEF Visit
    <3>2. src \notin vertexies
      <4>1. Head(fifo) \in visited
        BY <1>3, <2>1, HeadTailProperties DEF Visit, Frontier
      <4> QED BY <2>1, <2>3, <4>1 DEF Tree
    <3>3. PathsRight'
      BY <2>1, <3>2 DEF PathsRight
    <3> QED BY <2>1, <3>1, <3>3 DEF SearchInv
  <2> QED BY <2>2, <2>3
<1>4. CASE Searched
  <2>1. /\ pc = "search" /\ pc' = "back"
        /\ TreeReady /\ Tree /\ Reached /\ Frontier /\ result = <<>>
        /\ UNCHANGED <<vertexies, edges, enabled, src, dst, visited, prev>>
    BY <1>4 DEF SearchInv, Searched, treeVars, inputs
  <2>2. TreeReady' /\ Tree' /\ Reached'
    BY <2>1 DEF TreeReady, KnownInput, Tree, LeadsTo, Reached
  <2>3. Complete' /\ WayBack'
    BY <1>4, <2>1, SearchedInv
  <2> QED BY <2>1, <2>2, <2>3 DEF SearchInv, PathsRight
<1>5. CASE Back
  <2>1. /\ pc = "back" /\ pc' = "back"
        /\ TreeReady /\ Tree /\ Reached /\ Complete /\ WayBack /\ src \in Vertex
        /\ UNCHANGED <<vertexies, edges, enabled, src, dst, visited, prev>>
    BY <1>5 DEF SearchInv, Back, treeVars, inputs
  <2>2. TreeReady' /\ Tree' /\ Reached' /\ Complete'
    BY <2>1 DEF TreeReady, KnownInput, Tree, LeadsTo, Reached, Complete, Explored, Usable
  <2>3. WayBack'
    BY <1>5, <2>1, BackInv
  <2> QED BY <2>1, <2>2, <2>3 DEF SearchInv, PathsRight
<1>6. CASE Return
  <2>1. /\ pc = "back" /\ pc' = "found"
        /\ TreeReady /\ Tree /\ Reached /\ Complete /\ WayBack /\ src \in Vertex /\ dst \in Vertex
        /\ UNCHANGED <<src, dst>>
    BY <1>6 DEF SearchInv, Return
  <2>2. PathsRight'
    BY <1>6, <2>1, ReturnRight
  <2> QED BY <2>1, <2>2 DEF SearchInv
<1>7. CASE UNCHANGED <<vars, searchVars>>
  <2>1. IInv => IInv'
    BY <1>7, InvStep DEF vars
  <2>2. (TreeReady => TreeReady') /\ (Reached => Reached') /\ (Complete => Complete')
    BY <1>7 DEF vars, searchVars, TreeReady, KnownInput, Reached, Complete, Explored, Usable
  <2>3. Tree => Tree'
    BY <1>7 DEF vars, searchVars, Tree, LeadsTo
  <2>4. Frontier => Frontier'
    BY <1>7 DEF vars, searchVars, Frontier, Holds, Explored, Usable
  <2>5. WayBack => WayBack'
    BY <1>7 DEF vars, searchVars, WayBack, Element, Stop
  <2>6. PathsRight => PathsRight'
    BY <1>7 DEF vars, searchVars, PathsRight, To
  <2> QED BY <1>7, <2>1, <2>2, <2>3, <2>4, <2>5, <2>6 DEF vars, searchVars, SearchInv
<1> QED BY <1>1, <1>2, <1>3, <1>4, <1>5, <1>6, <1>7 DEF SearchNext

LEMMA SearchInvariant == SearchSpec => []SearchInv
<1>1. SearchInit => SearchInv
  BY DEF SearchInit, SearchInv, Init, IInv, TypeOK, KnownInput, SpanningForestWhenDone,
         MinimumWhenDone, PathsRight
<1> QED BY <1>1, SearchStep, PTL DEF SearchSpec

\* FindPath (graph.go), which tells L2Switch the way out of a device, finds
\* over the tree a simple path between every two switches that the links
\* connect, and none between others, in every graph.
THEOREM PathsRightThm == SearchSpec => []PathsRight
<1>1. SearchInv => PathsRight
  BY DEF SearchInv
<1> QED BY <1>1, SearchInvariant, PTL

\* The loop of FindPath that follows prev back has no bound of its own.  It
\* takes fewer turns than there are vertices.
FewTurns == pc = "back" => Len(result) < Cardinality(Vertex)

LEMMA DistinctStops ==
    ASSUME TreeReady, Tree, WayBack, src \in Vertex, dst \in Vertex
    PROVE  Len(result) < Cardinality(Vertex)
<1>1. PICK n \in Nat : n = Len(result)
  BY LenProperties DEF WayBack
<1>2. visited \subseteq Vertex
  BY DEF TreeReady, Tree
<1>3. \A k \in 1..n : Stop(k) \in visited \ {src} /\ result[k] = prev[Stop(k)]
  BY <1>1 DEF WayBack
<1>4. ASSUME NEW k \in 1..(n + 1) PROVE Stop(k) \in Vertex
  <2>1. CASE k = 1
    BY <2>1 DEF Stop
  <2>2. CASE k # 1
    <3>1. k - 1 \in 1..n
      BY <2>2
    <3>2. Stop(k) = prev[Stop(k - 1)].V /\ Stop(k - 1) \in visited \ {src}
      BY <1>3, <2>2, <3>1 DEF Stop
    <3>3. prev[Stop(k - 1)].V \in visited
      BY <3>2 DEF Tree, LeadsTo
    <3> QED BY <1>2, <3>2, <3>3
  <2> QED BY <2>1, <2>2
<1> DEFINE f == [k \in 1..(n + 1) |-> Stop(k)]
<1>5. f \in Injection(1..(n + 1), Vertex)
  <2>1. f \in [1..(n + 1) -> Vertex]
    BY <1>4
  <2>2. \A j, k \in 1..(n + 1) : f[j] = f[k] => j = k
    BY <1>1 DEF WayBack
  <2> HIDE DEF f
  <2> QED BY <2>1, <2>2 DEF Injection, IsInjective
<1>6. Cardinality(1..(n + 1)) = n + 1 /\ IsFiniteSet(1..(n + 1))
  BY FS_Interval
<1>7. Cardinality(1..(n + 1)) <= Cardinality(Vertex)
  <2> HIDE DEF f
  <2> QED BY <1>5, VertexFinite, FS_Injection
<1>8. Cardinality(Vertex) \in Nat
  BY VertexFinite, FS_CardinalityType
<1> QED BY <1>1, <1>6, <1>7, <1>8

\* That loop (graph.go) ends, in every graph and for every two devices.
THEOREM FewTurnsThm == SearchSpec => []FewTurns
<1>1. SearchInv => FewTurns
  BY DistinctStops DEF SearchInv, FewTurns
<1> QED BY <1>1, SearchInvariant, PTL
=============================================================================
