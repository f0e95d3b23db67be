----------------------------- MODULE PathSearch -----------------------------
(***************************************************************************)
(* Graph.FindPath of graph/graph.go: a breadth-first search over the tree  *)
(* that calculateMST has enabled, one step per vertex taken from the       *)
(* queue.  The caller holds the graph's read lock, so the tree does not    *)
(* change meanwhile.                                                       *)
(*                                                                         *)
(* The search itself does not look at the destination, from which the way  *)
(* is followed back at the end.                                            *)
(***************************************************************************)
EXTENDS MST, Sequences, SequencesExt

VARIABLES
    src, dst,
    visited, prev,  \* prev[v]: the Path element that leads to v
    fifo,           \* the local `queue` of FindPath
    at,             \* the local `u`: where the way back has come to
    result

searchVars == <<src, dst, visited, prev, fifo, at, result>>
treeVars == <<inputs, enabled, queue, clusters, count>>

SearchInit ==
    /\ Init
    /\ src \in Vertex /\ dst = src /\ at = src
    /\ visited = {} /\ prev = [v \in {} |-> <<>>] /\ fifo = <<>> /\ result = <<>>

\* FindPath is called, maybe for devices that have left the graph.
FindPath(s, d) ==
    /\ pc = "done"
    /\ src' = s /\ dst' = d
    /\ \/ (vertexies = {} \/ edges = {}) /\ pc' = "found" /\ UNCHANGED <<visited, fifo>>
       \/ /\ vertexies # {} /\ edges # {}
          /\ visited' = {s} /\ fifo' = <<s>> /\ pc' = "search"
    /\ UNCHANGED <<treeVars, prev, at, result>>

\* Mutant of Usable: the edges outside of the tree are used, too.
Usable_Any(v) == {e \in edges : v \in Ends(e)}

\* "We only use edges that belong to MST."
Usable(v) == {e \in edges : v \in Ends(e) /\ e \in enabled}

\* The other end of e: v again if e is looped back.
Other(v, e) == IF Ends(e) = {v} THEN v ELSE CHOOSE w \in Ends(e) : w # v

\* The next vertex is dequeued and its edges are gone through, in any order.
Visit ==
    /\ pc = "search" /\ fifo # <<>>
    /\ LET v == Head(fifo)
           new == {Other(v, e) : e \in Usable(v)} \ visited
       IN  \/ v \notin vertexies /\ pc' = "found" /\ UNCHANGED <<visited, prev, fifo>>
           \/ /\ v \in vertexies
              /\ visited' = visited \cup new
              /\ \E via \in [new -> Usable(v)] :
                    /\ \A w \in new : Other(v, via[w]) = w
                    /\ prev' = [w \in DOMAIN prev \cup new |->
                                    IF w \in new THEN [V |-> v, E |-> via[w]] ELSE prev[w]]
              /\ \E order \in SetToSeqs(new) : fifo' = Tail(fifo) \o order
              /\ UNCHANGED pc
    /\ UNCHANGED <<treeVars, src, dst, at, result>>

\* The queue is empty.
Searched ==
    /\ pc = "search" /\ fifo = <<>>
    /\ pc' = "back" /\ at' = dst
    /\ UNCHANGED <<treeVars, src, dst, visited, prev, fifo, result>>

\* One step back
Back ==
    /\ pc = "back" /\ at \in DOMAIN prev
    /\ result' = Append(result, prev[at])
    /\ at' = prev[at].V
    /\ UNCHANGED <<treeVars, pc, src, dst, visited, prev, fifo>>

Return ==
    /\ pc = "back" /\ at \notin DOMAIN prev
    /\ result' = Reverse(result)
    /\ pc' = "found"
    /\ UNCHANGED <<treeVars, src, dst, visited, prev, fifo, at>>

SearchNext ==
    \/ Next /\ UNCHANGED searchVars
    \/ \E s, d \in Vertex : FindPath(s, d)
    \/ Visit \/ Searched \/ Back \/ Return

SearchSpec ==
    /\ SearchInit /\ [][SearchNext]_<<vars, searchVars>>
    /\ WF_<<vars, searchVars>>(SearchNext)

-----------------------------------------------------------------------------
(* Properties *)

\* The vertex where the i-th element of the result leads to
To(i) == IF i = Len(result) THEN dst ELSE result[i + 1].V

\* What L2Switch gets from FindPath, whose first element is its way out: for
\* every two switches that are connected, if only by links that are not
\* enabled, a simple path over enabled links whose elements fit together,
\* and nothing for all the others.
PathsRight ==
    pc = "found" =>
        /\ result # <<>> <=>
              /\ {src, dst} \subseteq vertexies /\ src # dst
              /\ Connected(src, dst, vertexies, edges)
        /\ result # <<>> => result[1].V = src
        /\ \A i \in DOMAIN result :
              /\ result[i].E \in enabled
              /\ Ends(result[i].E) = {result[i].V, To(i)}
              /\ \A j \in DOMAIN result : i # j => result[i].V # result[j].V
              /\ result[i].V # dst

\* calculateMST returns, and so does FindPath: the loop that follows prev
\* back, which has no bound of its own, does not go round in circles.
Returns == <>(pc = "found")
=============================================================================
