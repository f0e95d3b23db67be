---------------------------- MODULE MCSequential ----------------------------
(***************************************************************************)
(* The parts of the controller in which nothing runs concurrently: the     *)
(* computation of the tree and the path search (MST, PathSearch), the      *)
(* storm controller (StormController) and the matches (MatchPair).  They   *)
(* share no state: each is explored while the others are at rest, so the   *)
(* states add up instead of multiplying.                                   *)
(*                                                                         *)
(* The graphs: four vertices and seven links among them: a cycle of four,  *)
(* a chord, a link parallel to one of these and a switch cabled to itself. *)
(* Every sub-multigraph is an input, and the links come in two weights, so *)
(* both ties and strict comparisons happen.                                *)
(***************************************************************************)
EXTENDS PathSearch, StormController, MatchPair

CONSTANTS a, b, c, d

MCEdge == { {<<a, 1>>, <<b, 1>>}, {<<b, 2>>, <<c, 1>>}, {<<c, 2>>, <<d, 1>>},
            {<<d, 2>>, <<a, 2>>}, {<<a, 3>>, <<c, 3>>}, {<<a, 4>>, <<b, 4>>},
            {<<c, 4>>, <<c, 5>>} }

\* Links on port 2 weigh 0, the others weigh 1.
MCWeight == [e \in Edge |-> IF \E p \in e : p[2] = 2 THEN 0 ELSE 1]

graphVars == <<vars, searchVars>>

MCInit == SearchInit /\ newStormController /\ NewMatches

\* The search has returned: one of the many states in which it has.
Returned == pc = "found" /\ vertexies = {} /\ {src, dst, at} = {a}

MCNext ==
    \/ SearchNext /\ UNCHANGED <<stormVars, matchVars>>
    \/ Returned /\ NewMatches /\ StormNext /\ UNCHANGED <<graphVars, matchVars>>
    \/ Returned /\ newStormController /\ SetBoth /\ UNCHANGED <<graphVars, stormVars>>

MCSpec ==
    /\ MCInit /\ [][MCNext]_<<graphVars, stormVars, matchVars>>
    /\ WF_graphVars(SearchNext /\ UNCHANGED <<stormVars, matchVars>>)
=============================================================================
