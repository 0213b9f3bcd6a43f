----------------------------- MODULE DagLayers -----------------------------
(***************************************************************************)
(* The checks and the Kahn layering of Runner.Execute, which               *)
(* validateDAGNodes repeats when a pipeline is saved: one step per round.  *)
(* The graph is an input, chosen in LayersInit: the node ids that occur, how     *)
(* many entries of dag.Nodes repeat an id, and how many edges join two     *)
(* ids (an edge may name an id that is no node).                           *)
(***************************************************************************)
EXTENDS Naturals, FiniteSets, Sequences

CONSTANTS Ids,         \* the ids that edges and nodes may name
          MaxParallel, \* at most this many edges from one id to another
          MaxRepeats   \* at most this many repeated entries in dag.Nodes

ASSUME SizeAssumption ==
    /\ IsFiniteSet(Ids) /\ MaxParallel \in Nat /\ MaxRepeats \in Nat

VARIABLES
    nodes,    \* the distinct ids of dag.Nodes
    repeats,  \* Len(dag.Nodes) minus their number
    edges,    \* edges[m, n]: the number of edges from m to n
    stage,    \* "check", "rounds", "accepted", "rejected"
    inDeg,    \* the counters of Kahn's algorithm
    front,    \* current, the nodes of the round's layer
    layers,   \* the layers so far
    visited   \* how many nodes were taken

graph == <<nodes, repeats, edges>>
layersVars == <<nodes, repeats, edges, stage, inDeg, front, layers, visited>>

\* How many edges reach n from the nodes of S.
EdgesInto(n, S) ==
    Cardinality({e \in S \X (1 .. MaxParallel) : e[2] <= edges[e[1], n]})

LayersTypeOK ==
    /\ nodes \subseteq Ids /\ repeats \in 0 .. MaxRepeats
    /\ edges \in [Ids \X Ids -> 0 .. MaxParallel]
    /\ stage \in {"check", "rounds", "accepted", "rejected"}
    /\ inDeg \in [nodes -> Nat]
    /\ front \subseteq nodes
    /\ layers \in Seq(SUBSET nodes)
    /\ visited \in Nat

LayersInit ==
    /\ nodes \in SUBSET Ids
    /\ repeats \in (IF nodes = {} THEN {0} ELSE 0 .. MaxRepeats)
    /\ edges \in [Ids \X Ids -> 0 .. MaxParallel]
    /\ stage = "check"
    /\ inDeg = [n \in nodes |-> 0]
    /\ front = {} /\ layers = <<>> /\ visited = 0

EdgesKnown ==
    \A m, n \in Ids : edges[m, n] > 0 => m \in nodes /\ n \in nodes

\* No nodes, or an edge that leaves the graph.
RejectInput ==
    /\ stage = "check"
    /\ nodes = {} \/ ~EdgesKnown
    /\ stage' = "rejected"
    /\ UNCHANGED <<graph, inDeg, front, layers, visited>>

\* The indegrees are counted; without a node of indegree zero the DAG is
\* rejected before the first round.
CountInDegrees ==
    /\ stage = "check"
    /\ nodes # {} /\ EdgesKnown
    /\ inDeg' = [n \in nodes |-> EdgesInto(n, nodes)]
    /\ front' = {n \in nodes : inDeg'[n] = 0}
    /\ stage' = IF front' = {} THEN "rejected" ELSE "rounds"
    /\ UNCHANGED <<graph, layers, visited>>

\* Mutant: parallel edges are taken away as one.
RoundSingleEdges ==
    /\ stage = "rounds"
    /\ front # {}
    /\ layers' = Append(layers, front)
    /\ visited' = visited + Cardinality(front)
    /\ inDeg' = [n \in nodes |->
                    inDeg[n] - Cardinality({m \in front : edges[m, n] > 0})]
    /\ front' = {n \in nodes : inDeg[n] > 0 /\ inDeg'[n] = 0}
    /\ UNCHANGED <<graph, stage>>

\* Mutant: a node enters the next layer with its first edge.
RoundFirstEdge ==
    /\ stage = "rounds"
    /\ front # {}
    /\ layers' = Append(layers, front)
    /\ visited' = visited + Cardinality(front)
    /\ inDeg' = [n \in nodes |-> IF EdgesInto(n, front) > 0 THEN 0 ELSE inDeg[n]]
    /\ front' = {n \in nodes : inDeg[n] > 0 /\ inDeg'[n] = 0}
    /\ UNCHANGED <<graph, stage>>

\* One round: the edges out of the layer are taken away; a node enters the
\* next layer when its last edge goes.
Round ==
    /\ stage = "rounds"
    /\ front # {}
    /\ layers' = Append(layers, front)
    /\ visited' = visited + Cardinality(front)
    /\ inDeg' = [n \in nodes |-> inDeg[n] - EdgesInto(n, front)]
    /\ front' = {n \in nodes : inDeg[n] > 0 /\ inDeg'[n] = 0}
    /\ UNCHANGED <<graph, stage>>

\* visited is compared with len(dag.Nodes), repeated ids included.
Decide ==
    /\ stage = "rounds"
    /\ front = {}
    /\ stage' = IF visited = Cardinality(nodes) + repeats THEN "accepted" ELSE "rejected"
    /\ UNCHANGED <<graph, inDeg, front, layers, visited>>

LayersNext == RejectInput \/ CountInDegrees \/ Round \/ Decide

LayersSpec == LayersInit /\ [][LayersNext]_layersVars
LayersFairSpec == LayersSpec /\ WF_layersVars(LayersNext)

-----------------------------------------------------------------------------
(* Properties.                                                             *)

\* Reference: a set of nodes each of which has a predecessor in the set.
HasCycle ==
    \E S \in (SUBSET nodes) \ {{}} : \A n \in S : \E m \in S : edges[m, n] > 0

\* The layering accepts exactly the non-empty graphs without cycles, without
\* dangling edges and without repeated ids.
AcceptsExactlyDags ==
    /\ stage = "accepted" =>
         nodes # {} /\ EdgesKnown /\ repeats = 0 /\ ~HasCycle
    /\ stage = "rejected" =>
         nodes = {} \/ ~EdgesKnown \/ repeats > 0 \/ HasCycle

LayerOf(n) == CHOOSE k \in DOMAIN layers : n \in layers[k]

Before(n) == {m \in nodes : edges[m, n] > 0}

\* The layers of an accepted graph hold every node once; a node comes after
\* all its predecessors, right after the last of them.
LayersAreTight ==
    stage = "accepted" =>
        /\ \A n \in nodes : \E k \in DOMAIN layers :
              n \in layers[k] /\ \A j \in DOMAIN layers \ {k} : n \notin layers[j]
        /\ \A n \in nodes :
              /\ \A m \in Before(n) : LayerOf(m) < LayerOf(n)
              /\ LayerOf(n) = 1 \/ \E m \in Before(n) : LayerOf(m) + 1 = LayerOf(n)

=============================================================================
