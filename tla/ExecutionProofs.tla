-------------------------- MODULE ExecutionProofs --------------------------
(***************************************************************************)
(* What a worker executes: theorems about DagLayers, for every finite graph; *)
(* about DagRunner, for every layered DAG, every concurrency and retry limit, *)
(* with timeouts, panics and missing handlers; about ContentTasks, for any *)
(* number of tasks and nodes, retries, faults and edits and any answers of *)
(* the models; and about Hub, which carries the progress events of the     *)
(* tasks, for any processes, clients and channel sizes.  The specifications *)
(* share no variable; each theorem is about one of them.                   *)
(***************************************************************************)
EXTENDS DagLayers, DagRunner, ContentTasks, Hub, FiniteSetTheorems, FunctionTheorems,
        WellFoundedInduction,
        TLAPS

\* A set of naturals with a member has a least one.
Below == {ss \in Nat \X Nat : ss[1] < ss[2]}
LEMMA LeastNatural ==
    ASSUME NEW U \in SUBSET Nat, NEW n \in U
    PROVE  \E m \in U : \A v \in U : m <= v
<1>1. IsWellFoundedOn(Below, Nat)
  BY NatLessThanWellFounded DEF OpToRel, Below
<1>2. PICK m \in U : \A v \in U : <<v, m>> \notin Below
  BY <1>1, WFMin
<1>3. \A v \in U : ~(v < m)
  BY <1>2 DEF Below
<1> QED BY <1>3

-----------------------------------------------------------------------------
(***************************************************************************)
(* The layering of a graph: DagLayers.  LayersInv says what Kahn's         *)
(* counters, layers and tally are between two rounds.                      *)
(***************************************************************************)

\* The edges counted by EdgesInto.
EdgeSet(n, S) == {e \in S \X (1 .. MaxParallel) : e[2] <= edges[e[1], n]}

\* Counting the edges into a node: a number, zero without edges, and the
\* edges from a part and from the rest add up.
LEMMA EdgesCounted ==
    ASSUME LayersTypeOK, NEW n \in nodes, NEW S \in SUBSET nodes
    PROVE  /\ IsFiniteSet(EdgeSet(n, S)) /\ EdgesInto(n, S) = Cardinality(EdgeSet(n, S))
           /\ EdgesInto(n, S) \in Nat
           /\ EdgesInto(n, S) = 0 <=> \A m \in S : ~(edges[m, n] > 0)
<1>1. IsFiniteSet(S \X (1 .. MaxParallel))
  <2>1. IsFiniteSet(S)
    BY SizeAssumption, FS_Subset DEF LayersTypeOK
  <2>2. IsFiniteSet(1 .. MaxParallel)
    BY SizeAssumption, FS_Interval
  <2> QED BY <2>1, <2>2, FS_Product
<1>2. EdgeSet(n, S) \subseteq S \X (1 .. MaxParallel)
  BY DEF EdgeSet
<1>3. IsFiniteSet(EdgeSet(n, S)) /\ EdgesInto(n, S) = Cardinality(EdgeSet(n, S))
  BY <1>1, <1>2, FS_Subset DEF EdgeSet, EdgesInto
<1>4. EdgesInto(n, S) \in Nat /\ (EdgesInto(n, S) = 0 <=> EdgeSet(n, S) = {})
  BY <1>3, FS_CardinalityType, FS_EmptySet
<1>5. ASSUME NEW m \in S PROVE edges[m, n] \in 0 .. MaxParallel
  BY DEF LayersTypeOK
<1>6. ASSUME EdgeSet(n, S) = {}, NEW m \in S PROVE ~(edges[m, n] > 0)
  <2>1. CASE edges[m, n] > 0
    <3>1. PICK x \in 0 .. MaxParallel : x = edges[m, n]
      BY <1>5
    <3>2. x > 0
      BY <2>1, <3>1
    <3>3. 1 \in 1 .. MaxParallel /\ 1 <= x
      BY <3>2, SizeAssumption
    <3>4. <<m, 1>> \in EdgeSet(n, S)
      BY <3>1, <3>3 DEF EdgeSet
    <3> QED BY <1>6, <3>4
  <2> QED BY <2>1
<1>7. ASSUME \A m \in S : ~(edges[m, n] > 0) PROVE EdgeSet(n, S) = {}
  <2>1. ASSUME NEW e \in EdgeSet(n, S) PROVE FALSE
    <3>1. PICK m \in S, i \in 1 .. MaxParallel : i <= edges[m, n]
      BY <2>1 DEF EdgeSet
    <3>2. PICK x \in 0 .. MaxParallel : x = edges[m, n]
      BY <1>5
    <3>3. i <= x /\ ~(x > 0)
      BY <1>7, <3>1, <3>2
    <3> QED BY <3>3, SizeAssumption
  <2> QED BY <2>1
<1> QED BY <1>3, <1>4, <1>6, <1>7

LEMMA EdgesSplit ==
    ASSUME LayersTypeOK, NEW n \in nodes, NEW S \in SUBSET nodes, NEW T \in SUBSET S
    PROVE  EdgesInto(n, S \ T) = EdgesInto(n, S) - EdgesInto(n, T)
<1>1. EdgeSet(n, S) \cap EdgeSet(n, T) = EdgeSet(n, T)
  BY DEF EdgeSet
<1>2. EdgeSet(n, S) \ EdgeSet(n, T) = EdgeSet(n, S \ T)
  BY DEF EdgeSet
<1>3. S \ T \in SUBSET nodes /\ T \in SUBSET nodes
  OBVIOUS
<1>4. Cardinality(EdgeSet(n, S) \ EdgeSet(n, T))
        = Cardinality(EdgeSet(n, S)) - Cardinality(EdgeSet(n, S) \cap EdgeSet(n, T))
  BY EdgesCounted, FS_Difference
<1> QED BY <1>1, <1>2, <1>3, <1>4, EdgesCounted

\* The nodes of the layers so far.
Taken == {n \in nodes : \E k \in DOMAIN layers : n \in layers[k]}
Walked == stage \in {"rounds", "accepted"}

\* A node of layer k has its predecessors in earlier layers, one in the last.
Descends(n, k) ==
    /\ \A m \in Before(n) : \E j \in DOMAIN layers : j < k /\ m \in layers[j]
    /\ k = 1 \/ \E m \in Before(n) : m \in layers[k - 1]

\* A counter holds the edges from the nodes not taken; the next layer is the
\* nodes not taken with none left.
Remaining == Walked => \A n \in nodes : inDeg[n] = EdgesInto(n, nodes \ Taken)
Front == Walked => /\ front = {n \in nodes \ Taken : inDeg[n] = 0}
                   /\ \A n \in Taken : inDeg[n] = 0
\* No node is taken twice; layers descend; visited counts the nodes taken.
Once == \A j, k \in DOMAIN layers : layers[j] \cap layers[k] # {} => j = k
Levels == /\ \A k \in DOMAIN layers : \A n \in layers[k] : Descends(n, k)
          /\ Walked => \A n \in front : Descends(n, Len(layers) + 1)
Tally == visited = Cardinality(Taken)
Verdict == /\ stage = "check" => layers = << >>
           /\ Walked => nodes # {} /\ EdgesKnown
           /\ stage = "accepted" => Taken = nodes /\ repeats = 0
           /\ stage = "rejected" => nodes = {} \/ ~EdgesKnown \/ repeats > 0 \/ HasCycle

LayersInv == LayersTypeOK /\ Remaining /\ Front /\ Once /\ Levels /\ Tally /\ Verdict

LEMMA NothingTaken ==
    ASSUME layers = << >>
    PROVE  Taken = {} /\ Once /\ (Len(layers) = 0 /\ DOMAIN layers = {})
           /\ \A k \in DOMAIN layers : \A n \in layers[k] : Descends(n, k)
BY DEF Taken, Once

LEMMA LayersStart == LayersInit => LayersInv
<1> SUFFICES ASSUME LayersInit PROVE LayersInv
  OBVIOUS
<1>1. LayersTypeOK
  <2>1. repeats \in 0 .. MaxRepeats
    BY SizeAssumption DEF LayersInit
  <2> QED BY <2>1 DEF LayersInit, LayersTypeOK
<1>2. Taken = {} /\ Once /\ stage = "check" /\ layers = << >>
      /\ \A k \in DOMAIN layers : \A n \in layers[k] : Descends(n, k)
  BY NothingTaken DEF LayersInit
<1>3. visited = Cardinality(Taken)
  BY <1>2, FS_EmptySet DEF LayersInit
<1> QED BY <1>1, <1>2, <1>3 DEF LayersInv, Remaining, Front, Levels, Tally, Verdict, Walked

\* Nodes that wait for each other are on a cycle.
LEMMA WaitingIsCycle ==
    ASSUME LayersTypeOK, NEW S \in SUBSET nodes, S # {}, \A n \in S : EdgesInto(n, S) # 0
    PROVE  HasCycle
<1>1. \A n \in S : \E m \in S : edges[m, n] > 0
  BY EdgesCounted
<1> QED BY <1>1 DEF HasCycle

LEMMA CountKeeps ==
    ASSUME LayersInv, CountInDegrees PROVE LayersInv'
<1>1. /\ LayersTypeOK /\ stage = "check" /\ nodes # {} /\ EdgesKnown /\ layers = << >>
      /\ inDeg' = [n \in nodes |-> EdgesInto(n, nodes)]
      /\ front' = {n \in nodes : inDeg'[n] = 0}
      /\ stage' = (IF front' = {} THEN "rejected" ELSE "rounds")
      /\ nodes' = nodes /\ repeats' = repeats /\ edges' = edges /\ layers' = layers /\ visited' = visited
  BY DEF LayersInv, CountInDegrees, graph, Verdict
<1>2. \A n \in nodes : EdgesInto(n, nodes) \in Nat
  BY <1>1, EdgesCounted
<1>3. LayersTypeOK'
  BY <1>1, <1>2 DEF LayersTypeOK
<1>4. Taken' = {} /\ Taken' = Taken /\ EdgesKnown' /\ Once'
  BY <1>1, NothingTaken DEF Taken, EdgesKnown, Once
<1>5. \A n : EdgesInto(n, nodes)' = EdgesInto(n, nodes)
  BY <1>1 DEF EdgesInto
<1>6. Remaining' /\ Front'
  <2>1. \A n \in nodes' : EdgesInto(n, nodes \ Taken)' = EdgesInto(n, nodes)
    <3>1. (nodes \ Taken)' = nodes
      BY <1>1, <1>4
    <3> QED BY <1>1, <3>1 DEF EdgesInto
  <2> QED BY <1>1, <1>4, <2>1 DEF Remaining, Front
<1>7. Levels'
  <2>1. ASSUME Walked', NEW n \in front' PROVE Descends(n, Len(layers) + 1)'
    <3>1. n \in nodes /\ EdgesInto(n, nodes) = 0
      BY <1>1, <2>1
    <3>2. Before(n)' = {}
      BY <1>1, <3>1, EdgesCounted DEF Before
    <3>3. Len(layers') + 1 = 1
      BY <1>1
    <3> QED BY <3>2, <3>3 DEF Descends
  <2>2. DOMAIN layers' = {}
    BY <1>1
  <2> QED BY <2>1, <2>2 DEF Levels
<1>8. Tally'
  BY <1>1, <1>4 DEF LayersInv, Tally
<1>9. Verdict'
  <2>1. ASSUME stage' = "rejected" PROVE HasCycle'
    <3>1. \A n \in nodes : EdgesInto(n, nodes) # 0
      BY <1>1, <2>1
    <3>2. HasCycle
      BY <1>1, <3>1, WaitingIsCycle
    <3> QED BY <1>1, <3>2 DEF HasCycle
  <2> QED BY <1>1, <1>4, <2>1 DEF Verdict, Walked
<1> QED BY <1>3, <1>4, <1>6, <1>7, <1>8, <1>9 DEF LayersInv

LEMMA RoundKeeps ==
    ASSUME LayersInv, Round PROVE LayersInv'
<1>1. /\ LayersTypeOK /\ stage = "rounds" /\ front # {} /\ Walked
      /\ layers' = Append(layers, front)
      /\ visited' = visited + Cardinality(front)
      /\ inDeg' = [n \in nodes |-> inDeg[n] - EdgesInto(n, front)]
      /\ front' = {n \in nodes : inDeg[n] > 0 /\ inDeg'[n] = 0}
      /\ nodes' = nodes /\ repeats' = repeats /\ edges' = edges /\ stage' = stage /\ Walked'
  BY DEF LayersInv, Round, graph, Walked
<1>2. /\ Len(layers) \in Nat /\ DOMAIN layers = 1 .. Len(layers) /\ front \subseteq nodes \ Taken
      /\ Len(layers') = Len(layers) + 1 /\ DOMAIN layers' = 1 .. (Len(layers) + 1)
      /\ \A k \in DOMAIN layers : layers'[k] = layers[k] /\ layers[k] \subseteq nodes
      /\ layers'[Len(layers) + 1] = front
  BY <1>1 DEF LayersTypeOK, LayersInv, Front
<1>3. Taken' = Taken \cup front
  BY <1>1, <1>2 DEF Taken
<1>4. \A n \in nodes : /\ inDeg'[n] = EdgesInto(n, (nodes \ Taken) \ front)
                       /\ inDeg'[n] \in Nat
  <2> SUFFICES ASSUME NEW n \in nodes
               PROVE  inDeg'[n] = EdgesInto(n, (nodes \ Taken) \ front) /\ inDeg'[n] \in Nat
    OBVIOUS
  <2>1. inDeg[n] = EdgesInto(n, nodes \ Taken)
    BY <1>1 DEF LayersInv, Remaining
  <2>2. nodes \ Taken \in SUBSET nodes /\ front \in SUBSET (nodes \ Taken)
    BY <1>2
  <2>3. EdgesInto(n, (nodes \ Taken) \ front) = EdgesInto(n, nodes \ Taken) - EdgesInto(n, front)
    BY <1>1, <2>2, EdgesSplit
  <2>4. (nodes \ Taken) \ front \in SUBSET nodes
    OBVIOUS
  <2>5. EdgesInto(n, (nodes \ Taken) \ front) \in Nat
    BY <1>1, <2>4, EdgesCounted
  <2> QED BY <1>1, <2>1, <2>3, <2>5
<1>5. LayersTypeOK'
  <2>1. inDeg' \in [nodes -> Nat]
    BY <1>1, <1>4
  <2>2. layers' \in Seq(SUBSET nodes) /\ front' \subseteq nodes
    BY <1>1 DEF LayersTypeOK
  <2>3. visited' \in Nat
    <3>1. IsFiniteSet(front)
      BY <1>1, SizeAssumption, FS_Subset DEF LayersTypeOK
    <3> QED BY <1>1, <3>1, FS_CardinalityType DEF LayersTypeOK
  <2> QED BY <1>1, <2>1, <2>2, <2>3 DEF LayersTypeOK
<1>6. Remaining'
  <2>1. (nodes \ Taken)' = (nodes \ Taken) \ front
    BY <1>1, <1>3
  <2>2. \A n : EdgesInto(n, nodes \ Taken)' = EdgesInto(n, (nodes \ Taken) \ front)
    BY <1>1, <2>1 DEF EdgesInto
  <2> QED BY <1>1, <1>4, <2>2 DEF Remaining
<1>7. Front'
  <2>1. \A n \in Taken \cup front : inDeg[n] = 0 /\ n \in nodes
    BY <1>1, <1>2 DEF LayersInv, Front, Taken
  <2>2. \A n \in nodes \ (Taken \cup front) : inDeg[n] > 0
    BY <1>1 DEF LayersInv, Front, LayersTypeOK
  <2>3. \A n \in Taken \cup front : inDeg'[n] = 0
    <3> SUFFICES ASSUME NEW n \in Taken \cup front PROVE inDeg'[n] = 0
      OBVIOUS
    <3>1. inDeg'[n] = 0 - EdgesInto(n, front) /\ inDeg'[n] \in Nat
      BY <1>1, <1>4, <2>1
    <3>2. EdgesInto(n, front) \in Nat
      BY <1>1, <1>2, <2>1, EdgesCounted
    <3> QED BY <3>1, <3>2
  <2>4. front' = {n \in nodes \ (Taken \cup front) : inDeg'[n] = 0}
    BY <1>1, <2>1, <2>2
  <2> QED BY <1>1, <1>3, <2>3, <2>4 DEF Front
<1>8. Once'
  <2> SUFFICES ASSUME NEW j \in DOMAIN layers', NEW k \in DOMAIN layers', NEW n \in layers'[j], n \in layers'[k]
               PROVE  j = k
    BY DEF Once
  <2>1. \A i \in DOMAIN layers : n \in layers[i] => n \notin front
    BY <1>2 DEF Taken
  <2>2. CASE j \in DOMAIN layers /\ k \in DOMAIN layers
    BY <1>2, <2>2 DEF LayersInv, Once
  <2>3. CASE j = Len(layers) + 1 \/ k = Len(layers) + 1
    BY <1>2, <2>1, <2>3
  <2> QED BY <1>2, <2>2, <2>3
<1>9. Levels'
  <2>1. \A n : Before(n)' = Before(n)
    BY <1>1 DEF Before
  <2>2. ASSUME NEW n, NEW k \in Nat, k \in 1 .. (Len(layers) + 1), Descends(n, k) PROVE Descends(n, k)'
    <3>1. ASSUME NEW m \in Before(n)' PROVE \E j \in DOMAIN layers' : j < k /\ m \in layers'[j]
      <4>1. PICK j \in DOMAIN layers : j < k /\ m \in layers[j]
        BY <2>1, <2>2, <3>1 DEF Descends
      <4> QED BY <1>2, <4>1
    <3>2. k = 1 \/ \E m \in Before(n)' : m \in layers'[k - 1]
      <4>1. CASE k # 1
        <5>1. k - 1 \in DOMAIN layers
          BY <1>2, <2>2, <4>1
        <5> QED BY <1>2, <2>1, <2>2, <4>1, <5>1 DEF Descends
      <4> QED BY <4>1
    <3> QED BY <3>1, <3>2 DEF Descends
  <2>3. ASSUME NEW k \in DOMAIN layers', NEW n \in layers'[k] PROVE Descends(n, k)'
    <3>1. Descends(n, k)
      BY <1>1, <1>2, <2>3 DEF LayersInv, Levels
    <3> QED BY <1>2, <2>2, <2>3, <3>1
  <2>4. ASSUME NEW n \in front' PROVE Descends(n, Len(layers) + 1)'
    <3>1. n \in nodes /\ inDeg[n] > 0 /\ inDeg'[n] = 0
      BY <1>1, <2>4
    <3>2. ASSUME NEW m \in Before(n)' PROVE \E j \in DOMAIN layers' : j < Len(layers') + 1 /\ m \in layers'[j]
      <4>1. (nodes \ Taken) \ front \in SUBSET nodes
        OBVIOUS
      <4>2. \A p \in (nodes \ Taken) \ front : ~(edges[p, n] > 0)
        BY <1>1, <1>4, <3>1, <4>1, EdgesCounted
      <4>3. m \in Taken \cup front
        BY <2>1, <3>2, <4>2 DEF Before
      <4> QED BY <1>2, <4>3 DEF Taken
    <3>3. \E m \in Before(n)' : m \in layers'[Len(layers')]
      <4>1. EdgesInto(n, front) # 0
        <5>1. EdgesInto(n, front) \in Nat /\ inDeg[n] \in Nat
          BY <1>1, <1>2, <3>1, EdgesCounted DEF LayersTypeOK
        <5> QED BY <1>1, <3>1, <5>1
      <4>2. PICK m \in front : edges[m, n] > 0
        BY <1>1, <1>2, <3>1, <4>1, EdgesCounted
      <4>3. m \in Before(n)'
        BY <1>1, <1>2, <4>2 DEF Before
      <4> QED BY <1>2, <4>3
    <3>4. (Len(layers') + 1) - 1 = Len(layers')
      BY <1>2
    <3> QED BY <3>2, <3>3, <3>4 DEF Descends
  <2> QED BY <2>3, <2>4 DEF Levels
<1>10. Tally'
  <2>1. IsFiniteSet(Taken) /\ IsFiniteSet(front) /\ Taken \cap front = {}
    <3>1. Taken \subseteq Ids /\ front \subseteq Ids
      BY <1>1 DEF LayersTypeOK, Taken
    <3> QED BY <1>2, <3>1, SizeAssumption, FS_Subset
  <2>2. Cardinality(Taken \cup front) = Cardinality(Taken) + Cardinality(front)
    <3>1. Cardinality(Taken \cap front) = 0
      BY <2>1, FS_EmptySet
    <3>2. Cardinality(Taken \cup front)
            = Cardinality(Taken) + Cardinality(front) - Cardinality(Taken \cap front)
      BY <2>1, FS_Union
    <3>3. Cardinality(Taken) \in Nat /\ Cardinality(front) \in Nat
      BY <2>1, FS_CardinalityType
    <3> QED BY <3>1, <3>2, <3>3
  <2> QED BY <1>1, <1>3, <2>2 DEF LayersInv, Tally
<1>11. Verdict'
  BY <1>1 DEF LayersInv, Verdict, EdgesKnown, Walked
<1> QED BY <1>5, <1>6, <1>7, <1>8, <1>9, <1>10, <1>11 DEF LayersInv

\* A verdict moves only the stage.
LEMMA SameGraph ==
    ASSUME UNCHANGED <<graph, inDeg, front, layers, visited>>
    PROVE  /\ nodes' = nodes /\ repeats' = repeats /\ edges' = edges /\ layers' = layers
           /\ inDeg' = inDeg /\ front' = front /\ visited' = visited
           /\ Taken' = Taken /\ Once' = Once /\ Tally' = Tally
           /\ EdgesKnown' = EdgesKnown /\ HasCycle' = HasCycle
           /\ \A n : EdgesInto(n, nodes \ Taken)' = EdgesInto(n, nodes \ Taken)
           /\ \A n, k : Descends(n, k)' = Descends(n, k)
BY DEF graph, Taken, Once, Tally, EdgesKnown, HasCycle, EdgesInto, Descends, Before

LEMMA RejectKeeps ==
    ASSUME LayersInv, RejectInput PROVE LayersInv'
<1>1. stage' = "rejected" /\ ~Walked' /\ (nodes = {} \/ ~EdgesKnown)
      /\ UNCHANGED <<graph, inDeg, front, layers, visited>>
  BY DEF RejectInput, Walked
<1>2. Levels' /\ LayersTypeOK'
  BY <1>1, SameGraph DEF LayersInv, Levels, LayersTypeOK
<1> QED BY <1>1, <1>2, SameGraph DEF LayersInv, Remaining, Front, Verdict

LEMMA DecideKeeps ==
    ASSUME LayersInv, Decide PROVE LayersInv'
<1>1. /\ LayersTypeOK /\ stage = "rounds" /\ front = {} /\ Walked
      /\ stage' = (IF visited = Cardinality(nodes) + repeats THEN "accepted" ELSE "rejected")
      /\ UNCHANGED <<graph, inDeg, front, layers, visited>>
  BY DEF LayersInv, Decide, Walked
<1>2. Taken \subseteq nodes /\ IsFiniteSet(nodes) /\ IsFiniteSet(Taken)
  <2>1. nodes \subseteq Ids /\ Taken \subseteq Ids
    BY <1>1 DEF LayersTypeOK, Taken
  <2> QED BY <2>1, SizeAssumption, FS_Subset DEF Taken
<1>3. Cardinality(nodes) \in Nat /\ visited = Cardinality(Taken) /\ repeats \in Nat
      /\ Cardinality(Taken) <= Cardinality(nodes) /\ (Cardinality(Taken) = Cardinality(nodes) => Taken = nodes)
  <2>1. Taken \in SUBSET nodes
    BY <1>2
  <2>2. repeats \in Nat
    BY <1>1, SizeAssumption DEF LayersTypeOK
  <2> QED BY <1>2, <2>1, <2>2, FS_CardinalityType, FS_Subset DEF LayersInv, Tally
<1>4. ASSUME visited = Cardinality(nodes) + repeats PROVE Taken = nodes /\ repeats = 0
  <2>1. Cardinality(Taken) \in Nat
    BY <1>2, FS_CardinalityType
  <2> QED BY <1>3, <1>4, <2>1
<1>5. ASSUME Taken # nodes PROVE HasCycle
  <2>1. nodes \ Taken \in SUBSET nodes /\ nodes \ Taken # {}
    BY <1>2, <1>5
  <2>2. \A n \in nodes \ Taken : EdgesInto(n, nodes \ Taken) # 0
    BY <1>1 DEF LayersInv, Front, Remaining
  <2> QED BY <1>1, <2>1, <2>2, WaitingIsCycle
<1>6. ASSUME visited # Cardinality(nodes) + repeats PROVE repeats > 0 \/ HasCycle
  <2>1. CASE Taken = nodes
    BY <1>3, <1>6, <2>1
  <2> QED BY <1>5, <2>1
<1>7. Levels' /\ LayersTypeOK' /\ Remaining' /\ Front'
  BY <1>1, SameGraph DEF LayersInv, Levels, LayersTypeOK, Remaining, Front, Walked
<1>8. Verdict'
  BY <1>1, <1>4, <1>6, SameGraph DEF LayersInv, Verdict, Walked
<1> QED BY <1>1, <1>7, <1>8, SameGraph DEF LayersInv

LEMMA LayersInvHolds == LayersSpec => []LayersInv
<1>1. LayersInv /\ [LayersNext]_layersVars => LayersInv'
  <2> SUFFICES ASSUME LayersInv, [LayersNext]_layersVars PROVE LayersInv'
    OBVIOUS
  <2>1. CASE UNCHANGED layersVars
    <3>1. UNCHANGED <<graph, inDeg, front, layers, visited>> /\ stage' = stage
      BY <2>1 DEF layersVars, graph
    <3>2. Levels' /\ LayersTypeOK' /\ Remaining' /\ Front'
      BY <3>1, SameGraph DEF LayersInv, Levels, LayersTypeOK, Remaining, Front, Walked
    <3>3. Verdict'
      BY <3>1, SameGraph DEF LayersInv, Verdict, Walked
    <3> QED BY <3>1, <3>2, <3>3, SameGraph DEF LayersInv
  <2> QED BY <2>1, RejectKeeps, CountKeeps, RoundKeeps, DecideKeeps DEF LayersNext
<1> QED BY <1>1, LayersStart, PTL DEF LayersSpec

\* Every state of the layering is well typed; the counters never go below zero.
THEOREM LayersTypeCorrect == LayersSpec => []LayersTypeOK
<1>1. LayersInv => LayersTypeOK
  BY DEF LayersInv
<1> QED BY <1>1, LayersInvHolds, PTL

\* In an accepted graph LayerOf names the only layer of a node.
LEMMA LayerFound ==
    ASSUME LayersInv, stage = "accepted", NEW n \in nodes
    PROVE  /\ LayerOf(n) \in DOMAIN layers /\ n \in layers[LayerOf(n)] /\ LayerOf(n) \in Nat
           /\ \A j \in DOMAIN layers : n \in layers[j] => j = LayerOf(n)
<1>1. \E k \in DOMAIN layers : n \in layers[k]
  BY DEF LayersInv, Verdict, Taken
<1>2. LayerOf(n) \in DOMAIN layers /\ n \in layers[LayerOf(n)]
  BY <1>1 DEF LayerOf
<1>3. DOMAIN layers \subseteq Nat
  BY DEF LayersInv, LayersTypeOK
<1> QED BY <1>2, <1>3 DEF LayersInv, Once

LEMMA LayersGoDown ==
    ASSUME LayersInv, stage = "accepted", NEW n \in nodes
    PROVE  /\ \A m \in Before(n) : LayerOf(m) < LayerOf(n)
           /\ LayerOf(n) = 1 \/ \E m \in Before(n) : LayerOf(m) + 1 = LayerOf(n)
<1>1. Descends(n, LayerOf(n))
  BY LayerFound DEF LayersInv, Levels
<1>2. ASSUME NEW m \in Before(n) PROVE LayerOf(m) < LayerOf(n)
  <2>1. PICK j \in DOMAIN layers : j < LayerOf(n) /\ m \in layers[j]
    BY <1>1, <1>2 DEF Descends
  <2>2. m \in nodes
    BY <1>2 DEF Before
  <2> QED BY <2>1, <2>2, LayerFound
<1>3. ASSUME LayerOf(n) # 1 PROVE \E m \in Before(n) : LayerOf(m) + 1 = LayerOf(n)
  <2>1. PICK m \in Before(n) : m \in layers[LayerOf(n) - 1]
    BY <1>1, <1>3 DEF Descends
  <2>2. LayerOf(n) - 1 \in DOMAIN layers
    <3>1. DOMAIN layers = 1 .. Len(layers) /\ Len(layers) \in Nat
      BY DEF LayersInv, LayersTypeOK
    <3> QED BY <1>3, <3>1, LayerFound
  <2>3. m \in nodes
    BY DEF Before
  <2>4. LayerOf(m) = LayerOf(n) - 1
    BY <2>1, <2>2, <2>3, LayerFound
  <2> QED BY <2>4, LayerFound
<1> QED BY <1>2, <1>3

\* A graph whose edges all go down has no cycle: a set of nodes has one in
\* its first layer.
LEMMA LayeredHasNoCycle ==
    ASSUME LayersInv, stage = "accepted" PROVE ~HasCycle
<1>0. \A i, j \in Nat : ~(i < j /\ j <= i)
  OBVIOUS
<1> SUFFICES ASSUME NEW S \in (SUBSET nodes) \ {{}}, \A n \in S : \E m \in S : edges[m, n] > 0
             PROVE  FALSE
  BY DEF HasCycle
<1>1. PICK n \in S : TRUE
  OBVIOUS
<1> DEFINE Found == {LayerOf(m) : m \in S}
<1>2. LayerOf(n) \in Found /\ Found \in SUBSET Nat
  BY LayerFound
<1>3. PICK l \in Found : \A v \in Found : l <= v
  BY <1>2, LeastNatural
<1>4. PICK p \in S : LayerOf(p) = l
  OBVIOUS
<1>5. PICK m \in S : edges[m, p] > 0
  OBVIOUS
<1>6. m \in Before(p) /\ LayerOf(m) \in Found
  BY <1>5 DEF Before
<1>7. LayerOf(m) < l
  BY <1>4, <1>6, LayersGoDown
<1>8. PICK x \in Nat : x = LayerOf(m)
  BY <1>2, <1>6
<1>9. x < l /\ l <= x /\ l \in Nat
  BY <1>2, <1>3, <1>6, <1>7, <1>8
<1> QED BY <1>0, <1>9, Zenon

\* The verdict is right for every graph (Runner.Execute, validateDAGNodes).
THEOREM ExactlyDagsAreAccepted == LayersSpec => []AcceptsExactlyDags
<1>1. LayersInv => AcceptsExactlyDags
  BY LayeredHasNoCycle DEF LayersInv, Verdict, Walked, AcceptsExactlyDags
<1> QED BY <1>1, LayersInvHolds, PTL

\* The layers hold every node once, each right after its last predecessor.
THEOREM LayersFit == LayersSpec => []LayersAreTight
<1>1. LayersInv => LayersAreTight
  <2> SUFFICES ASSUME LayersInv, stage = "accepted", NEW n \in nodes
               PROVE  /\ \E k \in DOMAIN layers :
                            n \in layers[k] /\ \A j \in DOMAIN layers \ {k} : n \notin layers[j]
                      /\ \A m \in Before(n) : LayerOf(m) < LayerOf(n)
                      /\ LayerOf(n) = 1 \/ \E m \in Before(n) : LayerOf(m) + 1 = LayerOf(n)
    BY DEF LayersAreTight
  <2>1. /\ LayerOf(n) \in DOMAIN layers /\ n \in layers[LayerOf(n)]
        /\ \A j \in DOMAIN layers \ {LayerOf(n)} : n \notin layers[j]
    BY LayerFound
  <2> QED BY <2>1, LayersGoDown
<1> QED BY <1>1, LayersInvHolds, PTL

\* What DagRunner assumes of its DAG is what DagLayers makes of the graphs it
\* accepts: the layers Execute goes through are those Kahn's rounds built.
THEOREM LayersDeliverTheDag ==
    LayersSpec => [](stage = "accepted" =>
        Layering(nodes, {e \in nodes \X nodes : edges[e[1], e[2]] > 0},
                 [n \in nodes |-> LayerOf(n)], Len(layers)))
<1>1. ASSUME LayersInv, stage = "accepted"
      PROVE  Layering(nodes, {e \in nodes \X nodes : edges[e[1], e[2]] > 0},
                      [n \in nodes |-> LayerOf(n)], Len(layers))
  <2>1. IsFiniteSet(nodes)
    BY <1>1, SizeAssumption, FS_Subset DEF LayersInv, LayersTypeOK
  <2>2. Len(layers) \in Nat /\ DOMAIN layers = 1 .. Len(layers)
    BY <1>1 DEF LayersInv, LayersTypeOK
  <2>3. [n \in nodes |-> LayerOf(n)] \in [nodes -> 1 .. Len(layers)]
    BY <1>1, <2>2, LayerFound
  <2>4. Len(layers) # 0
    <3>1. PICK n \in nodes : TRUE
      BY <1>1 DEF LayersInv, Verdict, Walked
    <3> QED BY <1>1, <2>2, <3>1, LayerFound
  <2> DEFINE depth == [n \in nodes |-> LayerOf(n)]
  <2>5. ASSUME NEW e \in nodes \X nodes, edges[e[1], e[2]] > 0
        PROVE  depth[e[1]] < depth[e[2]]
    <3>1. e[1] \in Before(e[2]) /\ e[2] \in nodes
      BY <2>5 DEF Before
    <3>2. LayerOf(e[1]) < LayerOf(e[2])
      BY <1>1, <3>1, LayersGoDown
    <3> QED BY <2>5, <3>2
  <2> HIDE DEF depth
  <2>6. Layering(nodes, {e \in nodes \X nodes : edges[e[1], e[2]] > 0}, depth, Len(layers))
    BY <2>1, <2>2, <2>3, <2>4, <2>5 DEF Layering, depth
  <2> QED BY <2>6 DEF depth
<1> QED BY <1>1, LayersInvHolds, PTL

-----------------------------------------------------------------------------
(***************************************************************************)
(* One execution of a layered graph: DagRunner.                            *)
(***************************************************************************)
USE DEF Layering

\* The type invariant without sem, which SemInv below shows to be a number.
TypeInv ==
    /\ phase \in {"check", "spawn", "acquire", "wait", "returned"}
    /\ layer \in 1 .. NumLayers
    /\ todo \subseteq Nodes /\ starting \subseteq Nodes
    /\ result \in {"none", "ok", "error"}
    /\ ctxDone \in BOOLEAN /\ closed \in BOOLEAN
    /\ gor \in [Nodes -> {"none", "handler", "backoff", "succeeding", "failing", "exit"}]
    /\ attempt \in [Nodes -> 0 .. MaxAttempts]
    /\ row \in [Nodes -> {"none", "running", "succeeded", "failed"}]
    /\ lost \subseteq Nodes
    /\ outputs \subseteq Nodes /\ errs \subseteq Nodes /\ good \subseteq Nodes
    /\ inputs \in [Nodes -> SUBSET Nodes]
    /\ \A n \in Nodes : gor[n] = "backoff" => attempt[n] < MaxAttempts

LEMMA TypeInvHolds == Spec => []TypeInv
<1>1. Init => TypeInv
  <2>1. 1 \in 1 .. NumLayers /\ 0 \in 0 .. MaxAttempts
    BY DagAssumption
  <2> QED BY <2>1 DEF Init, TypeInv
<1>2. TypeInv /\ [Next]_vars => TypeInv'
  <2> SUFFICES ASSUME TypeInv, [Next]_vars PROVE TypeInv'
    OBVIOUS
  <2> USE DagAssumption DEF TypeInv, loopVars, Return, Exit
  <2>0. \A n \in Nodes : UpdateRow(n, "running") \/ UpdateRow(n, "succeeded")
                         \/ UpdateRow(n, "failed") \/ CreateRow(n)
           => /\ row' \in [Nodes -> {"none", "running", "succeeded", "failed"}]
              /\ lost' \subseteq Nodes
    BY DEF UpdateRow, CreateRow
  <2>1. CASE MainStep
    <3>1. CASE StopAtLayer BY <3>1 DEF StopAtLayer
    <3>2. CASE EnterLayer BY <3>2 DEF EnterLayer, NodesAt
    <3>3. ASSUME NEW n \in Nodes, NoHandler(n) PROVE TypeInv' BY <3>3 DEF NoHandler
    <3>4. ASSUME NEW n \in Nodes, PrepareNode(n) PROVE TypeInv'
      BY <2>0, <3>4 DEF PrepareNode, Upstream
    <3>5. ASSUME NEW n \in Nodes, StartNode(n) PROVE TypeInv' BY <3>5 DEF StartNode
    <3>6. CASE AcquireError BY <3>6 DEF AcquireError
    <3>7. CASE AllSpawned BY <3>7 DEF AllSpawned
    <3>8. CASE LayerFailed BY <3>8 DEF LayerFailed
    <3>9. CASE LayerDone BY <3>9 DEF LayerDone
    <3> QED BY <2>1, <3>1, <3>2, <3>3, <3>4, <3>5, <3>6, <3>7, <3>8, <3>9 DEF MainStep
  <2>2. CASE Timeout BY <2>2 DEF Timeout
  <2>3. CASE CloseRun BY <2>3 DEF CloseRun
  <2>4. ASSUME NEW n \in Nodes, NodeStep(n) PROVE TypeInv'
    <3>1. CASE HandlerOk(n) BY <3>1 DEF HandlerOk
    <3>2. CASE HandlerRetry(n) BY <3>2 DEF HandlerRetry
    <3>3. CASE NextAttempt(n)
      <4>1. attempt' \in [Nodes -> 0 .. MaxAttempts] BY <3>3 DEF NextAttempt
      <4> QED BY <2>0, <3>3, <4>1 DEF NextAttempt
    <3>4. CASE HandlerFailed(n) BY <3>4 DEF HandlerFailed
    <3>5. CASE HandlerPanic(n) BY <2>0, <3>5 DEF HandlerPanic
    <3>6. CASE CloseFailed(n) BY <2>0, <3>6 DEF CloseFailed
    <3>7. CASE CloseSucceeded(n) BY <2>0, <3>7 DEF CloseSucceeded
    <3> QED BY <2>4, <3>1, <3>2, <3>3, <3>4, <3>5, <3>6, <3>7 DEF NodeStep
  <2>5. CASE UNCHANGED vars BY <2>5 DEF vars
  <2> QED BY <2>1, <2>2, <2>3, <2>4, <2>5 DEF Next
<1> QED BY <1>1, <1>2, PTL DEF Spec

-----------------------------------------------------------------------------
(* Order. While layer k runs, every earlier node has ended well and no      *)
(* later node has begun; what is neither to do nor being started has a      *)
(* goroutine, and one that has ended did so well or reported an error.      *)

OrderInv ==
    /\ \A m \in Nodes : Depth[m] < layer => gor[m] = "exit" /\ m \in good
    /\ \A m \in Nodes : Depth[m] > layer => gor[m] = "none"
    /\ todo \union starting \subseteq NodesAt(layer)
    /\ phase = "check" => \A m \in Nodes : Depth[m] = layer => gor[m] = "none"
    /\ phase \in {"check", "spawn", "wait"} => starting = {}
    /\ phase \in {"check", "wait"} => todo = {}
    /\ todo \intersect starting = {}
    /\ \A m, n \in starting : m = n
    /\ \A m \in todo \union starting : gor[m] = "none"
    /\ phase \in {"spawn", "acquire", "wait"} =>
          \A m \in NodesAt(layer) \ (todo \union starting) : gor[m] # "none"
    /\ \A m \in Nodes : Depth[m] = layer =>
          /\ gor[m] = "exit" => m \in good \/ m \in errs
          /\ gor[m] = "succeeding" => m \in good
    /\ good \subseteq outputs
    /\ \A m \in Nodes : m \in starting \/ gor[m] # "none" => inputs[m] = Upstream(m)
    /\ result = "ok" => good = Nodes

\* Returning changes nothing that OrderInv speaks of, but the result.
LEMMA ReturnKeepsOrder ==
    ASSUME OrderInv, phase' = "returned", good = Nodes,
           UNCHANGED <<layer, todo, starting, gor, outputs, inputs, errs, good>>
    PROVE  OrderInv'
<1>1. /\ \A m \in Nodes : UNCHANGED Upstream(m)
      /\ UNCHANGED NodesAt(layer)
  BY DEF Upstream, NodesAt
<1> QED BY <1>1 DEF OrderInv

LEMMA OrderInvHolds == Spec => []OrderInv
<1>1. Init => OrderInv
  BY DagAssumption DEF Init, OrderInv, NodesAt
<1>2. TypeInv /\ OrderInv /\ [Next]_vars => OrderInv'
  <2> SUFFICES ASSUME TypeInv, OrderInv, [Next]_vars PROVE OrderInv'
    OBVIOUS
  <2> USE DagAssumption DEF TypeInv, OrderInv, NodesAt, Upstream, loopVars, Return, Exit
  <2>1. CASE MainStep
    <3>1. CASE StopAtLayer BY <3>1 DEF StopAtLayer
    <3>2. CASE EnterLayer BY <3>2 DEF EnterLayer
    <3>3. ASSUME NEW n \in Nodes, NoHandler(n) PROVE OrderInv' BY <3>3 DEF NoHandler
    <3>4. ASSUME NEW n \in Nodes, PrepareNode(n) PROVE OrderInv'
      <4>1. Upstream(n) \intersect outputs = Upstream(n)
        BY <3>4 DEF PrepareNode, Upstream
      <4> QED BY <3>4, <4>1 DEF PrepareNode, Upstream
    <3>5. ASSUME NEW n \in Nodes, StartNode(n) PROVE OrderInv'
      BY <3>5 DEF StartNode, Upstream
    <3>6. CASE AcquireError BY <3>6 DEF AcquireError
    <3>7. CASE AllSpawned BY <3>7 DEF AllSpawned
    <3>8. CASE LayerFailed BY <3>8 DEF LayerFailed
    <3>9. CASE LayerDone
      <4>1. \A m \in Nodes : Depth[m] = layer => gor[m] = "exit" /\ m \in good
        BY <3>9 DEF LayerDone, Active
      <4>2. CASE layer < NumLayers
        <5>1. layer' = layer + 1 /\ phase' = "check" BY <3>9, <4>2 DEF LayerDone
        <5>2. \A m \in Nodes : Depth[m] < layer' <=> Depth[m] < layer \/ Depth[m] = layer
          BY <5>1
        <5>3. \A m \in Nodes : Depth[m] >= layer' => gor[m] = "none"
          BY <5>1
        <5> QED BY <3>9, <4>1, <4>2, <5>1, <5>2, <5>3 DEF LayerDone
      <4>3. CASE layer = NumLayers
        <5>1. \A m \in Nodes : Depth[m] <= layer
          BY <4>3
        <5>2. good = Nodes
          <6>1. ASSUME NEW m \in Nodes PROVE m \in good
            <7>1. CASE Depth[m] < layer BY <7>1 DEF OrderInv
            <7>2. CASE Depth[m] = layer BY <4>1, <7>2
            <7> QED BY <5>1, <7>1, <7>2
          <6>2. good \subseteq Nodes
            BY DEF TypeInv
          <6> HIDE DEF TypeInv, OrderInv
          <6> QED BY <6>1, <6>2
        <5>3. /\ phase' = "returned"
              /\ UNCHANGED <<layer, todo, starting, gor, outputs, inputs, errs, good>>
          BY <3>9, <4>3 DEF LayerDone
        <5> HIDE DEF OrderInv
        <5> QED BY <5>2, <5>3, ReturnKeepsOrder
      <4> QED BY <4>2, <4>3
    <3> QED BY <2>1, <3>1, <3>2, <3>3, <3>4, <3>5, <3>6, <3>7, <3>8, <3>9 DEF MainStep
  <2>2. CASE Timeout BY <2>2 DEF Timeout, Upstream
  <2>3. CASE CloseRun BY <2>3 DEF CloseRun, Upstream
  <2>4. ASSUME NEW n \in Nodes, NodeStep(n) PROVE OrderInv'
    <3>0. Depth[n] = layer /\ phase # "check" /\ n \notin todo \union starting
      BY <2>4 DEF NodeStep, HandlerOk, HandlerRetry, NextAttempt, HandlerFailed,
         HandlerPanic, CloseFailed, CloseSucceeded
    <3> USE <3>0 DEF Upstream
    <3>1. CASE HandlerOk(n) BY <3>1 DEF HandlerOk
    <3>2. CASE HandlerRetry(n) BY <3>2 DEF HandlerRetry
    <3>3. CASE NextAttempt(n) BY <3>3 DEF NextAttempt
    <3>4. CASE HandlerFailed(n) BY <3>4 DEF HandlerFailed
    <3>5. CASE HandlerPanic(n) BY <3>5 DEF HandlerPanic
    <3>6. CASE CloseFailed(n) BY <3>6 DEF CloseFailed
    <3>7. CASE CloseSucceeded(n) BY <3>7 DEF CloseSucceeded
    <3> QED BY <2>4, <3>1, <3>2, <3>3, <3>4, <3>5, <3>6, <3>7 DEF NodeStep
  <2>5. CASE UNCHANGED vars BY <2>5 DEF vars
  <2> QED BY <2>1, <2>2, <2>3, <2>4, <2>5 DEF Next
<1> QED BY <1>1, <1>2, TypeInvHolds, PTL DEF Spec

\* No node is started before everything it depends on has succeeded, and it
\* is given the output of all of its upstream nodes.
THEOREM RunsInOrder == Spec => []StartsAfterUpstream
<1>1. TypeInv /\ OrderInv => StartsAfterUpstream
  BY DagAssumption DEF TypeInv, OrderInv, StartsAfterUpstream
<1> QED BY <1>1, TypeInvHolds, OrderInvHolds, PTL

\* Execute reports success only for a DAG all of whose nodes succeeded.
THEOREM OkIsComplete == Spec => []OkMeansAllSucceeded
<1>1. OrderInv => OkMeansAllSucceeded
  BY DEF OrderInv, OkMeansAllSucceeded
<1> QED BY <1>1, OrderInvHolds, PTL

-----------------------------------------------------------------------------
(* The semaphore. sem counts the goroutines that hold a permit, so that no  *)
(* release can make it negative and no layer starts with a stale one.       *)

SemInv ==
    /\ sem = Cardinality(Active)
    /\ sem \in Nat /\ sem <= MaxConcurrency
    /\ phase = "check" => Active = {}

LEMMA ActiveIsFinite == IsFiniteSet(Active)
  BY DagAssumption, FS_Subset DEF Active

LEMMA SemInvHolds == Spec => []SemInv
<1>1. Init => SemInv
  <2> SUFFICES ASSUME Init PROVE SemInv
    OBVIOUS
  <2>1. Active = {} BY DEF Init, Active
  <2> QED BY <2>1, DagAssumption, FS_EmptySet DEF Init, SemInv
<1>2. TypeInv /\ OrderInv /\ SemInv /\ [Next]_vars => SemInv'
  <2> SUFFICES ASSUME TypeInv, OrderInv, SemInv, [Next]_vars PROVE SemInv'
    OBVIOUS
  <2>a. IsFiniteSet(Active) BY ActiveIsFinite
  <2>b. ASSUME Active' = Active, sem' = sem, phase' = "check" => Active = {} PROVE SemInv'
    BY <2>b DEF SemInv
  <2>1. CASE MainStep
    <3>1. CASE StopAtLayer BY <2>b, <3>1 DEF StopAtLayer, Return, Active, SemInv
    <3>2. CASE EnterLayer
      BY <3>2, FS_EmptySet, DagAssumption DEF EnterLayer, Active, SemInv
    <3>3. ASSUME NEW n \in Nodes, NoHandler(n) PROVE SemInv'
      BY <2>b, <3>3 DEF NoHandler, Return, Active, SemInv
    <3>4. ASSUME NEW n \in Nodes, PrepareNode(n) PROVE SemInv'
      BY <2>b, <3>4 DEF PrepareNode, Active, SemInv
    <3>5. ASSUME NEW n \in Nodes, StartNode(n) PROVE SemInv'
      <4>1. gor[n] = "none" BY <3>5 DEF StartNode, OrderInv
      <4>2. Active' = Active \union {n} /\ n \notin Active
        BY <3>5, <4>1 DEF StartNode, Active, TypeInv
      <4>3. Cardinality(Active') = Cardinality(Active) + 1
        BY <2>a, <4>2, FS_AddElement
      <4> QED BY <3>5, <4>3, DagAssumption DEF StartNode, SemInv
    <3>6. CASE AcquireError BY <2>b, <3>6 DEF AcquireError, Return, Active, SemInv
    <3>7. CASE AllSpawned BY <2>b, <3>7 DEF AllSpawned, Active, SemInv
    <3>8. CASE LayerFailed BY <2>b, <3>8 DEF LayerFailed, Return, Active, SemInv
    <3>9. CASE LayerDone BY <2>b, <3>9 DEF LayerDone, Return, Active, SemInv
    <3> QED BY <2>1, <3>1, <3>2, <3>3, <3>4, <3>5, <3>6, <3>7, <3>8, <3>9 DEF MainStep
  <2>2. CASE Timeout BY <2>b, <2>2 DEF Timeout, loopVars, Active, SemInv
  <2>3. CASE CloseRun BY <2>b, <2>3 DEF CloseRun, loopVars, Active, SemInv
  <2>4. ASSUME NEW n \in Nodes, NodeStep(n) PROVE SemInv'
    <3>1. phase' = phase /\ n \in Active
      BY <2>4 DEF NodeStep, HandlerOk, HandlerRetry, NextAttempt, HandlerFailed,
         HandlerPanic, CloseFailed, CloseSucceeded, loopVars, Active
    <3>2. CASE HandlerOk(n) \/ HandlerRetry(n) \/ NextAttempt(n) \/ HandlerFailed(n)
      <4>1. Active' = Active /\ sem' = sem
        BY <3>1, <3>2 DEF HandlerOk, HandlerRetry, NextAttempt, HandlerFailed, Active, TypeInv
      <4> QED BY <2>b, <3>1, <4>1 DEF SemInv
    <3>3. CASE HandlerPanic(n) \/ CloseFailed(n) \/ CloseSucceeded(n)
      <4>1. Active' = Active \ {n} /\ sem' = sem - 1
        BY <3>1, <3>3 DEF HandlerPanic, CloseFailed, CloseSucceeded, Exit, Active, TypeInv
      <4>2. Cardinality(Active') = Cardinality(Active) - 1 /\ Cardinality(Active') \in Nat
        BY <2>a, <3>1, <4>1, FS_RemoveElement, FS_CardinalityType
      <4> QED BY <3>1, <4>1, <4>2, DagAssumption DEF SemInv
    <3> QED BY <2>4, <3>2, <3>3 DEF NodeStep
  <2>5. CASE UNCHANGED vars BY <2>b, <2>5 DEF vars, Active, SemInv
  <2> QED BY <2>1, <2>2, <2>3, <2>4, <2>5 DEF Next
<1> QED BY <1>1, <1>2, TypeInvHolds, OrderInvHolds, PTL DEF Spec

\* At most MaxConcurrency node handlers are in flight at any time.
THEOREM ConcurrencyIsBounded == Spec => []BoundedConcurrency
<1>1. SemInv => BoundedConcurrency
  BY DEF SemInv, BoundedConcurrency
<1> QED BY <1>1, SemInvHolds, PTL

\* Every state of an execution is well typed.
THEOREM TypeCorrect == Spec => []TypeOK
<1>1. TypeInv /\ SemInv => TypeOK
  BY DEF TypeInv, SemInv, TypeOK
<1> QED BY <1>1, TypeInvHolds, SemInvHolds, PTL

-----------------------------------------------------------------------------
(* Step rows. A row is closed in the step in which its goroutine ends, and  *)
(* no goroutine starts for a node twice.                                    *)

RowInv == \A n \in Nodes :
    /\ row[n] \in {"succeeded", "failed"} => gor[n] = "exit"
    /\ row[n] = "succeeded" => n \in good
    /\ row[n] = "failed" => n \notin good /\ (attempt[n] = MaxAttempts \/ n \in MayPanic)
    /\ gor[n] = "succeeding" => n \in good
    /\ gor[n] \in {"none", "handler", "backoff", "failing"} => n \notin good
    /\ gor[n] = "failing" => attempt[n] = MaxAttempts

LEMMA RowInvHolds == Spec => []RowInv
<1>1. Init => RowInv
  BY DEF Init, RowInv
<1>2. TypeInv /\ OrderInv /\ RowInv /\ [Next]_vars => RowInv'
  <2> SUFFICES ASSUME TypeInv, OrderInv, RowInv, [Next]_vars PROVE RowInv'
    OBVIOUS
  <2> USE DEF TypeInv, RowInv, loopVars, UpdateRow, CreateRow, Exit
  <2>1. CASE MainStep
    BY <2>1 DEF MainStep, StopAtLayer, EnterLayer, NoHandler, PrepareNode, StartNode,
       AcquireError, AllSpawned, LayerFailed, LayerDone, OrderInv
  <2>2. CASE Timeout \/ CloseRun BY <2>2 DEF Timeout, CloseRun
  <2>3. ASSUME NEW n \in Nodes, NodeStep(n) PROVE RowInv'
    BY <2>3 DEF NodeStep, HandlerOk, HandlerRetry, NextAttempt, HandlerFailed,
       HandlerPanic, CloseFailed, CloseSucceeded
  <2>4. CASE UNCHANGED vars BY <2>4 DEF vars
  <2> QED BY <2>1, <2>2, <2>3, <2>4 DEF Next
<1> QED BY <1>1, <1>2, TypeInvHolds, OrderInvHolds, PTL DEF Spec

\* A step row is closed once, with the outcome its node really had.
THEOREM RowsAreTrue == Spec => RowsTellTheTruth
<1> DEFINE Honest == \A n \in Nodes :
         /\ row[n] \in {"succeeded", "failed"} => row'[n] = row[n]
         /\ row'[n] = "succeeded" => n \in good
         /\ row'[n] = "failed" => n \notin good
                /\ (attempt[n] = MaxAttempts \/ n \in MayPanic)
<1>1. TypeInv /\ OrderInv /\ RowInv /\ [Next]_vars => [Honest]_vars
  <2> SUFFICES ASSUME TypeInv, OrderInv, RowInv, [Next]_vars PROVE [Honest]_vars
    OBVIOUS
  <2> USE DEF TypeInv, RowInv, loopVars, UpdateRow, CreateRow, Exit
  <2>1. CASE MainStep
    BY <2>1 DEF MainStep, StopAtLayer, EnterLayer, NoHandler, PrepareNode, StartNode,
       AcquireError, AllSpawned, LayerFailed, LayerDone, OrderInv
  <2>2. CASE Timeout \/ CloseRun BY <2>2 DEF Timeout, CloseRun
  <2>3. ASSUME NEW n \in Nodes, NodeStep(n) PROVE Honest
    BY <2>3 DEF NodeStep, HandlerOk, HandlerRetry, NextAttempt, HandlerFailed,
       HandlerPanic, CloseFailed, CloseSucceeded
  <2>4. CASE UNCHANGED vars BY <2>4 DEF vars
  <2> QED BY <2>1, <2>2, <2>3, <2>4 DEF Next
<1> QED BY <1>1, TypeInvHolds, OrderInvHolds, RowInvHolds, PTL DEF Spec, RowsTellTheTruth

-----------------------------------------------------------------------------
(* Open rows. Under a live context a row that is running belongs to a node  *)
(* that is being started, to a goroutine that will close it, or is one a    *)
(* failed statement left behind; Execute returns with nothing left to start *)
(* only when its goroutines have ended.                                     *)

OpenInv == ~ctxDone =>
    /\ \A n \in Nodes : row[n] = "running" => n \in starting \union Active \union lost
    /\ phase = "returned" /\ todo = {} => starting = {} /\ Active = {}

LEMMA OpenInvHolds == Spec => []OpenInv
<1>1. Init => OpenInv
  BY DEF Init, OpenInv
<1>2. TypeInv /\ OrderInv /\ OpenInv /\ [Next]_vars => OpenInv'
  <2> SUFFICES ASSUME TypeInv, OrderInv, OpenInv, [Next]_vars, ~ctxDone' PROVE OpenInv'
    BY DEF OpenInv
  <2> USE DEF TypeInv, OpenInv, loopVars, Return, Active
  <2>1. CASE MainStep
    <3>1. CASE StopAtLayer BY <2>1, <3>1 DEF StopAtLayer
    <3>2. CASE EnterLayer BY <3>2 DEF EnterLayer
    <3>3. ASSUME NEW n \in Nodes, NoHandler(n) PROVE OpenInv' BY <3>3 DEF NoHandler
    <3>4. ASSUME NEW n \in Nodes, PrepareNode(n) PROVE OpenInv'
      BY <3>4 DEF PrepareNode, CreateRow, OrderInv
    <3>5. ASSUME NEW n \in Nodes, StartNode(n) PROVE OpenInv'
      BY <3>5 DEF StartNode, OrderInv
    <3>6. CASE AcquireError BY <3>6 DEF AcquireError
    <3>7. CASE AllSpawned BY <3>7 DEF AllSpawned
    <3>8. CASE LayerFailed BY <3>8 DEF LayerFailed, OrderInv
    <3>9. CASE LayerDone BY <3>9 DEF LayerDone, OrderInv
    <3> QED BY <2>1, <3>1, <3>2, <3>3, <3>4, <3>5, <3>6, <3>7, <3>8, <3>9 DEF MainStep
  <2>2. CASE Timeout \/ CloseRun BY <2>2 DEF Timeout, CloseRun
  <2>3. ASSUME NEW n \in Nodes, NodeStep(n) PROVE OpenInv'
    <3> USE DEF UpdateRow, Exit
    <3>1. CASE HandlerOk(n) BY <3>1 DEF HandlerOk
    <3>2. CASE HandlerRetry(n) BY <3>2 DEF HandlerRetry
    <3>3. CASE NextAttempt(n) BY <3>3 DEF NextAttempt
    <3>4. CASE HandlerFailed(n) BY <3>4 DEF HandlerFailed
    <3>5. CASE HandlerPanic(n) BY <3>5 DEF HandlerPanic
    <3>6. CASE CloseFailed(n) BY <3>6 DEF CloseFailed
    <3>7. CASE CloseSucceeded(n) BY <3>7 DEF CloseSucceeded
    <3> QED BY <2>3, <3>1, <3>2, <3>3, <3>4, <3>5, <3>6, <3>7 DEF NodeStep
  <2>4. CASE UNCHANGED vars BY <2>4 DEF vars
  <2> QED BY <2>1, <2>2, <2>3, <2>4 DEF Next
<1> QED BY <1>1, <1>2, TypeInvHolds, OrderInvHolds, PTL DEF Spec

\* An Execute that waited for its last layer under a live context leaves no
\* step row running, whatever handler failed, was retried or panicked, but the
\* rows whose insert went unanswered or whose closing update failed.
THEOREM WaitedForRowsClose == Spec => []WaitedRowsAreClosed
<1>1. OpenInv => WaitedRowsAreClosed
  BY DEF OpenInv, WaitedRowsAreClosed
<1> QED BY <1>1, OpenInvHolds, PTL

-----------------------------------------------------------------------------
(***************************************************************************)
(* The handlers of generation tasks and nodes: ContentTasks.  ContentInv,  *)
(* the types and the bound on versions, is inductive; each theorem below   *)
(* adds the invariant its property needs.                                  *)
(***************************************************************************)

Places == {"idle", "fetch", "ask", "delete", "create", "status", "mark", "version", "save",
           "row", "log", "faillog", "ok", "err"}
States == {"free", "queued", "running", "done", "failed", "lost"}
Memories == [eps : Seq(Nat), ver : Nat, shots : SUBSET Nat]
Prompts == [ver : Nat, shots : SUBSET Nat]

\* A version is never above the number of versions, so that the largest exists.
Versions ==
    /\ \A i \in DOMAIN prompts : prompts[i].ver <= Len(prompts)
    /\ \A a \in Actors : Doing(a, "prompt") /\ At(a, "save") => mem[a].ver <= Len(prompts) + 1

ContentInv == ContentTypeOK /\ Versions

LEMMA MaxVersionIsLargest ==
    ASSUME ContentInv
    PROVE  /\ MaxVersion \in 0..Len(prompts)
           /\ \A i \in DOMAIN prompts : prompts[i].ver <= MaxVersion
<1> DEFINE L == Len(prompts)
           U == {v \in 0..L : \A i \in DOMAIN prompts : prompts[i].ver <= v}
<1>0. prompts \in Seq(Prompts) /\ L \in Nat
  BY DEF ContentInv, ContentTypeOK, Prompts
<1>1. \A i \in DOMAIN prompts : prompts[i].ver \in Nat /\ prompts[i].ver <= L
  <2> SUFFICES ASSUME NEW i \in DOMAIN prompts PROVE prompts[i].ver \in Nat /\ prompts[i].ver <= L
    OBVIOUS
  <2>1. prompts[i] \in Prompts
    BY <1>0
  <2> QED BY <2>1 DEF ContentInv, Versions, Prompts
<1> HIDE DEF L
<1>2. L \in U /\ U \in SUBSET Nat
  BY <1>0, <1>1
<1>3. PICK m \in U : \A v \in U : m <= v
  BY <1>2, LeastNatural
<1>4. m = 0 \/ \E i \in DOMAIN prompts : prompts[i].ver = m
  <2> SUFFICES ASSUME m # 0, \A i \in DOMAIN prompts : prompts[i].ver # m PROVE FALSE
    OBVIOUS
  <2>1. m - 1 \in U
    BY <1>0, <1>1, <1>3
  <2> QED BY <1>0, <1>1, <1>3, <2>1
<1>5. /\ m \in 0..L /\ \A i \in DOMAIN prompts : prompts[i].ver <= m
      /\ m = 0 \/ \E i \in DOMAIN prompts : prompts[i].ver = m
  BY <1>3, <1>4
<1>6. /\ MaxVersion \in 0..L
      /\ \A i \in DOMAIN prompts : prompts[i].ver <= MaxVersion
  BY <1>5 DEF MaxVersion, L
<1> QED BY <1>6 DEF L

\* The step of a task or a node that is at work: it moves to another place, or
\* its attempt ends.
Moves(a) == /\ act[a].st = "running" /\ act' = act
            /\ \E p \in Places : pc' = [pc EXCEPT ![a] = p]
Handles(a) ==
    \/ FetchScript(a) \/ AskSplit(a) \/ DeleteEpisodes(a) \/ CreateEpisodes(a)
    \/ MarkSplit(a) \/ (IsTask(a) /\ MarkFailed(a))
    \/ FetchEpisode(a) \/ AskPrompt(a) \/ ReadVersion(a) \/ CreateAsCurrent(a)
    \/ FetchPrompt(a) \/ (IsTask(a) /\ BulkSave(a))
    \/ (~IsTask(a) /\ (NodeDeleteBoards(a) \/ NodeCreateBoards(a)))
    \/ (~IsTask(a) /\ NodeFetchBoard(a)) \/ CreateVideoRow(a)
    \/ AskImage(a) \/ AskVideo(a) \/ SaveImage(a) \/ SaveVideo(a) \/ MarkVideoFailed(a)
    \/ (IsTask(a) /\ LogUsage(a))
Starts(a) == \E mode \in Modes, kind \in Kinds : Enqueue(a, mode, kind)

LEMMA ContentCases ==
    ASSUME ContentNext
    PROVE  \/ \E a \in Actors : Starts(a) \/ Deliver(a) \/ Finish(a) \/ Crash(a) \/ Handles(a)
           \/ DeleteScriptEpisodes \/ DeleteScript
           \/ \E own \in BOOLEAN, id \in {{}} \cup {{i} : i \in DOMAIN prompts} : SetCurrent(own, id)
<1>1. ASSUME NEW a \in Actors,
             \/ SplitScript(a) \/ GeneratePrompt(a) \/ GenerateStoryboard(a)
             \/ GenerateImage(a) \/ GenerateVideo(a) \/ ReachNode(a)
      PROVE  Starts(a)
  BY <1>1 DEF SplitScript, GeneratePrompt, GenerateStoryboard, GenerateImage, GenerateVideo,
              ReachNode, Starts, Modes, Kinds
<1>2. ASSUME NEW a \in Actors,
             \/ SplitTask(a) \/ PromptTask(a) \/ StoryTask(a) \/ ImageTask(a) \/ VideoTask(a)
             \/ SplitNode(a) \/ PromptNode(a) \/ StoryNode(a) \/ ImageNode(a) \/ VideoNode(a)
      PROVE  Handles(a)
  BY <1>2 DEF SplitTask, PromptTask, StoryTask, ImageTask, VideoTask, SplitNode, PromptNode,
              StoryNode, ImageNode, VideoNode, WritePrompt, Handles
<1> QED BY <1>1, <1>2 DEF ContentNext

-----------------------------------------------------------------------------
EpisodeRows == [no : Nat, by : (Actors \cup {"import"}) \X Nat, idx : Nat, live : BOOLEAN]
BoardRows == [shot : Nat, prompt : Nat, by : Attempts, live : BOOLEAN]

LEMMA BuriedType ==
    ASSUME ContentTypeOK
    PROVE  /\ Buried(episodes) \subseteq EpisodeRows
           /\ Buried(boards) \subseteq BoardRows
           /\ \A e \in Buried(episodes) : ~e.live
           /\ \A b \in Buried(boards) : ~b.live
<1>1. ASSUME NEW e \in episodes
      PROVE  [e EXCEPT !.live = FALSE] \in EpisodeRows /\ ~[e EXCEPT !.live = FALSE].live
  <2>1. e \in EpisodeRows
    BY DEF ContentTypeOK, EpisodeRows
  <2> QED BY <2>1 DEF EpisodeRows
<1>2. ASSUME NEW b \in boards
      PROVE  [b EXCEPT !.live = FALSE] \in BoardRows /\ ~[b EXCEPT !.live = FALSE].live
  <2>1. b \in BoardRows
    BY DEF ContentTypeOK, BoardRows
  <2> QED BY <2>1 DEF BoardRows
<1> QED BY <1>1, <1>2 DEF Buried

LEMMA AttemptType ==
    ASSUME ContentTypeOK, NEW a \in Actors
    PROVE  /\ Attempt(a) \in Attempts /\ act[a].tries \in 0..MaxRetry
           /\ Attempt(a) \in (Actors \cup {"import"}) \X Nat
<1>1. act[a].tries \in 0..MaxRetry
  BY DEF ContentTypeOK
<1> QED BY <1>1, ContentAssumption DEF Attempt, Attempts

Actions == [mode : Modes, kind : Kinds, tries : 0..MaxRetry, st : States]
LEMMA LeaveType ==
    ASSUME ContentTypeOK, NEW a \in Actors, NEW st \in States, NEW tries \in 0..MaxRetry,
           Leave(a, st, tries)
    PROVE  /\ act' \in [Actors -> Actions]
           /\ pc' \in [Actors -> Places]
           /\ mem' \in [Actors -> Memories]
<1>1. Forgotten \in Memories
  BY DEF Forgotten, Memories
<1>2. act \in [Actors -> Actions] /\ pc \in [Actors -> Places] /\ mem \in [Actors -> Memories]
  BY DEF ContentTypeOK, States, Places, Memories, Actions
<1>3. act' = [act EXCEPT ![a] = [act[a] EXCEPT !.st = st, !.tries = tries]]
  BY <1>2 DEF Leave, Actions
<1>4. act[a] \in Actions
  BY <1>2
<1>5. [act[a] EXCEPT !.st = st, !.tries = tries] \in Actions
  BY <1>4 DEF Actions
<1>6. act' \in [Actors -> Actions]
  BY <1>2, <1>3, <1>5
<1>7. pc' \in [Actors -> Places]
  BY <1>2 DEF Leave, Places
<1>8. mem' \in [Actors -> Memories]
  BY <1>1, <1>2 DEF Leave
<1> QED BY <1>6, <1>7, <1>8

LEMMA RetryType ==
    ASSUME ContentTypeOK, NEW a \in Actors, Retry(a) \/ \E st \in States : Leave(a, st, act[a].tries)
    PROVE  /\ act' \in [Actors -> Actions]
           /\ pc' \in [Actors -> Places]
           /\ mem' \in [Actors -> Memories]
<1>1. /\ act[a].tries \in 0..MaxRetry
      /\ act[a].tries < MaxRetry => act[a].tries + 1 \in 0..MaxRetry
  BY ContentAssumption, AttemptType
<1> QED BY <1>1, LeaveType DEF Retry, States

-----------------------------------------------------------------------------
LEMMA HandleMoves ==
    ASSUME NEW a \in Actors, Handles(a)
    PROVE  Moves(a) /\ UNCHANGED <<keyed, edits, removal, misaddressed>>
BY DEF Handles, Moves, Places, Goto, At, FetchScript, AskSplit, DeleteEpisodes, CreateEpisodes,
       MarkSplit, MarkFailed, SetStatus, FetchEpisode, AskPrompt, ReadVersion, CreateAsCurrent,
       FetchPrompt, BulkSave, NodeDeleteBoards, NodeCreateBoards, NodeFetchBoard, CreateVideoRow,
       AskImage, AskVideo, SaveImage, SaveVideo, MarkVideoFailed, LogUsage, splitv, promptv

LEMMA MovesType ==
    ASSUME ContentTypeOK, NEW a \in Actors, Moves(a)
    PROVE  act' \in [Actors -> Actions] /\ pc' \in [Actors -> Places]
BY DEF Moves, ContentTypeOK, Actions, Places, States

LEMMA NewEpisodesType ==
    ASSUME ContentTypeOK, NEW a \in Actors
    PROVE  NewEpisodes(a) \subseteq EpisodeRows
<1>1. mem[a].eps \in Seq(Nat)
  BY DEF ContentTypeOK
<1>2. \A i \in DOMAIN mem[a].eps : i \in Nat /\ mem[a].eps[i] \in Nat
  BY <1>1
<1>3. ASSUME NEW i \in DOMAIN mem[a].eps
      PROVE  [no |-> mem[a].eps[i], by |-> Attempt(a), idx |-> i, live |-> TRUE] \in EpisodeRows
  BY <1>2, AttemptType DEF EpisodeRows
<1> QED BY <1>3 DEF NewEpisodes

LEMMA NewBoardsType ==
    ASSUME ContentTypeOK, NEW a \in Actors
    PROVE  NewBoards(a) \subseteq BoardRows
<1>1. mem[a].ver \in Nat /\ mem[a].shots \in SUBSET Nat
  BY DEF ContentTypeOK
<1>2. ASSUME NEW n \in mem[a].shots
      PROVE  [shot |-> n, prompt |-> mem[a].ver, by |-> Attempt(a), live |-> TRUE] \in BoardRows
  BY <1>1, AttemptType DEF BoardRows
<1> QED BY <1>2 DEF NewBoards

LEMMA NumberedType ==
    ASSUME NEW list \in EpisodeLists
    PROVE  Numbered(list) \in Seq(Nat) /\ Len(Numbered(list)) = Len(list)
<1>1. list \in Seq(Nat)
  BY ContentAssumption
<1>2. Numbered(list) = [i \in 1..Len(list) |-> IF list[i] = 0 THEN i ELSE list[i]]
  BY <1>1 DEF Numbered
<1>3. \A i \in 1..Len(list) : (IF list[i] = 0 THEN i ELSE list[i]) \in Nat
  BY <1>1
<1> QED BY <1>1, <1>2, <1>3

\* The first of the current prompts is a prompt.
LEMMA FirstIsAPrompt ==
    ASSUME ContentTypeOK, HasShots
    PROVE  /\ FirstCurrent \in current /\ FirstCurrent \in DOMAIN prompts
           /\ prompts[FirstCurrent] \in Prompts /\ prompts[FirstCurrent].shots # {}
<1>1. PICK i \in current : (\A j \in current : i <= j) /\ prompts[i].shots # {}
  BY DEF HasShots
<1>2. current \subseteq DOMAIN prompts /\ prompts \in Seq(Prompts) /\ current \subseteq Nat
  BY DEF ContentTypeOK, Prompts
<1>3. FirstCurrent \in current /\ \A j \in current : FirstCurrent <= j
  BY <1>1 DEF FirstCurrent
<1>4. FirstCurrent = i
  BY <1>1, <1>2, <1>3
<1> QED BY <1>1, <1>2, <1>4

MemoryType == mem \in [Actors -> Memories]
SplitType == /\ unmarked \in BOOLEAN /\ script \in {Uploaded, SplitOK, Failed}
             /\ episodes \subseteq EpisodeRows
PromptType == prompts \in Seq(Prompts) /\ current \subseteq DOMAIN prompts
MediaType == /\ images \subseteq Attempts /\ calls \subseteq Attempts
             /\ shorts \subseteq [by : Attempts, status : {"running", "succeeded", "failed"}]
             /\ logs \subseteq [by : Attempts, status : {"succeeded", "failed"}]
FaultType == faults \in 0..MaxFaults

LEMMA HandleMemory ==
    ASSUME ContentInv, NEW a \in Actors, Handles(a)
    PROVE  MemoryType'
<1>1. MemoryType
  BY DEF ContentInv, ContentTypeOK, MemoryType, Memories
<1>2. CASE AskSplit(a)
  <2>1. CASE UNCHANGED mem
    BY <2>1, <1>1 DEF MemoryType
  <2>2. ASSUME NEW list \in EpisodeLists, mem' = [mem EXCEPT ![a].eps = Numbered(list)]
        PROVE  MemoryType'
    BY <1>1, <2>2, NumberedType DEF MemoryType, Memories
  <2> QED BY <1>2, <2>1, <2>2 DEF AskSplit
<1>3. CASE AskPrompt(a)
  <2>1. CASE UNCHANGED mem
    BY <2>1, <1>1 DEF MemoryType
  <2>2. ASSUME NEW shots \in ShotLists, mem' = [mem EXCEPT ![a].shots = shots]
        PROVE  MemoryType'
    <3>1. shots \in SUBSET Nat
      BY ContentAssumption
    <3> QED BY <1>1, <2>2, <3>1 DEF MemoryType, Memories
  <2> QED BY <1>3, <2>1, <2>2 DEF AskPrompt
<1>4. CASE ReadVersion(a)
  <2>1. PICK v \in Nat : mem' = [mem EXCEPT ![a].ver = v]
    <3>1. MaxVersion + 1 \in Nat
      BY MaxVersionIsLargest DEF ContentInv, ContentTypeOK
    <3> QED BY <1>4, <3>1 DEF ReadVersion
  <2> QED BY <1>1, <2>1 DEF MemoryType, Memories
<1>5. CASE FetchPrompt(a)
  <2>1. CASE UNCHANGED mem
    BY <2>1, <1>1 DEF MemoryType
  <2>2. CASE HasShots /\ mem' = [mem EXCEPT ![a].ver = FirstCurrent,
                                            ![a].shots = prompts[FirstCurrent].shots]
    <3>1. FirstCurrent \in Nat /\ prompts[FirstCurrent].shots \in SUBSET Nat
      <4>1. /\ FirstCurrent \in DOMAIN prompts /\ prompts[FirstCurrent] \in Prompts
            /\ prompts \in Seq(Prompts)
        BY <2>2, FirstIsAPrompt DEF ContentInv, ContentTypeOK, Prompts
      <4> QED BY <4>1 DEF Prompts
    <3> QED BY <1>1, <2>2, <3>1 DEF MemoryType, Memories
  <2> QED BY <1>5, <2>1, <2>2 DEF FetchPrompt
<1>6. CASE UNCHANGED mem
  BY <1>1, <1>6 DEF MemoryType
<1>7. AskSplit(a) \/ AskPrompt(a) \/ ReadVersion(a) \/ FetchPrompt(a) \/ UNCHANGED mem
  BY DEF Handles, FetchScript, DeleteEpisodes, CreateEpisodes,
       MarkSplit, MarkFailed, SetStatus, FetchEpisode, CreateAsCurrent,
       BulkSave, NodeDeleteBoards, NodeCreateBoards, NodeFetchBoard, CreateVideoRow,
       AskImage, AskVideo, SaveImage, SaveVideo, MarkVideoFailed, LogUsage, work
<1> QED BY <1>2, <1>3, <1>4, <1>5, <1>6, <1>7

LEMMA HandleSplit ==
    ASSUME ContentInv, NEW a \in Actors, Handles(a)
    PROVE  SplitType'
<1>1. SplitType
  BY DEF ContentInv, ContentTypeOK, SplitType, EpisodeRows
<1>2. CASE FetchScript(a)
  BY <1>1, <1>2 DEF FetchScript, SplitType
<1>3. CASE DeleteEpisodes(a)
  BY <1>1, <1>3, BuriedType DEF DeleteEpisodes, SplitType, ContentInv
<1>4. CASE CreateEpisodes(a)
  BY <1>1, <1>4, NewEpisodesType DEF CreateEpisodes, SplitType, ContentInv
<1>5. CASE MarkSplit(a) \/ MarkFailed(a)
  BY <1>1, <1>5 DEF MarkSplit, MarkFailed, SetStatus, SplitType
<1>6. CASE UNCHANGED splitv
  BY <1>1, <1>6 DEF SplitType, splitv
<1>7. \/ FetchScript(a) \/ DeleteEpisodes(a) \/ CreateEpisodes(a) \/ MarkSplit(a) \/ MarkFailed(a)
      \/ UNCHANGED splitv
  BY DEF Handles, AskSplit, FetchEpisode, AskPrompt, ReadVersion, CreateAsCurrent,
       FetchPrompt, BulkSave, NodeDeleteBoards, NodeCreateBoards, NodeFetchBoard, CreateVideoRow,
       AskImage, AskVideo, SaveImage, SaveVideo, MarkVideoFailed, LogUsage
<1> QED BY <1>2, <1>3, <1>4, <1>5, <1>6, <1>7

LEMMA HandlePrompts ==
    ASSUME ContentInv, NEW a \in Actors, Handles(a)
    PROVE  PromptType'
<1>1. PromptType /\ mem[a] \in Memories
  BY DEF ContentInv, ContentTypeOK, PromptType, Prompts, Memories
<1>2. CASE CreateAsCurrent(a) /\ prompts' # prompts
  <2>1. /\ prompts' = Append(prompts, [ver |-> mem[a].ver, shots |-> mem[a].shots])
        /\ current' = {Len(prompts')}
    BY <1>2 DEF CreateAsCurrent
  <2>2. [ver |-> mem[a].ver, shots |-> mem[a].shots] \in Prompts
    BY <1>1 DEF Memories, Prompts
  <2> HIDE DEF Prompts
  <2>3. prompts' \in Seq(Prompts) /\ Len(prompts') = Len(prompts) + 1 /\ Len(prompts) \in Nat
    BY <1>1, <2>1, <2>2 DEF PromptType
  <2> QED BY <2>1, <2>3 DEF PromptType
<1>3. CASE UNCHANGED <<prompts, current>>
  BY <1>1, <1>3 DEF PromptType
<1>4. CreateAsCurrent(a) \/ UNCHANGED <<prompts, current>>
  BY DEF Handles, FetchScript, AskSplit, DeleteEpisodes, CreateEpisodes,
       MarkSplit, MarkFailed, SetStatus, FetchEpisode, AskPrompt, ReadVersion,
       FetchPrompt, BulkSave, NodeDeleteBoards, NodeCreateBoards, NodeFetchBoard, CreateVideoRow,
       AskImage, AskVideo, SaveImage, SaveVideo, MarkVideoFailed, LogUsage, promptv
<1>5. CASE CreateAsCurrent(a) /\ prompts' = prompts
  <2>1. CASE UNCHANGED <<prompts, current>>
    BY <2>1, <1>3
  <2>2. CASE prompts' = Append(prompts, [ver |-> mem[a].ver, shots |-> mem[a].shots])
    <3>1. Len(prompts') = Len(prompts) + 1 /\ Len(prompts) \in Nat
      BY <2>2, <1>1 DEF PromptType
    <3> QED BY <3>1, <1>5
  <2> QED BY <1>5, <2>1, <2>2 DEF CreateAsCurrent
<1> QED BY <1>2, <1>3, <1>4, <1>5

LEMMA HandleBoards ==
    ASSUME ContentInv, NEW a \in Actors, Handles(a)
    PROVE  boards' \subseteq BoardRows
<1>1. boards \subseteq BoardRows /\ ContentTypeOK
  BY DEF ContentInv, ContentTypeOK, BoardRows
<1>2. CASE BulkSave(a) \/ NodeDeleteBoards(a) \/ NodeCreateBoards(a)
  BY <1>1, <1>2, BuriedType, NewBoardsType DEF BulkSave, NodeDeleteBoards, NodeCreateBoards
<1>3. CASE UNCHANGED boards
  BY <1>1, <1>3
<1>4. BulkSave(a) \/ NodeDeleteBoards(a) \/ NodeCreateBoards(a) \/ UNCHANGED boards
  BY DEF Handles, FetchScript, AskSplit, DeleteEpisodes, CreateEpisodes,
       MarkSplit, MarkFailed, SetStatus, FetchEpisode, AskPrompt, ReadVersion, CreateAsCurrent,
       FetchPrompt, NodeFetchBoard, CreateVideoRow,
       AskImage, AskVideo, SaveImage, SaveVideo, MarkVideoFailed, LogUsage
<1> QED BY <1>2, <1>3, <1>4

LEMMA HandleMedia ==
    ASSUME ContentInv, NEW a \in Actors, Handles(a)
    PROVE  MediaType'
<1>1. MediaType /\ Attempt(a) \in Attempts
  BY AttemptType DEF ContentInv, ContentTypeOK, MediaType
<1>2. CASE CreateVideoRow(a)
  BY <1>1, <1>2 DEF CreateVideoRow, MediaType
<1>3. CASE AskImage(a) \/ AskVideo(a)
  BY <1>1, <1>3 DEF AskImage, AskVideo, MediaType
<1>4. CASE SaveImage(a)
  BY <1>1, <1>4 DEF SaveImage, MediaType
<1>5. CASE SaveVideo(a)
  BY <1>1, <1>5 DEF SaveVideo, MediaType
<1>6. CASE MarkVideoFailed(a)
  <2>1. \A r \in OwnRow(a) : [r EXCEPT !.status = "failed"] \in
                               [by : Attempts, status : {"running", "succeeded", "failed"}]
    BY <1>1 DEF OwnRow, MediaType
  <2> QED BY <1>1, <1>6, <2>1 DEF MarkVideoFailed, MediaType
<1>7. CASE LogUsage(a)
  BY <1>1, <1>7 DEF LogUsage, WriteLog, MediaType
<1>8. CASE UNCHANGED mediav
  BY <1>1, <1>8 DEF MediaType, mediav
<1>9. \/ CreateVideoRow(a) \/ AskImage(a) \/ AskVideo(a) \/ SaveImage(a) \/ SaveVideo(a)
      \/ MarkVideoFailed(a) \/ LogUsage(a) \/ UNCHANGED mediav
  BY DEF Handles, FetchScript, AskSplit, DeleteEpisodes, CreateEpisodes,
       MarkSplit, MarkFailed, SetStatus, FetchEpisode, AskPrompt, ReadVersion, CreateAsCurrent,
       FetchPrompt, BulkSave, NodeDeleteBoards, NodeCreateBoards, NodeFetchBoard
<1> QED BY <1>2, <1>3, <1>4, <1>5, <1>6, <1>7, <1>8, <1>9

\* A statement that fails is one of the faults allowed; no step takes one back.
LEMMA HandleFaults ==
    ASSUME ContentInv, NEW a \in Actors, Handles(a)
    PROVE  Works \/ Breaks
BY DEF Handles, Works, FetchScript, AskSplit, DeleteEpisodes, CreateEpisodes,
       MarkSplit, MarkFailed, SetStatus, FetchEpisode, AskPrompt, ReadVersion, CreateAsCurrent,
       FetchPrompt, BulkSave, NodeDeleteBoards, NodeCreateBoards, NodeFetchBoard, CreateVideoRow,
       AskImage, AskVideo, SaveImage, SaveVideo, MarkVideoFailed, LogUsage, WriteLog
LEMMA FaultsGrow ==
    ASSUME ContentTypeOK, Works \/ Breaks
    PROVE  FaultType' /\ faults' \in {faults, faults + 1}
BY ContentAssumption DEF ContentTypeOK, Works, Breaks, FaultType

-----------------------------------------------------------------------------
ControlType == /\ act \in [Actors -> Actions] /\ pc \in [Actors -> Places]
RequestType == /\ keyed \in BOOLEAN /\ misaddressed \in BOOLEAN
               /\ removal \in {"none", "half", "done"} /\ edits \in 0..MaxEdits
LEMMA TypesTogether ==
    ContentTypeOK <=> /\ ControlType /\ RequestType /\ MemoryType /\ SplitType /\ PromptType
                      /\ MediaType /\ FaultType /\ boards \subseteq BoardRows
BY DEF ContentTypeOK, ControlType, RequestType, MemoryType, SplitType, PromptType, MediaType,
   FaultType,
       Actions, Places, States, Memories, EpisodeRows, Prompts, BoardRows

LEMMA ContentTypeStep ==
    ASSUME ContentInv, [ContentNext]_contentVars
    PROVE  ContentTypeOK'
<1> USE DEF ContentInv
<1>0. /\ ControlType /\ RequestType /\ MemoryType /\ SplitType /\ PromptType
      /\ MediaType /\ FaultType /\ boards \subseteq BoardRows
  BY TypesTogether
<1>1. CASE UNCHANGED contentVars
  BY <1>1, TypesTogether DEF contentVars, work, splitv, promptv, mediav, ContentTypeOK
<1>2. ASSUME NEW a \in Actors, Starts(a) PROVE ContentTypeOK'
  <2>1. PICK mode \in Modes, kind \in Kinds : Enqueue(a, mode, kind)
    BY <1>2 DEF Starts
  <2>2. act' \in [Actors -> Actions]
    <3>1. 0 \in 0..MaxRetry
      BY ContentAssumption
    <3>2. [mode |-> mode, kind |-> kind, st |-> "queued", tries |-> 0] \in Actions
      BY <3>1 DEF Actions, States
    <3> QED BY <2>1, <3>2, <1>0 DEF Enqueue, ControlType
  <2>3. /\ ControlType' /\ RequestType' /\ MemoryType' /\ SplitType' /\ PromptType'
        /\ MediaType' /\ FaultType' /\ (boards \subseteq BoardRows)'
    BY <1>0, <2>1, <2>2 DEF Enqueue, ControlType, RequestType, MemoryType, SplitType, PromptType,
       MediaType,
                            FaultType, splitv, promptv, mediav
  <2> QED BY <2>3, TypesTogether DEF ContentTypeOK, ControlType, RequestType, MemoryType,
             SplitType, PromptType, MediaType,
            FaultType, Actions, Places, States, Memories, EpisodeRows, Prompts, BoardRows
<1> DEFINE Others == /\ RequestType' /\ MemoryType' /\ SplitType' /\ PromptType'
                     /\ MediaType' /\ FaultType' /\ (boards \subseteq BoardRows)'
<1>3. ASSUME ControlType', Others PROVE ContentTypeOK'
  BY <1>3 DEF ContentTypeOK, ControlType, RequestType, MemoryType, SplitType, PromptType, MediaType,
            FaultType, Actions, Places, States, Memories, EpisodeRows, Prompts, BoardRows
<1>4. ASSUME NEW a \in Actors, Deliver(a) PROVE ContentTypeOK'
  <2>1. ControlType'
    <3>1. act' = [act EXCEPT ![a] = [act[a] EXCEPT !.st = "running"]] /\ act[a] \in Actions
      BY <1>0, <1>4 DEF Deliver, ControlType
    <3>2. [act[a] EXCEPT !.st = "running"] \in Actions
      BY <3>1 DEF Actions, States
    <3>3. act' \in [Actors -> Actions]
      BY <1>0, <3>1, <3>2 DEF ControlType
    <3>4. FirstStep(a) \in Places
      BY DEF FirstStep, Places
    <3> QED BY <1>0, <1>4, <3>3, <3>4 DEF Deliver, ControlType
  <2>2. Others
    BY <1>0, <1>4 DEF Deliver, RequestType, MemoryType, SplitType, PromptType, MediaType,
                      FaultType, splitv, promptv, mediav
  <2> QED BY <1>3, <2>1, <2>2
<1>5. ASSUME NEW a \in Actors, Finish(a) PROVE ContentTypeOK'
  <2>1. ControlType' /\ MemoryType'
    BY <1>5, RetryType DEF Finish, States, ControlType, MemoryType
  <2>2. Others
    BY <1>0, <1>5, <2>1 DEF Finish, RequestType, SplitType, PromptType, MediaType,
                      FaultType, splitv, promptv, mediav
  <2> QED BY <1>3, <2>1, <2>2
<1>6. ASSUME NEW a \in Actors, Crash(a) PROVE ContentTypeOK'
  <2>1. ControlType' /\ MemoryType'
    BY <1>6, RetryType DEF Crash, States, ControlType, MemoryType
  <2>2. FaultType'
    BY <1>6, FaultsGrow DEF Crash
  <2>3. Others
    BY <1>0, <1>6, <2>1, <2>2 DEF Crash, RequestType, SplitType, PromptType, MediaType, promptv,
       mediav
  <2> QED BY <1>3, <2>1, <2>3
<1>7. ASSUME NEW a \in Actors, Handles(a) PROVE ContentTypeOK'
  <2>1. ControlType' /\ RequestType'
    BY <1>0, <1>7, HandleMoves, MovesType DEF ControlType, RequestType
  <2>2. Others
    BY <1>7, <2>1, HandleMemory, HandleSplit, HandlePrompts, HandleMedia, HandleBoards,
       HandleFaults, FaultsGrow
  <2> QED BY <1>3, <2>1, <2>2
<1>8. ASSUME DeleteScriptEpisodes PROVE ContentTypeOK'
  <2>1. ControlType' /\ RequestType'
    <3>1. edits + 1 \in 0..MaxEdits
      BY <1>0, <1>8, ContentAssumption DEF DeleteScriptEpisodes, RequestType
    <3> QED BY <1>0, <1>8, <3>1 DEF DeleteScriptEpisodes, ControlType, RequestType, work, promptv
  <2>2. Others
    BY <1>0, <1>8, <2>1, BuriedType DEF DeleteScriptEpisodes, RequestType, MemoryType, SplitType,
       PromptType, MediaType,
                      FaultType, work, promptv, mediav
  <2> QED BY <1>3, <2>1, <2>2
<1>9. ASSUME DeleteScript PROVE ContentTypeOK'
  <2>1. ControlType' /\ Others
    BY <1>0, <1>9 DEF DeleteScript, ControlType, RequestType, MemoryType, SplitType, PromptType,
       MediaType,
                      FaultType, work, splitv, promptv, mediav
  <2> QED BY <1>3, <2>1
<1>10. ASSUME NEW own \in BOOLEAN, NEW id \in {{}} \cup {{i} : i \in DOMAIN prompts}, SetCurrent(own, id)
       PROVE  ContentTypeOK'
  <2>1. RequestType' /\ PromptType'
    BY <1>0, <1>10, ContentAssumption DEF SetCurrent, RequestType, PromptType
  <2>2. ControlType' /\ Others
    BY <1>0, <1>10, <2>1 DEF SetCurrent, ControlType, MemoryType, SplitType, MediaType,
                      FaultType, work, splitv, mediav
  <2> QED BY <1>3, <2>2
<1> HIDE DEF ContentInv
<1> QED BY <1>1, <1>2, <1>4, <1>5, <1>6, <1>7, <1>8, <1>9, <1>10, ContentCases

\* What a step does to the actor that takes it, and to the others.
LEMMA OthersStay ==
    ASSUME ContentTypeOK, NEW a \in Actors,
           Starts(a) \/ Deliver(a) \/ Finish(a) \/ Crash(a) \/ Handles(a)
    PROVE  \A b \in Actors \ {a} : /\ act'[b] = act[b] /\ pc'[b] = pc[b] /\ mem'[b] = mem[b]
<1>0. /\ act \in [Actors -> Actions] /\ pc \in [Actors -> Places] /\ mem \in [Actors -> Memories]
  BY TypesTogether DEF ControlType, MemoryType
<1>1. CASE Starts(a)
  BY <1>0, <1>1 DEF Starts, Enqueue
<1>2. CASE Deliver(a)
  BY <1>0, <1>2 DEF Deliver
<1>3. CASE Finish(a) \/ Crash(a)
  BY <1>0, <1>3 DEF Finish, Crash, Retry, Leave
<1>4. CASE Handles(a)
  <2>1. \A b \in Actors \ {a} : act'[b] = act[b] /\ pc'[b] = pc[b]
    BY <1>0, <1>4, HandleMoves DEF Moves
  <2>2. \A b \in Actors \ {a} : mem'[b] = mem[b]
    BY <1>0, <1>4 DEF Handles, FetchScript, AskSplit, DeleteEpisodes, CreateEpisodes,
       MarkSplit, MarkFailed, SetStatus, FetchEpisode, AskPrompt, ReadVersion, CreateAsCurrent,
       FetchPrompt, BulkSave, NodeDeleteBoards, NodeCreateBoards, NodeFetchBoard, CreateVideoRow,
       AskImage, AskVideo, SaveImage, SaveVideo, MarkVideoFailed, LogUsage
  <2> QED BY <2>1, <2>2
<1> QED BY <1>1, <1>2, <1>3, <1>4

LEMMA StartingActor ==
    ASSUME ContentTypeOK, NEW a \in Actors, Starts(a)
    PROVE  /\ act[a].st = "free" /\ act'[a].st = "queued" /\ act'[a].tries = 0
           /\ UNCHANGED <<pc, mem, keyed, edits, removal, splitv, promptv, boards, mediav, faults>>
BY TypesTogether DEF ControlType, Starts, Enqueue

LEMMA DeliveredActor ==
    ASSUME ContentTypeOK, NEW a \in Actors, Deliver(a)
    PROVE  /\ act[a].st = "queued" /\ act'[a].st = "running" /\ pc'[a] = FirstStep(a)
           /\ act'[a].kind = act[a].kind /\ act'[a].mode = act[a].mode /\ act'[a].tries = act[a].tries
           /\ UNCHANGED <<mem, keyed, edits, removal, splitv, promptv, boards, mediav, faults>>
<1>0. act \in [Actors -> Actions] /\ pc \in [Actors -> Places]
  BY TypesTogether DEF ControlType
<1>1. act[a] \in Actions /\ act' = [act EXCEPT ![a] = [act[a] EXCEPT !.st = "running"]]
  BY <1>0 DEF Deliver
<1> QED BY <1>0, <1>1 DEF Deliver, Actions

LEMMA LeavingActor ==
    ASSUME ContentTypeOK, NEW a \in Actors, Finish(a) \/ Crash(a)
    PROVE  /\ act[a].st = "running" /\ act'[a].st \in {"queued", "done", "failed", "lost"}
           /\ act'[a].kind = act[a].kind /\ act'[a].mode = act[a].mode
           /\ act'[a].st = "done" => Finish(a) /\ pc[a] = "ok"
           /\ act'[a].st = "failed" => Crash(a) \/ pc[a] = "err"
           /\ act'[a].st # "queued" => act'[a].tries = act[a].tries
           /\ Finish(a) => pc[a] \in {"ok", "err"}
           /\ mem'[a] = Forgotten
           /\ UNCHANGED <<keyed, edits, removal, script, episodes, promptv, boards, mediav>>
<1>0. act \in [Actors -> Actions] /\ mem \in [Actors -> Memories] /\ act[a] \in Actions
  BY TypesTogether DEF ControlType, MemoryType
<1>1. ASSUME NEW st, NEW tries, Leave(a, st, tries)
      PROVE  /\ act'[a].st = st /\ act'[a].tries = tries /\ mem'[a] = Forgotten
             /\ act'[a].kind = act[a].kind /\ act'[a].mode = act[a].mode
  <2>1. act' = [act EXCEPT ![a] = [act[a] EXCEPT !.st = st, !.tries = tries]]
    BY <1>0, <1>1 DEF Leave
  <2> QED BY <1>0, <1>1, <2>1 DEF Leave, Actions
<1>2. CASE Finish(a) /\ At(a, "ok") /\ Leave(a, "done", act[a].tries)
  BY <1>1, <1>2 DEF Finish, At, splitv
<1>3. CASE Finish(a) /\ At(a, "err") /\ Retry(a)
  BY <1>1, <1>3 DEF Finish, At, Retry, splitv
<1>4. CASE Crash(a)
  BY <1>1, <1>4 DEF Crash, Retry, Finish, At
<1> QED BY <1>2, <1>3, <1>4 DEF Finish

\* The steps that are no actor's.
Request == \/ DeleteScriptEpisodes \/ DeleteScript \/ UNCHANGED contentVars
           \/ \E own \in BOOLEAN, id \in {{}} \cup {{i} : i \in DOMAIN prompts} : SetCurrent(own, id)
Acts(a) == Starts(a) \/ Deliver(a) \/ Finish(a) \/ Crash(a) \/ Handles(a)
LEMMA StepCases ==
    ASSUME [ContentNext]_contentVars
    PROVE  (\E a \in Actors : Acts(a)) \/ Request
BY ContentCases DEF Acts, Request
LEMMA RequestKeeps ==
    ASSUME Request
    PROVE  UNCHANGED <<keyed, work, act, pc, mem, script, unmarked, prompts, boards, images, shorts, logs, calls, faults>>
BY DEF Request, DeleteScriptEpisodes, DeleteScript, SetCurrent, contentVars, splitv, promptv,
   work, mediav

LEMMA VersionsStep ==
    ASSUME ContentInv, ContentTypeOK', [ContentNext]_contentVars
    PROVE  Versions'
<1> USE DEF ContentInv
<1>0. /\ prompts \in Seq(Prompts) /\ Len(prompts) \in Nat /\ Versions
      /\ \A a \in Actors : mem[a].ver \in Nat
      /\ act \in [Actors -> Actions] /\ mem \in [Actors -> Memories] /\ pc \in [Actors -> Places]
      /\ prompts' \in Seq(Prompts)
  <2>1. /\ act \in [Actors -> Actions] /\ mem \in [Actors -> Memories] /\ pc \in [Actors -> Places]
        /\ prompts \in Seq(Prompts)
    BY TypesTogether DEF ControlType, MemoryType, PromptType
  <2>2. prompts' \in Seq(Prompts)
    BY DEF ContentTypeOK, Prompts
  <2>3. \A a \in Actors : mem[a] \in Memories
    BY <2>1
  <2> QED BY <2>1, <2>2, <2>3 DEF Memories
<1>1. CASE Request
  BY <1>0, <1>1, RequestKeeps DEF Versions, Doing, At
<1>2. ASSUME NEW a \in Actors, Acts(a), UNCHANGED prompts,
             Doing(a, "prompt")' /\ At(a, "save")' => mem'[a].ver <= Len(prompts) + 1
      PROVE  Versions'
  <2>1. \A b \in Actors \ {a} : act'[b] = act[b] /\ pc'[b] = pc[b] /\ mem'[b] = mem[b]
    BY <1>2, OthersStay DEF Acts
  <2>2. \A i \in DOMAIN prompts' : prompts'[i].ver <= Len(prompts')
    BY <1>0, <1>2 DEF Versions
  <2>3. ASSUME NEW b \in Actors, Doing(b, "prompt")', At(b, "save")'
        PROVE  mem'[b].ver <= Len(prompts') + 1
    BY <1>0, <1>2, <2>1, <2>3 DEF Versions, Doing, At
  <2> QED BY <2>2, <2>3 DEF Versions
<1>3. ASSUME NEW a \in Actors, Starts(a) PROVE Versions'
  BY <1>2, <1>3, StartingActor DEF At, promptv, Acts
<1>4. ASSUME NEW a \in Actors, Deliver(a) PROVE Versions'
  <2>1. pc'[a] # "save"
    BY <1>4, DeliveredActor DEF FirstStep
  <2> QED BY <1>2, <1>4, <2>1, DeliveredActor DEF At, promptv, Acts
<1>5. ASSUME NEW a \in Actors, Finish(a) \/ Crash(a) PROVE Versions'
  BY <1>2, <1>5, LeavingActor DEF At, promptv, Acts
<1>6. ASSUME NEW a \in Actors, Handles(a) PROVE Versions'
  <2>1. CASE CreateAsCurrent(a)
    <3>1. CASE UNCHANGED <<prompts, current>> /\ Goto(a, "err")
      BY <1>0, <1>2, <1>6, <3>1, <2>1 DEF Goto, At, Acts
    <3>2. CASE /\ prompts' = Append(prompts, [ver |-> mem[a].ver, shots |-> mem[a].shots])
               /\ Goto(a, "ok")
      <4>1. mem[a].ver <= Len(prompts) + 1 /\ mem[a].ver \in Nat
        BY <1>0, <2>1 DEF CreateAsCurrent, Versions
      <4>2. /\ Len(prompts') = Len(prompts) + 1
            /\ \A i \in 1..Len(prompts) : prompts'[i] = prompts[i]
            /\ prompts'[Len(prompts) + 1].ver = mem[a].ver
            /\ DOMAIN prompts' = 1..(Len(prompts) + 1) /\ DOMAIN prompts = 1..Len(prompts)
        BY <1>0, <3>2
      <4>3. \A i \in 1..Len(prompts) : prompts[i].ver \in Nat
        <5>1. \A i \in 1..Len(prompts) : prompts[i] \in Prompts
          BY <1>0
        <5> QED BY <5>1 DEF Prompts
      <4>4. \A i \in DOMAIN prompts' : prompts'[i].ver <= Len(prompts')
        <5>1. ASSUME NEW i \in DOMAIN prompts' PROVE prompts'[i].ver <= Len(prompts) + 1
          <6>1. CASE i = Len(prompts) + 1
            BY <6>1, <4>1, <4>2
          <6>2. CASE i \in 1..Len(prompts)
            <7>1. prompts[i].ver <= Len(prompts)
              BY <6>2, <4>2, <1>0 DEF Versions
            <7> QED BY <7>1, <6>2, <4>2, <4>3, <1>0
          <6> QED BY <1>0, <6>1, <6>2, <4>2
        <5> QED BY <5>1, <4>2
      <4>5. ASSUME NEW b \in Actors, Doing(b, "prompt")', At(b, "save")'
            PROVE  mem'[b].ver <= Len(prompts') + 1
        <5>1. b # a /\ act'[b] = act[b] /\ pc'[b] = pc[b] /\ mem'[b] = mem[b]
          BY <1>0, <1>6, <4>5, <3>2, OthersStay DEF Goto, At
        <5>2. mem[b].ver <= Len(prompts) + 1 /\ mem[b].ver \in Nat
          BY <1>0, <5>1, <4>5 DEF Doing, At, Versions
        <5> QED BY <1>0, <5>1, <5>2, <4>2
      <4> QED BY <4>4, <4>5 DEF Versions
    <3> QED BY <2>1, <3>1, <3>2 DEF CreateAsCurrent
  <2>2. CASE ReadVersion(a)
    <3>1. MaxVersion + 1 <= Len(prompts) + 1 /\ 1 <= Len(prompts) + 1
      BY <1>0, MaxVersionIsLargest
    <3>2. mem'[a].ver <= Len(prompts) + 1
      BY <1>0, <2>2, <3>1 DEF ReadVersion, Memories
    <3>3. UNCHANGED prompts
      BY <2>2 DEF ReadVersion, promptv
    <3> QED BY <1>2, <1>6, <3>2, <3>3 DEF Acts
  <2>3. CASE UNCHANGED prompts /\ ~(Doing(a, "prompt")' /\ At(a, "save")')
    BY <1>2, <1>6, <2>3 DEF Acts
  <2>4. CreateAsCurrent(a) \/ ReadVersion(a) \/ (UNCHANGED prompts /\ ~(Doing(a, "prompt")' /\ At(a, "save")'))
    BY <1>0, <1>6 DEF Handles, Doing, At, Goto, promptv, FetchScript, AskSplit, DeleteEpisodes,
       CreateEpisodes,
       MarkSplit, MarkFailed, SetStatus, FetchEpisode, AskPrompt,
       FetchPrompt, BulkSave, NodeDeleteBoards, NodeCreateBoards, NodeFetchBoard, CreateVideoRow,
       AskImage, AskVideo, SaveImage, SaveVideo, MarkVideoFailed, LogUsage
  <2> QED BY <2>1, <2>2, <2>3, <2>4
<1> QED BY <1>1, <1>3, <1>4, <1>5, <1>6, StepCases DEF Acts

LEMMA ContentInitially == ContentInit => ContentInv
<1> SUFFICES ASSUME ContentInit PROVE ContentInv
  OBVIOUS
<1>1. 0 \in 0..MaxRetry /\ 0 \in 0..MaxFaults /\ 0 \in 0..MaxEdits
  BY ContentAssumption
<1>2. Idle \in Actions /\ Forgotten \in Memories
  BY <1>1 DEF Idle, Actions, Modes, Kinds, States, Forgotten, Memories
<1>3. ControlType /\ MemoryType /\ RequestType /\ FaultType /\ MediaType /\ boards \subseteq BoardRows
  BY <1>1, <1>2 DEF ContentInit, ControlType, MemoryType, RequestType, FaultType, MediaType, Places
<1>4. SplitType
  <2>1. [no |-> 1, by |-> <<"import", 0>>, idx |-> 1, live |-> TRUE] \in EpisodeRows
    BY DEF EpisodeRows
  <2> QED BY <2>1 DEF ContentInit, SplitType
<1>5. PromptType /\ Versions
  <2>1. [ver |-> 1, shots |-> {1}] \in Prompts
    BY DEF Prompts
  <2>2. CASE prompts = <<>> /\ current = {}
    BY <2>2, <1>2 DEF ContentInit, PromptType, Versions, At, Idle
  <2>3. CASE prompts = <<[ver |-> 1, shots |-> {1}]>> /\ current = {1}
    BY <2>1, <2>3, <1>2 DEF ContentInit, PromptType, Versions, At, Idle
  <2> QED BY <2>2, <2>3 DEF ContentInit
<1> QED BY <1>3, <1>4, <1>5, TypesTogether DEF ContentInv

\* The tables and the handlers' variables keep their types.
THEOREM ContentTypeCorrect == ContentSpec => []ContentTypeOK
<1>1. ContentInv /\ [ContentNext]_contentVars => ContentInv'
  BY ContentTypeStep, VersionsStep DEF ContentInv
<1> QED BY ContentInitially, <1>1, PTL DEF ContentSpec, ContentInv

-----------------------------------------------------------------------------
\* While no call names the prompt of another episode, any two current prompts are one.
OneInv == ~misaddressed => \A i, j \in current : i = j

LEMMA OneStep ==
    ASSUME ContentInv, OneInv, [ContentNext]_contentVars
    PROVE  OneInv'
<1>0. ContentTypeOK
  BY DEF ContentInv
<1>1. CASE UNCHANGED <<current, misaddressed>>
  BY <1>1 DEF OneInv
<1>2. ASSUME NEW own \in BOOLEAN, NEW id \in {{}} \cup {{i} : i \in DOMAIN prompts}, SetCurrent(own, id)
      PROVE  OneInv'
  <2>1. CASE own
    BY <1>2, <2>1 DEF SetCurrent, OneInv
  <2>2. CASE ~own /\ id = {}
    BY <1>2, <2>2 DEF SetCurrent, OneInv
  <2>3. CASE ~own /\ id # {}
    BY <1>2, <2>3 DEF SetCurrent, OneInv
  <2> QED BY <2>1, <2>2, <2>3
<1>3. ASSUME NEW a \in Actors, Handles(a) PROVE OneInv'
  <2>1. CASE CreateAsCurrent(a)
    BY <1>1, <2>1 DEF CreateAsCurrent, OneInv
  <2>2. CASE UNCHANGED promptv
    BY <1>1, <2>2 DEF promptv
  <2> QED BY <1>3, <2>1, <2>2 DEF Handles, FetchScript, AskSplit, DeleteEpisodes, CreateEpisodes,
       MarkSplit, MarkFailed, SetStatus, FetchEpisode, AskPrompt, ReadVersion,
       FetchPrompt, BulkSave, NodeDeleteBoards, NodeCreateBoards, NodeFetchBoard, CreateVideoRow,
       AskImage, AskVideo, SaveImage, SaveVideo, MarkVideoFailed, LogUsage
<1>4. ASSUME NEW a \in Actors, Starts(a) \/ Deliver(a) \/ Finish(a) \/ Crash(a)
      PROVE  UNCHANGED <<current, misaddressed>>
  BY <1>0, <1>4, StartingActor, DeliveredActor, LeavingActor DEF promptv
<1>5. CASE DeleteScriptEpisodes \/ DeleteScript \/ UNCHANGED contentVars
  BY <1>1, <1>5 DEF DeleteScriptEpisodes, DeleteScript, contentVars, promptv
<1> QED BY <1>1, <1>2, <1>3, <1>4, <1>5, StepCases DEF Request, Acts

\* "Only one row of an episode has is_current = 1": every write that sets the
\* flag clears the others in its transaction, whatever interleaves.
THEOREM OnePromptIsCurrent == ContentSpec => []OneCurrentPrompt
<1>1. ContentInit => OneInv
  BY DEF ContentInit, OneInv
<1>2. OneInv => OneCurrentPrompt
  <2> SUFFICES ASSUME OneInv, ~misaddressed PROVE Cardinality(current) <= 1
    BY DEF OneCurrentPrompt
  <2>1. CASE current = {}
    BY <2>1, FS_EmptySet
  <2>2. ASSUME NEW i \in current PROVE Cardinality(current) <= 1
    <3>1. current = {i}
      BY <2>2 DEF OneInv
    <3> QED BY <3>1, FS_Singleton
  <2> QED BY <2>1, <2>2
<1>3. ContentInv /\ OneInv /\ [ContentNext]_contentVars => ContentInv' /\ OneInv'
  BY ContentTypeStep, VersionsStep, OneStep DEF ContentInv
<1> QED BY ContentInitially, <1>1, <1>2, <1>3, PTL DEF ContentSpec

-----------------------------------------------------------------------------
\* What a set that follows the count of faults may gain: one member for a fault.
LEMMA OneMore ==
    ASSUME NEW D, IsFiniteSet(D), NEW E, NEW x, NEW n \in Nat, NEW m \in {n, n + 1},
           Cardinality(D) <= n, E \subseteq D \cup {x}, m = n => E \subseteq D
    PROVE  IsFiniteSet(E) /\ Cardinality(E) <= m
<1>1. CASE E \subseteq D
  BY <1>1, FS_Subset, FS_CardinalityType
<1>2. CASE m = n + 1
  <2>1. IsFiniteSet(D \cup {x}) /\ Cardinality(D \cup {x}) <= Cardinality(D) + 1
    BY FS_AddElement, FS_CardinalityType
  <2> QED BY <1>2, <2>1, FS_Subset, FS_CardinalityType
<1> QED BY <1>1, <1>2

\* A row that says "running" is held by the attempt that will still write it.
Held(r) == \E a \in Actors : /\ act[a].st = "running" /\ r.by = Attempt(a)
                             /\ pc[a] \in {"ask", "save", "mark"}
Doomed == {r \in shorts : r.status = "running" /\ ~Held(r)}
Rows == \A r \in shorts : act[r.by[1]].kind = "video" /\ act[r.by[1]].st # "free"
VidInv == Rows /\ IsFiniteSet(Doomed) /\ Cardinality(Doomed) <= faults
OwnRunning(a) == [by |-> Attempt(a), status |-> "running"]

LEMMA KindStays ==
    ASSUME ContentTypeOK, NEW a \in Actors, Acts(a), NEW b \in Actors, act[b].st # "free"
    PROVE  /\ act'[b].kind = act[b].kind /\ act'[b].mode = act[b].mode /\ act'[b].st # "free"
<1>1. CASE a # b
  BY <1>1, OthersStay DEF Acts
<1>2. CASE a = b
  BY <1>2, StartingActor, DeliveredActor, LeavingActor, HandleMoves DEF Acts, Moves
<1> QED BY <1>1, <1>2

\* What the handlers do to the tables of media, by the place they leave.
MediaStep(a) ==
    \/ CreateVideoRow(a) \/ AskImage(a) \/ AskVideo(a) \/ SaveImage(a) \/ SaveVideo(a)
    \/ MarkVideoFailed(a) \/ (IsTask(a) /\ LogUsage(a))
OtherStep(a) ==
    /\ UNCHANGED <<images, shorts, logs, calls>>
    /\ act[a].kind \in {"image", "video"} => pc[a] = "fetch"
    /\ Works \/ Breaks
LEMMA MediaCases ==
    ASSUME ContentTypeOK, NEW a \in Actors, Handles(a)
    PROVE  MediaStep(a) \/ OtherStep(a)
<1>1. \/ MediaStep(a) \/ NodeFetchBoard(a)
      \/ /\ UNCHANGED mediav /\ act[a].kind \notin {"image", "video"}
  BY DEF Handles, MediaStep, Doing, FetchScript, AskSplit, DeleteEpisodes, CreateEpisodes,
       MarkSplit, MarkFailed, SetStatus, FetchEpisode, AskPrompt, ReadVersion, CreateAsCurrent,
       FetchPrompt, BulkSave, NodeDeleteBoards, NodeCreateBoards
<1>2. Works \/ Breaks
  BY DEF Handles, Works, FetchScript, AskSplit, DeleteEpisodes, CreateEpisodes,
       MarkSplit, MarkFailed, SetStatus, FetchEpisode, AskPrompt, ReadVersion, CreateAsCurrent,
       FetchPrompt, BulkSave, NodeDeleteBoards, NodeCreateBoards, NodeFetchBoard, CreateVideoRow,
       AskImage, AskVideo, SaveImage, SaveVideo, MarkVideoFailed, LogUsage, WriteLog
<1> QED BY <1>1, <1>2 DEF NodeFetchBoard, At, OtherStep, mediav

LEMMA RowsStep ==
    ASSUME ContentInv, ContentTypeOK', Rows, NEW a \in Actors, Acts(a)
    PROVE  Rows'
<1>0. /\ ContentTypeOK /\ \A r \in shorts : r.by \in Attempts
      /\ \A r \in shorts' : r.by \in Attempts
  BY DEF ContentInv, ContentTypeOK
<1>1. ASSUME NEW r \in shorts', 
             r \in shorts \/ (r.by = Attempt(a) /\ Doing(a, "video") /\ act[a].st # "free")
      PROVE  act'[r.by[1]].kind = "video" /\ act'[r.by[1]].st # "free"
  <2>1. r.by[1] \in Actors /\ act[r.by[1]].kind = "video" /\ act[r.by[1]].st # "free"
    BY <1>0, <1>1 DEF Rows, Attempts, Attempt, Doing
  <2> QED BY <1>0, <2>1, KindStays
<1>2. ASSUME NEW r \in shorts', r \notin shorts
      PROVE  r.by = Attempt(a) /\ Doing(a, "video") /\ act[a].st # "free"
  <2>1. CASE Handles(a)
    <3>1. MediaStep(a)
      BY <1>0, <1>2, <2>1, MediaCases DEF OtherStep
    <3>2. CASE CreateVideoRow(a) \/ SaveVideo(a)
      BY <1>2, <3>2 DEF CreateVideoRow, SaveVideo, At
    <3>3. CASE MarkVideoFailed(a)
      <4>1. PICK q \in OwnRow(a) : r = [q EXCEPT !.status = "failed"]
        BY <1>2, <3>3 DEF MarkVideoFailed
      <4>2. q \in [by : Attempts, status : {"running", "succeeded", "failed"}]
        BY <1>0, <4>1 DEF OwnRow, ContentTypeOK
      <4>3. r.by = q.by
        BY <4>1, <4>2
      <4> QED BY <4>1, <4>3, <3>3 DEF OwnRow, MarkVideoFailed, At
    <3> QED BY <1>2, <3>1, <3>2, <3>3 DEF MediaStep, AskImage, AskVideo, SaveImage, LogUsage
  <2>2. CASE ~Handles(a)
    BY <1>0, <1>2, <2>2, StartingActor, DeliveredActor, LeavingActor DEF Acts, mediav
  <2> QED BY <2>1, <2>2
<1>3. ASSUME NEW r \in shorts' PROVE act'[r.by[1]].kind = "video" /\ act'[r.by[1]].st # "free"
  BY <1>1, <1>2
<1> QED BY <1>3 DEF Rows

\* A row that comes to be doomed is of the actor that took the step.
LEMMA NewlyDoomed ==
    ASSUME ContentInv, ContentTypeOK', Rows, NEW a \in Actors, Acts(a),
           NEW r \in Doomed', r \notin Doomed
    PROVE  /\ r.status = "running" /\ ~Held(r)'
           /\ r \in shorts => /\ r = OwnRunning(a) /\ act[a].st = "running"
                              /\ pc[a] \in {"ask", "save", "mark"} /\ act[a].kind = "video"
<1>0. /\ ContentTypeOK /\ r \in shorts' /\ r.status = "running" /\ ~Held(r)'
      /\ r \in [by : Attempts, status : {"running", "succeeded", "failed"}]
  BY DEF ContentInv, ContentTypeOK, Doomed
<1>1. ASSUME r \in shorts
      PROVE  /\ r = OwnRunning(a) /\ act[a].st = "running"
             /\ pc[a] \in {"ask", "save", "mark"} /\ act[a].kind = "video"
  <2>1. PICK b \in Actors : /\ act[b].st = "running" /\ r.by = Attempt(b)
                            /\ pc[b] \in {"ask", "save", "mark"}
    BY <1>0, <1>1 DEF Doomed, Held
  <2>2. b = a
    BY <1>0, <2>1, OthersStay DEF Held, Attempt, Acts
  <2>3. act[a].kind = "video"
    BY <1>1, <2>1, <2>2 DEF Rows, Attempt
  <2> QED BY <1>0, <2>1, <2>2, <2>3 DEF OwnRunning
<1> QED BY <1>0, <1>1

LEMMA DoomedStep ==
    ASSUME ContentInv, ContentTypeOK', Rows, NEW a \in Actors, Acts(a)
    PROVE  /\ Doomed' \subseteq Doomed \cup {OwnRunning(a)}
           /\ faults' \in {faults, faults + 1}
           /\ faults' = faults => Doomed' \subseteq Doomed
<1>0. ContentTypeOK /\ faults \in Nat
  <2>1. ContentTypeOK /\ faults \in 0..MaxFaults
    BY DEF ContentInv, ContentTypeOK
  <2> QED BY <2>1, ContentAssumption
<1>1. CASE Starts(a)
  <2>1. UNCHANGED <<shorts, faults>> /\ act[a].st = "free"
    BY <1>0, <1>1, StartingActor DEF mediav
  <2>2. Doomed' \subseteq Doomed
    BY <2>1, NewlyDoomed DEF Doomed
  <2> QED BY <2>1, <2>2
<1>2. CASE Deliver(a)
  <2>1. UNCHANGED <<shorts, faults>> /\ act[a].st = "queued"
    BY <1>0, <1>2, DeliveredActor DEF mediav
  <2>2. Doomed' \subseteq Doomed
    BY <2>1, NewlyDoomed DEF Doomed
  <2> QED BY <2>1, <2>2
<1>3. CASE Finish(a)
  <2>1. UNCHANGED shorts /\ UNCHANGED faults /\ pc[a] \in {"ok", "err"}
    BY <1>0, <1>3, LeavingActor DEF Finish, mediav
  <2>2. Doomed' \subseteq Doomed
    BY <2>1, NewlyDoomed DEF Doomed
  <2> QED BY <2>1, <2>2
<1>4. CASE Crash(a)
  <2>1. UNCHANGED shorts /\ faults' = faults + 1
    BY <1>0, <1>4, LeavingActor DEF Crash, Breaks, mediav
  <2>2. Doomed' \subseteq Doomed \cup {OwnRunning(a)}
    BY <2>1, NewlyDoomed DEF Doomed
  <2> QED BY <1>0, <2>1, <2>2
<1>5. CASE Handles(a)
  <2>1. /\ act[a].st = "running" /\ act' = act /\ pc \in [Actors -> Places]
        /\ Attempt(a)' = Attempt(a)
    BY <1>0, <1>5, HandleMoves, TypesTogether DEF Moves, Attempt, ControlType
  <2>2. ASSUME NEW r, r = OwnRunning(a), pc'[a] \in {"ask", "save", "mark"}
        PROVE  Held(r)'
    BY <2>1, <2>2 DEF Held, OwnRunning
  <2>3. ASSUME NEW r \in shorts', r \notin shorts, r.status = "running"
        PROVE  r = OwnRunning(a) /\ pc'[a] = "ask"
    <3>1. MediaStep(a)
      BY <1>0, <1>5, <2>3, MediaCases DEF OtherStep
    <3>2. CASE CreateVideoRow(a)
      BY <2>1, <2>3, <3>2 DEF CreateVideoRow, OwnRunning, Goto
    <3>3. CASE SaveVideo(a)
      BY <2>3, <3>3 DEF SaveVideo
    <3>4. CASE MarkVideoFailed(a)
      <4>1. PICK q \in OwnRow(a) : r = [q EXCEPT !.status = "failed"]
        BY <2>3, <3>4 DEF MarkVideoFailed
      <4>2. q \in [by : Attempts, status : {"running", "succeeded", "failed"}]
        BY <1>0, <4>1 DEF OwnRow, ContentTypeOK
      <4> QED BY <2>3, <4>1, <4>2
    <3> QED BY <2>3, <3>1, <3>2, <3>3, <3>4 DEF MediaStep, AskImage, AskVideo, SaveImage, LogUsage
  <2>4. ASSUME NEW r \in Doomed', r \notin Doomed
        PROVE  /\ r = OwnRunning(a) /\ r \in shorts /\ act[a].kind = "video"
               /\ pc[a] \in {"ask", "save", "mark"} /\ pc'[a] \notin {"ask", "save", "mark"}
    <3>1. r \in shorts' /\ r.status = "running" /\ ~Held(r)'
      BY <2>4, NewlyDoomed DEF Doomed
    <3>2. r \in shorts
      BY <2>2, <2>3, <3>1
    <3>3. /\ r = OwnRunning(a) /\ act[a].kind = "video"
          /\ pc[a] \in {"ask", "save", "mark"}
      BY <2>4, <3>2, NewlyDoomed
    <3>4. pc'[a] \notin {"ask", "save", "mark"}
      BY <2>2, <3>1, <3>3
    <3> QED BY <3>2, <3>3, <3>4
  <2>5. Works \/ Breaks
    BY <1>5, HandleFaults
  <2>6. ASSUME Works, NEW r \in Doomed', r \notin Doomed PROVE FALSE
    <3>1. MediaStep(a)
      BY <1>0, <1>5, <2>4, <2>6, MediaCases DEF OtherStep
    <3>2. CASE SaveVideo(a)
      <4>1. r \in OwnRow(a)
        BY <2>4, <2>6 DEF OwnRow, OwnRunning
      <4>2. r \notin shorts'
        BY <1>0, <2>1, <2>4, <2>6, <3>2, <4>1 DEF SaveVideo, Works, Breaks, OwnRunning
      <4> QED BY <2>6, <4>2 DEF Doomed
    <3>3. CASE MarkVideoFailed(a)
      <4>1. r \in OwnRow(a) /\ r.status = "running"
        BY <2>4, <2>6 DEF OwnRow, OwnRunning
      <4>2. r \notin shorts'
        <5>1. \A q \in OwnRow(a) : [q EXCEPT !.status = "failed"].status = "failed"
          <6>1. \A q \in OwnRow(a) : q \in [by : Attempts, status : {"running", "succeeded", "failed"}]
            BY <1>0 DEF OwnRow, ContentTypeOK
          <6> QED BY <6>1
        <5>2. r \notin {[q EXCEPT !.status = "failed"] : q \in OwnRow(a)}
          BY <4>1, <5>1
        <5>3. shorts' = (shorts \ OwnRow(a)) \cup {[q EXCEPT !.status = "failed"] : q \in OwnRow(a)}
          BY <1>0, <2>6, <3>3 DEF MarkVideoFailed, Works, Breaks
        <5> QED BY <4>1, <5>2, <5>3
      <4> QED BY <2>6, <4>2 DEF Doomed
    <3>4. CASE CreateVideoRow(a) \/ LogUsage(a)
      BY <2>1, <2>4, <2>6, <3>4 DEF CreateVideoRow, LogUsage, At
    <3>5. CASE AskImage(a) \/ SaveImage(a)
      BY <2>4, <2>6, <3>5 DEF AskImage, SaveImage, Doing
    <3>6. CASE AskVideo(a)
      BY <2>1, <2>4, <2>6, <3>6 DEF AskVideo, Goto
    <3> QED BY <3>1, <3>2, <3>3, <3>4, <3>5, <3>6 DEF MediaStep
  <2> QED BY <1>0, <2>4, <2>5, <2>6 DEF Works, Breaks
<1> QED BY <1>1, <1>2, <1>3, <1>4, <1>5 DEF Acts

LEMMA VidStep ==
    ASSUME ContentInv, VidInv, [ContentNext]_contentVars
    PROVE  VidInv'
<1>1. ContentTypeOK' /\ faults \in Nat
  BY ContentTypeStep, ContentAssumption DEF ContentInv, ContentTypeOK
<1>2. CASE Request
  <2>1. UNCHANGED <<act, pc, shorts, faults>>
    BY <1>2, RequestKeeps
  <2>2. Doomed' = Doomed
    BY <2>1 DEF Doomed, Held, Attempt
  <2> QED BY <2>1, <2>2 DEF VidInv, Rows
<1>3. ASSUME NEW a \in Actors, Acts(a) PROVE VidInv'
  <2>1. Rows'
    BY <1>1, <1>3, RowsStep DEF VidInv
  <2>2. /\ Doomed' \subseteq Doomed \cup {OwnRunning(a)}
        /\ faults' \in {faults, faults + 1}
        /\ faults' = faults => Doomed' \subseteq Doomed
    BY <1>1, <1>3, DoomedStep DEF VidInv
  <2>3. IsFiniteSet(Doomed') /\ Cardinality(Doomed') <= faults'
    BY <1>1, <2>2, OneMore DEF VidInv
  <2> QED BY <2>1, <2>3 DEF VidInv
<1> QED BY <1>2, <1>3, StepCases

\* A short video that says "running" has a handler at work on it, or a crash or
\* a failed statement to blame.
THEOREM NoVideoStaysRunning == ContentSpec => []NoVideoIsForgotten
<1>1. ContentInit => VidInv
  <2> SUFFICES ASSUME ContentInit PROVE VidInv
    OBVIOUS
  <2>1. Doomed = {} /\ Rows /\ faults = 0
    BY DEF ContentInit, Doomed, Rows
  <2> QED BY <2>1, FS_EmptySet DEF VidInv
<1>2. ContentInv /\ VidInv => NoVideoIsForgotten
  <2> SUFFICES ASSUME ContentInv, VidInv PROVE NoVideoIsForgotten
    OBVIOUS
  <2>1. StrayVideos \subseteq Doomed
    BY DEF StrayVideos, Doomed, Held, Working
  <2>2. faults \in Nat
    BY ContentAssumption DEF ContentInv, ContentTypeOK
  <2>3. Cardinality(StrayVideos) <= Cardinality(Doomed) /\ IsFiniteSet(StrayVideos)
    BY <2>1, FS_Subset DEF VidInv
  <2>4. Cardinality(Doomed) \in Nat /\ Cardinality(StrayVideos) \in Nat
    BY <2>3, FS_CardinalityType DEF VidInv
  <2> QED BY <2>2, <2>3, <2>4 DEF VidInv, NoVideoIsForgotten
<1>3. ContentInv /\ VidInv /\ [ContentNext]_contentVars => ContentInv' /\ VidInv'
  BY ContentTypeStep, VersionsStep, VidStep DEF ContentInv
<1> QED BY ContentInitially, <1>1, <1>2, <1>3, PTL DEF ContentSpec

-----------------------------------------------------------------------------
\* An asset that is not on record is of the attempt that will still write it down.
Recording(b) == \E a \in Actors : /\ act[a].st = "running" /\ b = Attempt(a)
                                  /\ pc[a] \in {"save", "log"}
OnRecord(b) == [by |-> b, status |-> "succeeded"] \in logs
Lost == {b \in calls : ~OnRecord(b) /\ ~Recording(b)}
Asked == \A b \in calls : /\ act[b[1]].kind \in {"image", "video"} /\ act[b[1]].mode = "task"
                          /\ act[b[1]].st # "free"
UseInv == Asked /\ IsFiniteSet(Lost) /\ Cardinality(Lost) <= faults

LEMMA LogsStay ==
    ASSUME ContentTypeOK, NEW a \in Actors, Acts(a)
    PROVE  logs \subseteq logs'
<1>1. CASE Handles(a)
  BY <1>1, MediaCases DEF OtherStep, MediaStep, CreateVideoRow, AskImage, AskVideo, SaveImage,
     SaveVideo,
     MarkVideoFailed, LogUsage, WriteLog
<1>2. CASE ~Handles(a)
  BY <1>2, StartingActor, DeliveredActor, LeavingActor DEF Acts, mediav
<1> QED BY <1>1, <1>2

\* Only the answer of a model adds to what has to be paid.
LEMMA NewCall ==
    ASSUME ContentTypeOK, NEW a \in Actors, Acts(a), NEW b \in calls', b \notin calls
    PROVE  /\ b = Attempt(a) /\ act[a].kind \in {"image", "video"} /\ act[a].mode = "task"
           /\ act[a].st = "running" /\ Handles(a) /\ pc' = [pc EXCEPT ![a] = "save"]
           /\ UNCHANGED faults
<1>1. CASE Handles(a)
  <2>1. MediaStep(a)
    BY <1>1, MediaCases DEF OtherStep
  <2>2. AskImage(a) \/ AskVideo(a)
    BY <2>1 DEF MediaStep, CreateVideoRow, SaveImage, SaveVideo, MarkVideoFailed, LogUsage
  <2> QED BY <1>1, <2>2 DEF AskImage, AskVideo, IsTask, Doing, At, Goto
<1>2. CASE ~Handles(a)
  BY <1>2, StartingActor, DeliveredActor, LeavingActor DEF Acts, mediav
<1> QED BY <1>1, <1>2

LEMMA AskedStep ==
    ASSUME ContentInv, ContentTypeOK', Asked, NEW a \in Actors, Acts(a)
    PROVE  Asked'
<1>0. ContentTypeOK /\ (\A b \in calls' : b \in Attempts)
  BY DEF ContentInv, ContentTypeOK
<1>1. ASSUME NEW b \in calls'
      PROVE  /\ act'[b[1]].kind \in {"image", "video"} /\ act'[b[1]].mode = "task"
             /\ act'[b[1]].st # "free"
  <2>1. b[1] \in Actors
    BY <1>0, <1>1 DEF Attempts
  <2>2. CASE b \in calls
    BY <1>0, <2>1, <2>2, KindStays DEF Asked
  <2>3. CASE b \notin calls
    <3>1. /\ b[1] = a /\ act[a].kind \in {"image", "video"} /\ act[a].mode = "task"
          /\ act[a].st # "free"
      BY <1>0, <1>1, <2>3, NewCall DEF Attempt
    <3> QED BY <1>0, <3>1, KindStays
  <2> QED BY <2>2, <2>3
<1> QED BY <1>1 DEF Asked

LEMMA NewlyLost ==
    ASSUME ContentInv, ContentTypeOK', Asked, NEW a \in Actors, Acts(a),
           NEW b \in Lost', b \notin Lost
    PROVE  /\ b \in calls /\ ~Recording(b)' /\ b = Attempt(a) /\ act[a].st = "running"
           /\ ~OnRecord(b)'
           /\ pc[a] \in {"save", "log"} /\ act[a].kind \in {"image", "video"} /\ act[a].mode = "task"
<1>0. ContentTypeOK /\ b \in calls' /\ ~OnRecord(b)' /\ ~Recording(b)'
  BY DEF ContentInv, Lost
<1>1. b \in calls
  <2> SUFFICES ASSUME b \notin calls PROVE FALSE
    OBVIOUS
  <2>1. /\ b = Attempt(a) /\ act[a].st = "running" /\ Handles(a) /\ pc' = [pc EXCEPT ![a] = "save"]
    BY <1>0, NewCall
  <2>2. act' = act /\ pc'[a] = "save"
    BY <1>0, <2>1, HandleMoves, TypesTogether DEF Moves, ControlType
  <2>3. Recording(b)'
    BY <2>1, <2>2 DEF Recording, Attempt
  <2> QED BY <1>0, <2>3
<1>2. ~OnRecord(b)
  BY <1>0, LogsStay DEF OnRecord
<1>3. PICK c \in Actors : act[c].st = "running" /\ b = Attempt(c) /\ pc[c] \in {"save", "log"}
  BY <1>1, <1>2 DEF Lost, Recording
<1>4. c = a
  BY <1>0, <1>3, OthersStay DEF Recording, Attempt, Acts
<1>5. act[a].kind \in {"image", "video"} /\ act[a].mode = "task"
  BY <1>1, <1>3, <1>4 DEF Asked, Attempt
<1> QED BY <1>0, <1>1, <1>3, <1>4, <1>5

LEMMA LostStep ==
    ASSUME ContentInv, ContentTypeOK', Asked, NEW a \in Actors, Acts(a)
    PROVE  /\ Lost' \subseteq Lost \cup {Attempt(a)}
           /\ faults' \in {faults, faults + 1}
           /\ faults' = faults => Lost' \subseteq Lost
<1>0. ContentTypeOK /\ faults \in Nat
  <2>1. ContentTypeOK /\ faults \in 0..MaxFaults
    BY DEF ContentInv, ContentTypeOK
  <2> QED BY <2>1, ContentAssumption
<1>1. Lost' \subseteq Lost \cup {Attempt(a)}
  BY NewlyLost
<1>2. CASE Starts(a) \/ Deliver(a)
  <2>1. UNCHANGED faults /\ act[a].st # "running"
    BY <1>0, <1>2, StartingActor, DeliveredActor
  <2> QED BY <1>1, <2>1, NewlyLost
<1>3. CASE Finish(a)
  <2>1. UNCHANGED faults /\ pc[a] \in {"ok", "err"}
    BY <1>0, <1>3, LeavingActor DEF Finish
  <2> QED BY <1>1, <2>1, NewlyLost
<1>4. CASE Crash(a)
  BY <1>0, <1>1, <1>4 DEF Crash, Breaks
<1>5. CASE Handles(a)
  <2>1. /\ act' = act /\ pc \in [Actors -> Places]
    BY <1>0, <1>5, HandleMoves, TypesTogether DEF Moves, ControlType
  <2>2. Works \/ Breaks
    BY <1>5, HandleFaults
  <2>3. ASSUME Works, NEW b \in Lost', b \notin Lost PROVE FALSE
    <3>1. /\ b = Attempt(a) /\ act[a].st = "running" /\ pc[a] \in {"save", "log"}
          /\ act[a].kind \in {"image", "video"} /\ IsTask(a) /\ ~Recording(b)' /\ ~OnRecord(b)'
      BY <2>3, NewlyLost DEF IsTask
    <3>2. MediaStep(a)
      BY <1>0, <1>5, <3>1, MediaCases DEF OtherStep
    <3>3. pc'[a] # "log"
      BY <2>1, <3>1 DEF Recording, Attempt
    <3>4. CASE SaveImage(a) \/ SaveVideo(a)
      BY <1>0, <2>1, <2>3, <3>1, <3>3, <3>4 DEF SaveImage, SaveVideo, Works, Breaks, Goto
    <3>5. CASE LogUsage(a)
      <4>1. At(a, "log") /\ WriteLog(a, "succeeded")
        BY <3>1, <3>5 DEF LogUsage, At
      <4>2. [by |-> b, status |-> "succeeded"] \in logs'
        BY <1>0, <2>3, <3>1, <4>1 DEF WriteLog, Works, Breaks
      <4> QED BY <3>1, <4>2 DEF OnRecord
    <3>6. CASE CreateVideoRow(a) \/ AskImage(a) \/ AskVideo(a) \/ MarkVideoFailed(a)
      BY <3>1, <3>6 DEF CreateVideoRow, AskImage, AskVideo, MarkVideoFailed, At
    <3> QED BY <3>2, <3>4, <3>5, <3>6 DEF MediaStep
  <2> QED BY <1>0, <1>1, <2>2, <2>3 DEF Works, Breaks
<1> QED BY <1>2, <1>3, <1>4, <1>5 DEF Acts

LEMMA UseStep ==
    ASSUME ContentInv, UseInv, [ContentNext]_contentVars
    PROVE  UseInv'
<1>1. ContentTypeOK' /\ faults \in Nat
  <2>1. ContentTypeOK' /\ faults \in 0..MaxFaults
    BY ContentTypeStep DEF ContentInv, ContentTypeOK
  <2> QED BY <2>1, ContentAssumption
<1>2. CASE Request
  <2>1. UNCHANGED <<act, pc, logs, calls, faults>>
    BY <1>2, RequestKeeps
  <2>2. Lost' = Lost
    BY <2>1 DEF Lost, Recording, OnRecord, Attempt
  <2> QED BY <2>1, <2>2 DEF UseInv, Asked
<1>3. ASSUME NEW a \in Actors, Acts(a) PROVE UseInv'
  <2>1. Asked'
    BY <1>1, <1>3, AskedStep DEF UseInv
  <2>2. /\ Lost' \subseteq Lost \cup {Attempt(a)}
        /\ faults' \in {faults, faults + 1}
        /\ faults' = faults => Lost' \subseteq Lost
    BY <1>1, <1>3, LostStep DEF UseInv
  <2>3. IsFiniteSet(Lost') /\ Cardinality(Lost') <= faults'
    BY <1>1, <2>2, OneMore DEF UseInv
  <2> QED BY <2>1, <2>3 DEF UseInv
<1> QED BY <1>2, <1>3, StepCases

\* Every asset a task got from a media model is on record in model_invocations,
\* is about to be, or was lost to a crash or a failed statement.
THEOREM UsageIsOnRecord == ContentSpec => []UsageIsRecorded
<1>1. ContentInit => UseInv
  <2> SUFFICES ASSUME ContentInit PROVE UseInv
    OBVIOUS
  <2>1. Lost = {} /\ Asked /\ faults = 0
    BY DEF ContentInit, Lost, Asked
  <2> QED BY <2>1, FS_EmptySet DEF UseInv
<1>2. ContentInv /\ UseInv => UsageIsRecorded
  <2> SUFFICES ASSUME ContentInv, UseInv PROVE UsageIsRecorded
    OBVIOUS
  <2>1. Unrecorded \subseteq Lost
    BY DEF Unrecorded, Lost, Recording, OnRecord, Working
  <2>2. faults \in Nat
    BY ContentAssumption DEF ContentInv, ContentTypeOK
  <2>3. Cardinality(Unrecorded) <= Cardinality(Lost) /\ IsFiniteSet(Unrecorded)
    BY <2>1, FS_Subset DEF UseInv
  <2>4. Cardinality(Lost) \in Nat /\ Cardinality(Unrecorded) \in Nat
    BY <2>3, FS_CardinalityType DEF UseInv
  <2> QED BY <2>2, <2>3, <2>4 DEF UseInv, UsageIsRecorded
<1>3. ContentInv /\ UseInv /\ [ContentNext]_contentVars => ContentInv' /\ UseInv'
  BY ContentTypeStep, VersionsStep, UseStep DEF ContentInv
<1> QED BY ContentInitially, <1>1, <1>2, <1>3, PTL DEF ContentSpec

-----------------------------------------------------------------------------
\* What a handler changes of its memory and of the prompts.
LEMMA MemoryCases ==
    ASSUME ContentTypeOK, NEW a \in Actors, Handles(a)
    PROVE  \/ /\ UNCHANGED <<mem, prompts>>
              /\ Doing(a, "story") /\ IsTask(a) => pc'[a] # "save"
           \/ AskSplit(a) \/ AskPrompt(a) \/ ReadVersion(a) \/ FetchPrompt(a) \/ CreateAsCurrent(a)
<1>1. pc \in [Actors -> Places]
  BY TypesTogether DEF ControlType
<1>2. CASE BulkSave(a) \/ NodeDeleteBoards(a) \/ NodeCreateBoards(a)
  BY <1>1, <1>2 DEF BulkSave, NodeDeleteBoards, NodeCreateBoards, promptv, Goto
<1>3. CASE MediaStep(a) \/ NodeFetchBoard(a)
  BY <1>1, <1>3 DEF Media, Doing, MediaStep, NodeFetchBoard, CreateVideoRow, AskImage, AskVideo,
     SaveImage,
                    SaveVideo, MarkVideoFailed, LogUsage, promptv
<1>4. CASE FetchScript(a) \/ DeleteEpisodes(a) \/ CreateEpisodes(a) \/ MarkSplit(a) \/ MarkFailed(a)
  BY <1>1, <1>4 DEF Doing, FetchScript, DeleteEpisodes, CreateEpisodes, MarkSplit, MarkFailed,
     SetStatus, promptv
<1>5. CASE FetchEpisode(a)
  BY <1>1, <1>5 DEF FetchEpisode, Doing, promptv
<1> QED BY <1>2, <1>3, <1>4, <1>5 DEF Handles, MediaStep

\* Prompt versions are only added, at the end.
LEMMA PromptsGrow ==
    ASSUME ContentInv, [ContentNext]_contentVars
    PROVE  /\ DOMAIN prompts \subseteq DOMAIN prompts'
           /\ \A i \in DOMAIN prompts : prompts'[i] = prompts[i]
           /\ \A i \in DOMAIN prompts' \ DOMAIN prompts :
                 \E a \in Actors : prompts'[i].shots = mem[a].shots
<1>0. ContentTypeOK /\ prompts \in Seq(Prompts)
  BY DEF ContentInv, ContentTypeOK, Prompts
<1> DEFINE Grow == /\ DOMAIN prompts \subseteq DOMAIN prompts'
                   /\ \A i \in DOMAIN prompts : prompts'[i] = prompts[i]
                   /\ \A i \in DOMAIN prompts' \ DOMAIN prompts :
                         \E a \in Actors : prompts'[i].shots = mem[a].shots
<1>1. CASE UNCHANGED prompts
  BY <1>1
<1>2. ASSUME NEW a \in Actors, CreateAsCurrent(a) PROVE Grow
  <2>1. CASE prompts' = Append(prompts, [ver |-> mem[a].ver, shots |-> mem[a].shots])
    <3>1. /\ DOMAIN prompts = 1..Len(prompts) /\ DOMAIN prompts' = 1..(Len(prompts) + 1)
          /\ Len(prompts) \in Nat
          /\ \A i \in 1..Len(prompts) : prompts'[i] = prompts[i]
          /\ prompts'[Len(prompts) + 1].shots = mem[a].shots
      BY <1>0, <2>1
    <3> QED BY <3>1
  <2> QED BY <1>1, <1>2, <2>1 DEF CreateAsCurrent
<1>3. CASE Request
  BY <1>1, <1>3, RequestKeeps
<1>4. ASSUME NEW a \in Actors, Starts(a) \/ Deliver(a) \/ Finish(a) \/ Crash(a) PROVE Grow
  BY <1>0, <1>1, <1>4, StartingActor, DeliveredActor, LeavingActor DEF promptv
<1>5. ASSUME NEW a \in Actors, Handles(a) PROVE Grow
  BY <1>0, <1>1, <1>2, <1>5, MemoryCases DEF AskSplit, AskPrompt, ReadVersion, FetchPrompt, promptv
<1> QED BY <1>3, <1>4, <1>5, StepCases DEF Acts

FiniteShots == /\ \A i \in DOMAIN prompts : IsFiniteSet(prompts[i].shots)
               /\ \A a \in Actors : IsFiniteSet(mem[a].shots)

LEMMA FiniteStep ==
    ASSUME ContentInv, ContentTypeOK', FiniteShots, [ContentNext]_contentVars
    PROVE  FiniteShots'
<1>0. ContentTypeOK /\ mem \in [Actors -> Memories]
  BY TypesTogether DEF ContentInv, MemoryType
<1>1. ASSUME NEW i \in DOMAIN prompts' PROVE IsFiniteSet(prompts'[i].shots)
  BY <1>1, PromptsGrow DEF FiniteShots
<1>2. ASSUME NEW a \in Actors, Acts(a), IsFiniteSet(mem'[a].shots), NEW b \in Actors
      PROVE  IsFiniteSet(mem'[b].shots)
  BY <1>0, <1>2, OthersStay DEF FiniteShots, Acts
<1>3. ASSUME NEW a \in Actors, Acts(a) PROVE IsFiniteSet(mem'[a].shots)
  <2>1. CASE UNCHANGED mem
    BY <2>1 DEF FiniteShots
  <2>2. CASE mem'[a] = Forgotten
    BY <2>2, FS_EmptySet DEF Forgotten
  <2>3. CASE AskSplit(a) \/ ReadVersion(a)
    BY <1>0, <2>3 DEF AskSplit, ReadVersion, FiniteShots, Memories
  <2>4. CASE AskPrompt(a)
    BY <1>0, <2>4, ContentAssumption DEF AskPrompt, FiniteShots, Memories
  <2>5. CASE FetchPrompt(a)
    BY <1>0, <2>5, FirstIsAPrompt DEF FetchPrompt, FiniteShots, Memories
  <2>6. CASE CreateAsCurrent(a)
    BY <2>1, <2>6 DEF CreateAsCurrent
  <2> QED BY <1>0, <1>3, <2>1, <2>2, <2>3, <2>4, <2>5, <2>6, MemoryCases,
             StartingActor, DeliveredActor, LeavingActor DEF Acts
<1>4. CASE Request
  <2>1. UNCHANGED mem
    BY <1>4, RequestKeeps
  <2> QED BY <1>1, <2>1 DEF FiniteShots
<1>5. ASSUME NEW a \in Actors, Acts(a) PROVE FiniteShots'
  BY <1>1, <1>2, <1>3, <1>5 DEF FiniteShots
<1> QED BY <1>4, <1>5, StepCases

\* A storyboard task that is about to write remembers a prompt and its shots.
StoryMem == \A a \in Actors : Doing(a, "story") /\ IsTask(a) /\ At(a, "save") =>
                /\ mem[a].ver \in DOMAIN prompts
                /\ mem[a].shots = prompts[mem[a].ver].shots
                /\ mem[a].shots # {}

LEMMA StoryMemStep ==
    ASSUME ContentInv, ContentTypeOK', StoryMem, [ContentNext]_contentVars
    PROVE  StoryMem'
<1>0. ContentTypeOK /\ mem \in [Actors -> Memories]
  BY TypesTogether DEF ContentInv, MemoryType
<1>1. ASSUME NEW a \in Actors, act'[a].kind = "story" /\ act'[a].mode = "task" /\ act'[a].st = "running",
             pc'[a] = "save", act'[a] = act[a], pc'[a] = pc[a], mem'[a] = mem[a]
      PROVE  /\ mem'[a].ver \in DOMAIN prompts'
             /\ mem'[a].shots = prompts'[mem'[a].ver].shots /\ mem'[a].shots # {}
  BY <1>1, PromptsGrow DEF StoryMem, Doing, IsTask, At
<1>2. CASE Request
  BY <1>1, <1>2, RequestKeeps DEF StoryMem, Doing, IsTask, At
<1>3. ASSUME NEW a \in Actors, Acts(a), act'[a].kind = "story" /\ act'[a].mode = "task" /\ act'[a].st = "running",
             pc'[a] = "save"
      PROVE  /\ mem'[a].ver \in DOMAIN prompts'
             /\ mem'[a].shots = prompts'[mem'[a].ver].shots /\ mem'[a].shots # {}
  <2>1. Handles(a)
    BY <1>0, <1>3, StartingActor, DeliveredActor, LeavingActor DEF Acts, FirstStep
  <2>2. act' = act /\ Doing(a, "story") /\ IsTask(a)
    BY <1>3, <2>1, HandleMoves DEF Moves, Doing, IsTask
  <2>3. FetchPrompt(a)
    BY <1>0, <1>3, <2>1, <2>2, MemoryCases DEF Doing, AskSplit, AskPrompt, ReadVersion,
       CreateAsCurrent
  <2>4. pc \in [Actors -> Places]
    BY <1>0, TypesTogether DEF ControlType
  <2>5. /\ HasShots /\ UNCHANGED prompts
        /\ mem' = [mem EXCEPT ![a].ver = FirstCurrent, ![a].shots = prompts[FirstCurrent].shots]
    BY <1>3, <2>3, <2>4 DEF FetchPrompt, Goto, promptv
  <2>6. mem'[a].ver = FirstCurrent /\ mem'[a].shots = prompts[FirstCurrent].shots
    BY <1>0, <2>5 DEF Memories
  <2> QED BY <1>0, <2>5, <2>6, FirstIsAPrompt
<1>4. ASSUME NEW a \in Actors, Acts(a) PROVE StoryMem'
  <2>1. ASSUME NEW b \in Actors, act'[b].kind = "story" /\ act'[b].mode = "task" /\ act'[b].st = "running",
               pc'[b] = "save"
        PROVE  /\ mem'[b].ver \in DOMAIN prompts'
               /\ mem'[b].shots = prompts'[mem'[b].ver].shots /\ mem'[b].shots # {}
    <3>1. CASE b = a
      BY <1>3, <1>4, <2>1, <3>1
    <3>2. CASE b # a
      <4>1. act'[b] = act[b] /\ pc'[b] = pc[b] /\ mem'[b] = mem[b]
        BY <1>0, <1>4, <3>2, OthersStay DEF Acts
      <4> QED BY <1>1, <2>1, <4>1
    <3> QED BY <3>1, <3>2
  <2> QED BY <2>1 DEF StoryMem, Doing, IsTask, At
<1> QED BY <1>2, <1>4, StepCases

\* No node rewrites the storyboard: then its live rows are one prompt's shots.
NoStoryNode == \A a \in Actors : Doing(a, "story") /\ ~IsTask(a) => act[a].st = "free"
WholeAt(i) == /\ \A b \in LiveBoards : b.prompt = i
              /\ LiveBoards # {}
              /\ {b.shot : b \in LiveBoards} = prompts[i].shots
              /\ Cardinality(LiveBoards) = Cardinality(prompts[i].shots)
Whole == boards = {} \/ \E i \in DOMAIN prompts : WholeAt(i)

LEMMA SavedIsWhole ==
    ASSUME ContentTypeOK, ContentTypeOK', FiniteShots, StoryMem, NEW a \in Actors,
           Doing(a, "story"), IsTask(a), At(a, "save"), UNCHANGED prompts,
           boards' = Buried(boards) \cup NewBoards(a)
    PROVE  Whole'
<1>1. /\ mem[a].ver \in DOMAIN prompts /\ mem[a].shots = prompts[mem[a].ver].shots
      /\ mem[a].shots # {} /\ IsFiniteSet(mem[a].shots)
  BY DEF StoryMem, FiniteShots
<1> DEFINE Row(n) == [shot |-> n, prompt |-> mem[a].ver, by |-> Attempt(a), live |-> TRUE]
           S == mem[a].shots
           f == [n \in S |-> Row(n)]
<1>2. LiveBoards' = {Row(n) : n \in S}
  <2>1. NewBoards(a) = {Row(n) : n \in S}
    BY DEF NewBoards
  <2>2. \A b \in Buried(boards) : ~b.live
    BY BuriedType
  <2>3. \A n \in S : Row(n).live
    OBVIOUS
  <2> QED BY <2>1, <2>2, <2>3 DEF LiveBoards
<1>3. f \in Bijection(S, {Row(n) : n \in S})
  <2>1. \A m, n \in S : Row(m) = Row(n) => m = n
    <3> SUFFICES ASSUME NEW m \in S, NEW n \in S, Row(m) = Row(n) PROVE m = n
      OBVIOUS
    <3>1. Row(m).shot = m /\ Row(n).shot = n
      OBVIOUS
    <3> QED BY <3>1
  <2> HIDE DEF Row
  <2> QED BY <2>1, Fun_IsBij
<1>4. Cardinality(LiveBoards') = Cardinality(S)
  BY <1>1, <1>2, <1>3, FS_Bijection DEF ExistsBijection
<1>5. \A n \in S : Row(n).shot = n /\ Row(n).prompt = mem[a].ver
  OBVIOUS
<1> HIDE DEF Row
<1>6. {b.shot : b \in LiveBoards'} = S /\ LiveBoards' # {} /\ \A b \in LiveBoards' : b.prompt = mem[a].ver
  BY <1>1, <1>2, <1>5
<1>7. mem[a].ver \in DOMAIN prompts' /\ prompts'[mem[a].ver].shots = S
  BY <1>1
<1>8. \E i \in DOMAIN prompts' : /\ \A b \in LiveBoards' : b.prompt = i
              /\ LiveBoards' # {}
              /\ {b.shot : b \in LiveBoards'} = prompts'[i].shots
              /\ Cardinality(LiveBoards') = Cardinality(prompts'[i].shots)
  BY <1>4, <1>6, <1>7
<1> QED BY <1>8 DEF Whole, WholeAt

LEMMA WholeStep ==
    ASSUME ContentInv, ContentTypeOK', FiniteShots, StoryMem, [ContentNext]_contentVars,
           NoStoryNode => Whole, NoStoryNode'
    PROVE  Whole'
<1>0. ContentTypeOK
  BY DEF ContentInv
<1>1. NoStoryNode
  <2>1. CASE Request
    BY <2>1, RequestKeeps DEF NoStoryNode, Doing, IsTask
  <2>2. ASSUME NEW a \in Actors, Acts(a), NEW b \in Actors, act[b].kind = "story", act[b].mode # "task"
        PROVE  act[b].st = "free"
    <3> SUFFICES ASSUME act[b].st # "free" PROVE FALSE
      OBVIOUS
    <3>1. act'[b].kind = "story" /\ act'[b].mode # "task" /\ act'[b].st # "free"
      BY <1>0, <2>2, KindStays
    <3> QED BY <3>1 DEF NoStoryNode, Doing, IsTask
  <2> QED BY <2>1, <2>2, StepCases DEF NoStoryNode, Doing, IsTask
<1>2. CASE UNCHANGED boards
  <2>1. CASE boards = {}
    BY <1>2, <2>1 DEF Whole
  <2>2. ASSUME NEW i \in DOMAIN prompts, WholeAt(i) PROVE Whole'
    <3>1. i \in DOMAIN prompts' /\ prompts'[i] = prompts[i]
      BY PromptsGrow
    <3>2. WholeAt(i)'
      BY <1>2, <2>2, <3>1 DEF WholeAt, LiveBoards
    <3> QED BY <3>1, <3>2 DEF Whole
  <2> QED BY <1>1, <2>1, <2>2 DEF Whole
<1>3. ASSUME NEW a \in Actors, Handles(a) PROVE Whole'
  <2>1. CASE IsTask(a) /\ BulkSave(a)
    BY <1>0, <1>2, <2>1, SavedIsWhole DEF BulkSave, promptv
  <2>2. CASE ~IsTask(a) /\ (NodeDeleteBoards(a) \/ NodeCreateBoards(a))
    BY <1>1, <2>2 DEF NodeDeleteBoards, NodeCreateBoards, NoStoryNode, At
  <2>3. CASE UNCHANGED boards
    BY <1>2, <2>3
  <2> QED BY <1>3, <2>1, <2>2, <2>3 DEF Handles, FetchScript, AskSplit, DeleteEpisodes,
             CreateEpisodes,
       MarkSplit, MarkFailed, SetStatus, FetchEpisode, AskPrompt, ReadVersion, CreateAsCurrent,
       FetchPrompt, NodeFetchBoard, CreateVideoRow,
       AskImage, AskVideo, SaveImage, SaveVideo, MarkVideoFailed, LogUsage
<1>4. CASE Request
  BY <1>2, <1>4, RequestKeeps
<1>5. ASSUME NEW a \in Actors, Starts(a) \/ Deliver(a) \/ Finish(a) \/ Crash(a) PROVE UNCHANGED boards
  BY <1>0, <1>5, StartingActor, DeliveredActor, LeavingActor
<1> QED BY <1>2, <1>3, <1>4, <1>5, StepCases DEF Acts

StoryInv == FiniteShots /\ StoryMem /\ (NoStoryNode => Whole)

\* BulkSave is transactional "so that an interruption between Delete and
\* BulkCreate loses no data": while no node rewrites the storyboard, its live
\* rows are the shots of one prompt, all of them.
THEOREM StoryboardsAreWhole == ContentSpec => []StoryboardIsWhole
<1>1. ContentInit => StoryInv
  <2> SUFFICES ASSUME ContentInit PROVE StoryInv
    OBVIOUS
  <2>1. \A a \in Actors : mem[a].shots = {} /\ act[a].st = "free"
    BY DEF ContentInit, Forgotten, Idle
  <2>2. \A i \in DOMAIN prompts : IsFiniteSet(prompts[i].shots)
    <3>1. CASE prompts = <<>>
      BY <3>1
    <3>2. CASE prompts = <<[ver |-> 1, shots |-> {1}]>>
      <4>1. DOMAIN prompts = {1} /\ prompts[1].shots = {1}
        BY <3>2
      <4> QED BY <4>1, FS_Singleton
    <3> QED BY <3>1, <3>2 DEF ContentInit
  <2>3. boards = {}
    BY DEF ContentInit
  <2> QED BY <2>1, <2>2, <2>3, FS_EmptySet DEF StoryInv, FiniteShots, StoryMem, Whole, At
<1>2. StoryInv => StoryboardIsWhole
  BY DEF StoryInv, NoStoryNode, Whole, WholeAt, StoryboardIsWhole
<1>3. ContentInv /\ StoryInv /\ [ContentNext]_contentVars => ContentInv' /\ StoryInv'
  BY ContentTypeStep, VersionsStep, FiniteStep, StoryMemStep, WholeStep DEF ContentInv, StoryInv
<1> QED BY ContentInitially, <1>1, <1>2, <1>3, PTL DEF ContentSpec

-----------------------------------------------------------------------------
\* What the one split at work has reached: what it remembers of the answer, and
\* what of it is in the tables.
Answered == \E list \in EpisodeLists :
               /\ Cardinality(LiveEpisodes) = Len(list)
               /\ {e.no : e \in LiveEpisodes} = {Numbered(list)[i] : i \in DOMAIN list}
Remembers(a) == \E list \in EpisodeLists : mem[a].eps = Numbered(list)
Reached(a) ==
    /\ At(a, "delete") => Remembers(a)
    /\ At(a, "create") => Remembers(a) /\ LiveEpisodes = {}
    /\ At(a, "status") => Answered
    /\ At(a, "ok") \/ act[a].st = "done" => script = SplitOK /\ Answered
    /\ At(a, "err") \/ act[a].st = "failed" => script = Failed
Certain == removal = "none" /\ ~unmarked
SplitInv == \A a \in Actors : LoneSplit(a) /\ Certain => Reached(a)

\* A step that leaves a split the only one, and certain, found it so, unless it
\* is the call that enqueues it.
LEMMA StillLone ==
    ASSUME ContentInv, [ContentNext]_contentVars, NEW a \in Actors, LoneSplit(a)', Certain',
           ~Starts(a)
    PROVE  LoneSplit(a) /\ Certain
<1>0. ContentTypeOK
  BY DEF ContentInv
<1>1. CASE Request
  <2>1. UNCHANGED <<act, unmarked>>
    BY <1>1, RequestKeeps
  <2>2. removal = "none"
    BY <1>1 DEF Certain, Request, DeleteScriptEpisodes, DeleteScript, SetCurrent, contentVars
  <2> QED BY <2>1, <2>2 DEF LoneSplit, Certain, Doing, IsTask
<1>2. ASSUME NEW c \in Actors, Acts(c) PROVE LoneSplit(a) /\ Certain
  <2>1. Certain
    <3>1. CASE Starts(c) \/ Deliver(c) \/ Finish(c)
      BY <1>0, <3>1, StartingActor, DeliveredActor, LeavingActor DEF Certain, splitv, Finish
    <3>2. CASE Crash(c)
      BY <1>0, <3>2, LeavingActor DEF Certain, Crash
    <3>3. CASE Handles(c)
      <4>1. UNCHANGED removal
        BY <3>3, HandleMoves
      <4>2. unmarked => unmarked'
        BY <3>3 DEF Handles, FetchScript, AskSplit, DeleteEpisodes, CreateEpisodes,
           MarkSplit, MarkFailed, SetStatus, FetchEpisode, AskPrompt, ReadVersion, CreateAsCurrent,
           FetchPrompt, BulkSave, NodeDeleteBoards, NodeCreateBoards, NodeFetchBoard,
           CreateVideoRow,
           AskImage, AskVideo, SaveImage, SaveVideo, MarkVideoFailed, LogUsage, splitv
      <4> QED BY <4>1, <4>2 DEF Certain
    <3> QED BY <1>2, <3>1, <3>2, <3>3 DEF Acts
  <2>2. act[a].kind = "split" /\ act[a].mode = "task"
    <3>1. CASE a # c
      BY <1>0, <1>2, <3>1, OthersStay DEF Acts, LoneSplit, Doing, IsTask
    <3>2. CASE a = c
      BY <1>0, <1>2, <3>2, DeliveredActor, LeavingActor, HandleMoves DEF Acts, LoneSplit, Doing,
         IsTask, Moves
    <3> QED BY <3>1, <3>2
  <2>3. ASSUME NEW b \in Actors \ {a}, act[b].kind = "split", act[b].st # "free" PROVE FALSE
    <3>1. act'[b].kind = "split" /\ act'[b].st # "free"
      BY <1>0, <1>2, <2>3, KindStays
    <3> QED BY <3>1 DEF LoneSplit, Doing
  <2> QED BY <2>1, <2>2, <2>3 DEF LoneSplit, Doing, IsTask
<1> QED BY <1>1, <1>2, StepCases

\* The rows of one INSERT are as many as the answer has episodes.
LEMMA InsertedEpisodes ==
    ASSUME ContentTypeOK, NEW a \in Actors, Remembers(a), LiveEpisodes = {},
           episodes' = episodes \cup NewEpisodes(a)
    PROVE  Answered'
<1>1. PICK list \in EpisodeLists : mem[a].eps = Numbered(list)
  BY DEF Remembers
<1>2. /\ list \in Seq(Nat) /\ Len(list) \in Nat /\ DOMAIN list = 1..Len(list)
      /\ DOMAIN Numbered(list) = 1..Len(list)
  BY ContentAssumption, NumberedType
<1> DEFINE N == Numbered(list)
           Row(i) == [no |-> N[i], by |-> Attempt(a), idx |-> i, live |-> TRUE]
           S == 1..Len(list)
           f == [i \in S |-> Row(i)]
<1>3. NewEpisodes(a) = {Row(i) : i \in S}
  BY <1>1, <1>2 DEF NewEpisodes
<1>4. \A i \in S : Row(i).live /\ Row(i).no = N[i] /\ Row(i).idx = i
  OBVIOUS
<1> HIDE DEF Row, N
<1>5. LiveEpisodes' = {Row(i) : i \in S}
  BY <1>3, <1>4 DEF LiveEpisodes
<1>6. f \in Bijection(S, {Row(i) : i \in S})
  <2>1. \A i, j \in S : Row(i) = Row(j) => i = j
    BY <1>4
  <2> QED BY <2>1, Fun_IsBij
<1>7. IsFiniteSet(S) /\ Cardinality(S) = Len(list)
  <2>1. 1 \in Int /\ Len(list) \in Int
    BY <1>2
  <2>2. /\ IsFiniteSet(1..Len(list))
        /\ Cardinality(1..Len(list)) = IF 1 > Len(list) THEN 0 ELSE Len(list) - 1 + 1
    BY <2>1, FS_Interval
  <2> QED BY <1>2, <2>2
<1>8. Cardinality(LiveEpisodes') = Len(list)
  BY <1>5, <1>6, <1>7, FS_Bijection DEF ExistsBijection
<1>9. {e.no : e \in LiveEpisodes'} = {N[i] : i \in DOMAIN list}
  BY <1>2, <1>4, <1>5
<1> QED BY <1>8, <1>9 DEF Answered, N

\* No other actor touches what a lone split settles.
LEMMA OthersLeaveIt ==
    ASSUME ContentInv, NEW a \in Actors, LoneSplit(a)', NEW c \in Actors \ {a}, Acts(c)
    PROVE  UNCHANGED <<script, episodes>>
<1>0. ContentTypeOK
  BY DEF ContentInv
<1>1. CASE Starts(c) \/ Deliver(c) \/ Finish(c) \/ Crash(c)
  BY <1>0, <1>1, StartingActor, DeliveredActor, LeavingActor DEF splitv
<1>2. CASE Handles(c)
  <2>1. act[c].st = "running" /\ act' = act
    BY <1>2, HandleMoves DEF Moves
  <2>2. ~Doing(c, "split")
    BY <2>1 DEF LoneSplit, Doing
  <2> QED BY <1>2, <2>2 DEF Handles, FetchScript, AskSplit, DeleteEpisodes, CreateEpisodes,
       MarkSplit, MarkFailed, SetStatus, FetchEpisode, AskPrompt, ReadVersion, CreateAsCurrent,
       FetchPrompt, BulkSave, NodeDeleteBoards, NodeCreateBoards, NodeFetchBoard, CreateVideoRow,
       AskImage, AskVideo, SaveImage, SaveVideo, MarkVideoFailed, LogUsage, splitv
<1> QED BY <1>1, <1>2 DEF Acts

\* The split's own steps.
LEMMA SplitHandles ==
    ASSUME ContentInv, NEW a \in Actors, LoneSplit(a), Certain, Reached(a), Handles(a), Certain'
    PROVE  Reached(a)'
<1>0. /\ ContentTypeOK /\ act' = act /\ act[a].st = "running" /\ pc \in [Actors -> Places]
      /\ mem \in [Actors -> Memories] /\ Doing(a, "split") /\ IsTask(a) /\ ScriptExists
      /\ episodes \subseteq EpisodeRows
  BY HandleMoves, TypesTogether DEF ContentInv, Moves, ControlType, MemoryType, SplitType,
     LoneSplit,
     Certain, ScriptExists
<1>1. CASE FetchScript(a)
  BY <1>0, <1>1 DEF FetchScript, Goto, Certain, Reached, At
<1>2. CASE AskSplit(a)
  <2>1. ASSUME NEW list \in EpisodeLists, mem' = [mem EXCEPT ![a].eps = Numbered(list)], Goto(a, "delete")
        PROVE  Reached(a)'
    <3>1. mem'[a].eps = Numbered(list) /\ pc'[a] = "delete"
      BY <1>0, <2>1 DEF Memories, Goto
    <3> QED BY <1>0, <3>1 DEF Reached, At, Remembers
  <2>2. CASE Goto(a, "mark")
    BY <1>0, <2>2 DEF Goto, Reached, At
  <2> QED BY <1>0, <1>2, <2>1, <2>2 DEF AskSplit
<1>3. CASE DeleteEpisodes(a)
  <2>1. Remembers(a) /\ mem' = mem
    BY <1>3 DEF DeleteEpisodes, Reached
  <2>2. CASE episodes' = Buried(episodes) /\ Goto(a, "create")
    <3>1. LiveEpisodes' = {}
      BY <1>0, <2>2, BuriedType DEF LiveEpisodes
    <3> QED BY <1>0, <2>1, <2>2, <3>1 DEF Goto, Reached, At, Remembers
  <2>3. CASE Goto(a, "mark")
    BY <1>0, <2>3 DEF Goto, Reached, At
  <2> QED BY <1>0, <1>3, <2>2, <2>3 DEF DeleteEpisodes
<1>4. CASE CreateEpisodes(a)
  <2>1. Remembers(a) /\ LiveEpisodes = {}
    BY <1>4 DEF CreateEpisodes, Reached
  <2>2. CASE episodes' = episodes \cup NewEpisodes(a) /\ Goto(a, "status")
    <3>1. Answered'
      BY <1>0, <2>1, <2>2, InsertedEpisodes
    <3> QED BY <1>0, <2>2, <3>1 DEF Goto, Reached, At
  <2>3. CASE Goto(a, "mark")
    BY <1>0, <2>3 DEF Goto, Reached, At
  <2> QED BY <1>0, <1>4, <2>2, <2>3 DEF CreateEpisodes
<1>5. CASE MarkSplit(a)
  <2>1. Answered /\ UNCHANGED episodes /\ script' = SplitOK /\ Goto(a, "ok")
    BY <1>0, <1>5 DEF MarkSplit, SetStatus, Reached, Certain
  <2>2. Answered'
    BY <2>1 DEF Answered, LiveEpisodes
  <2> QED BY <1>0, <2>1, <2>2 DEF Goto, Reached, At
<1>6. CASE MarkFailed(a)
  <2>1. script' = Failed /\ Goto(a, "err")
    BY <1>0, <1>6 DEF MarkFailed, SetStatus, Certain
  <2> QED BY <1>0, <2>1 DEF Goto, Reached, At
<1> QED BY <1>0, <1>1, <1>2, <1>3, <1>4, <1>5, <1>6 DEF Handles, Doing, Media, FetchEpisode,
           AskPrompt,
       ReadVersion, CreateAsCurrent, FetchPrompt, BulkSave, NodeDeleteBoards, NodeCreateBoards,
       NodeFetchBoard, CreateVideoRow, AskImage, AskVideo, SaveImage, SaveVideo, MarkVideoFailed, LogUsage

LEMMA SplitStep ==
    ASSUME ContentInv, SplitInv, [ContentNext]_contentVars
    PROVE  SplitInv'
<1> SUFFICES ASSUME NEW a \in Actors, LoneSplit(a)', Certain' PROVE Reached(a)'
  BY DEF SplitInv
<1>0. ContentTypeOK
  BY DEF ContentInv
<1>1. CASE Starts(a)
  BY <1>0, <1>1, StartingActor DEF Reached, At
<1>2. CASE ~Starts(a)
  <2>1. LoneSplit(a) /\ Certain /\ Reached(a)
    BY <1>2, StillLone DEF SplitInv
  <2>2. ASSUME UNCHANGED <<script, episodes>>, act'[a] = act[a], pc'[a] = pc[a], mem'[a] = mem[a]
        PROVE  Reached(a)'
    BY <2>1, <2>2 DEF Reached, At, Remembers, Answered, LiveEpisodes
  <2>3. CASE Request
    <3>1. UNCHANGED <<script, episodes>>
      BY <2>3, RequestKeeps DEF Certain, Request, DeleteScriptEpisodes, DeleteScript, SetCurrent,
         contentVars, splitv
    <3> QED BY <2>2, <2>3, <3>1, RequestKeeps
  <2>4. ASSUME NEW c \in Actors \ {a}, Acts(c) PROVE Reached(a)'
    <3>1. UNCHANGED <<script, episodes>>
      BY <2>4, OthersLeaveIt
    <3>2. act'[a] = act[a] /\ pc'[a] = pc[a] /\ mem'[a] = mem[a]
      BY <1>0, <2>4, OthersStay DEF Acts
    <3> QED BY <2>2, <3>1, <3>2
  <2>5. CASE Deliver(a)
    BY <1>0, <2>1, <2>5, DeliveredActor DEF Reached, At, FirstStep, LoneSplit, Doing
  <2>6. CASE Finish(a)
    <3>1. /\ act[a].st = "running" /\ act'[a].st \in {"queued", "done", "failed", "lost"}
          /\ act'[a].st = "done" => pc[a] = "ok"
          /\ UNCHANGED <<script, episodes>>
      BY <1>0, <2>6, LeavingActor
    <3>2. act'[a].st = "failed" => pc[a] = "err"
      <4>1. faults \in 0..MaxFaults /\ UNCHANGED faults
        BY <1>0, <2>6 DEF Finish, ContentTypeOK
      <4>2. ~Crash(a)
        BY <4>1, ContentAssumption DEF Crash, Breaks
      <4> QED BY <1>0, <2>6, <4>2, LeavingActor
    <3> QED BY <2>1, <3>1, <3>2 DEF Reached, At, Answered, LiveEpisodes
  <2>7. CASE Crash(a)
    BY <2>1, <2>7 DEF Crash, Certain, LoneSplit
  <2>8. CASE Handles(a)
    BY <2>1, <2>8, SplitHandles
  <2> QED BY <1>2, <2>3, <2>4, <2>5, <2>6, <2>7, <2>8, StepCases DEF Acts
<1> QED BY <1>1, <1>2

\* The split task "marks failed on every failing branch": while one split works
\* on a script, its settled outcome and the status agree, and a split that
\* succeeded left the episodes of one whole answer.
THEOREM SplitStatusTellsTheTruth == ContentSpec => []SplitStatusIsTrue
<1>1. ContentInit => SplitInv
  BY DEF ContentInit, SplitInv, Reached, At, Idle
<1>2. SplitInv => SplitStatusIsTrue
  BY DEF SplitInv, Reached, Answered, Certain, SplitStatusIsTrue
<1>3. ContentInv /\ SplitInv /\ [ContentNext]_contentVars => ContentInv' /\ SplitInv'
  BY ContentTypeStep, VersionsStep, SplitStep DEF ContentInv
<1> QED BY ContentInitially, <1>1, <1>2, <1>3, PTL DEF ContentSpec

-----------------------------------------------------------------------------
(***************************************************************************)
(* The events a task publishes: Hub.  HubInv is inductive: for each client *)
(* it speaks of all that is on the way to it, not only of what was written.*)
(***************************************************************************)

\* The way of an event to a client: from what Redis has for the process, over the
\* hub and the client's channel, to the peer (4, 3, 2, 1).
Way(c) == [k \in 1..4 |-> IF k = 1 THEN got[c] ELSE IF k = 2 THEN send[c]
                          ELSE IF k = 3 THEN broadcast[Home[c]] ELSE relay[Home[c]]]
Ordered(w) == \A k, l \in 1..4 : \A i \in DOMAIN w[k], j \in DOMAIN w[l] :
                 k < l \/ (k = l /\ i < j) => w[k][i] < w[l][j]
Until(w, n) == \A k \in 1..4 : \A i \in DOMAIN w[k] : w[k][i] < n
Events == 1..MaxEvents
Ways == [1..4 -> Seq(Events)]

LEMMA WayType == ASSUME HubTypeOK, NEW c \in Clients PROVE Way(c) \in Ways
BY HubAssumption DEF HubTypeOK, Way, Ways, Events

\* The head of one stage goes to the end of the next, or is dropped.
Passes(w, v, k) ==
    /\ v \in Ways /\ w[k] # << >> /\ v[k] = Tail(w[k])
    /\ v[k - 1] = w[k - 1] \/ v[k - 1] = Append(w[k - 1], Head(w[k]))
    /\ \A l \in (1..4) \ {k, k - 1} : v[l] = w[l]
\* A new event, or none, comes to the end of a stage.
Enters(w, v, k, ev) ==
    /\ v \in Ways
    /\ v[k] = w[k] \/ v[k] = Append(w[k], ev)
    /\ \A l \in (1..4) \ {k} : v[l] = w[l]

LEMMA SeqFacts ==
    ASSUME NEW S, NEW s \in Seq(S)
    PROVE  /\ Len(s) \in Nat /\ DOMAIN s = 1..Len(s)
           /\ \A i \in DOMAIN s : i \in Nat /\ s[i] \in S
OBVIOUS
LEMMA WayFacts ==
    ASSUME NEW w \in Ways, NEW l \in 1..4
    PROVE  /\ w[l] \in Seq(Events) /\ Len(w[l]) \in Nat /\ DOMAIN w[l] = 1..Len(w[l])
           /\ \A i \in DOMAIN w[l] : i \in Nat /\ w[l][i] \in Events
<1>1. w[l] \in Seq(Events)
  BY DEF Ways
<1> QED BY <1>1, SeqFacts
LEMMA AppendFacts ==
    ASSUME NEW S, NEW s \in Seq(S), NEW x \in S
    PROVE  /\ DOMAIN Append(s, x) = 1..(Len(s) + 1)
           /\ \A i \in 1..Len(s) : Append(s, x)[i] = s[i]
           /\ Append(s, x)[Len(s) + 1] = x
OBVIOUS
LEMMA TailFacts ==
    ASSUME NEW S, NEW s \in Seq(S), s # << >>
    PROVE  /\ Len(s) >= 1 /\ 1 \in DOMAIN s /\ Head(s) = s[1] /\ Head(s) \in S
           /\ DOMAIN Tail(s) = 1..(Len(s) - 1)
           /\ \A i \in 1..(Len(s) - 1) : Tail(s)[i] = s[i + 1]
OBVIOUS

LEMMA PassesOrdered ==
    ASSUME NEW w \in Ways, NEW v, NEW k \in 2..4, Passes(w, v, k), Ordered(w), NEW n \in Nat, Until(w, n)
    PROVE  Ordered(v) /\ Until(v, n)
<1>1. \A l \in 1..4 : w[l] \in Seq(Events) /\ v[l] \in Seq(Events)
  BY DEF Passes, Ways
<1>2. /\ DOMAIN w[k] = 1..Len(w[k]) /\ Len(w[k]) \in Nat /\ 1 \in DOMAIN w[k]
      /\ \A i \in DOMAIN v[k] : i \in Nat /\ i + 1 \in DOMAIN w[k] /\ v[k][i] = w[k][i + 1]
  <2>1. w[k] \in Seq(Events) /\ w[k] # << >> /\ v[k] = Tail(w[k])
    BY <1>1 DEF Passes
  <2>2. /\ DOMAIN w[k] = 1..Len(w[k]) /\ Len(w[k]) \in Nat /\ 1 \in DOMAIN w[k]
        /\ DOMAIN v[k] = 1..(Len(w[k]) - 1)
        /\ \A i \in 1..(Len(w[k]) - 1) : v[k][i] = w[k][i + 1]
    BY <2>1, SeqFacts, TailFacts
  <2> QED BY <2>2
<1>3. /\ DOMAIN w[k - 1] = 1..Len(w[k - 1]) /\ Len(w[k - 1]) \in Nat
      /\ \A i \in DOMAIN v[k - 1] :
            \/ i \in DOMAIN w[k - 1] /\ v[k - 1][i] = w[k - 1][i]
            \/ i = Len(w[k - 1]) + 1 /\ v[k - 1][i] = w[k][1]
  <2>0. k - 1 \in 1..4 /\ w[k - 1] \in Seq(Events) /\ Head(w[k]) = w[k][1] /\ Head(w[k]) \in Events
    BY <1>1 DEF Passes
  <2>1. CASE v[k - 1] = w[k - 1]
    BY <2>0, <2>1
  <2>2. CASE v[k - 1] = Append(w[k - 1], Head(w[k]))
    BY <2>0, <2>2
  <2> QED BY <2>1, <2>2 DEF Passes
<1>4. \A l \in (1..4) \ {k, k - 1} : v[l] = w[l]
  BY DEF Passes
<1>5. ASSUME NEW l \in 1..4, NEW i \in DOMAIN v[l], NEW m \in 1..4, NEW j \in DOMAIN v[m],
             l < m \/ (l = m /\ i < j)
      PROVE  v[l][i] < v[m][j]
  <2>0. l \in Nat /\ m \in Nat /\ i \in Nat /\ j \in Nat
    <3>1. v \in Ways
      BY DEF Passes
    <3> QED BY <1>5, <3>1, WayFacts
  <2>1. CASE l = k /\ m = k
    <3>1. i < j /\ i + 1 \in DOMAIN w[k] /\ j + 1 \in DOMAIN w[k]
      BY <1>2, <1>5, <2>0, <2>1
    <3>2. w[k][i + 1] < w[k][j + 1]
      BY <2>0, <3>1 DEF Ordered
    <3> QED BY <1>2, <2>1, <3>2
  <2>2. CASE l = k /\ m # k
    <3>1. m \in (1..4) \ {k, k - 1} /\ l < m
      BY <1>5, <2>2
    <3> QED BY <1>2, <1>4, <1>5, <2>2, <3>1 DEF Ordered
  <2>3. CASE l = k - 1 /\ m = k
    <3>1. j + 1 \in DOMAIN w[k] /\ v[m][j] = w[k][j + 1] /\ 1 < j + 1
      <4>1. v \in Ways
        BY DEF Passes
      <4>2. j \in DOMAIN v[k] /\ 1 <= j
        BY <1>5, <2>3, <4>1, WayFacts
      <4> QED BY <1>2, <2>0, <2>3, <4>2
    <3>2. CASE i \in DOMAIN w[k - 1] /\ v[k - 1][i] = w[k - 1][i]
      <4>1. k - 1 \in 1..4 /\ k - 1 < k
        OBVIOUS
      <4>2. w[k - 1][i] < w[k][j + 1]
        BY <3>1, <3>2, <4>1 DEF Ordered
      <4> QED BY <2>3, <3>1, <3>2, <4>2
    <3>3. CASE v[k - 1][i] = w[k][1]
      <4>1. w[k][1] < w[k][j + 1]
        BY <1>2, <3>1 DEF Ordered
      <4> QED BY <2>3, <3>1, <3>3, <4>1
    <3> QED BY <1>3, <1>5, <2>3, <3>2, <3>3
  <2>4. CASE l = k - 1 /\ m = k - 1
    <3>1. i < j /\ k - 1 \in 1..4 /\ k - 1 < k
      BY <1>5, <2>0, <2>4
    <3>2. CASE i \in DOMAIN w[k - 1] /\ v[k - 1][i] = w[k - 1][i]
      <4>1. CASE j \in DOMAIN w[k - 1] /\ v[k - 1][j] = w[k - 1][j]
        <5>1. w[k - 1][i] < w[k - 1][j]
          BY <3>1, <3>2, <4>1 DEF Ordered
        <5> QED BY <2>4, <3>2, <4>1, <5>1
      <4>2. CASE v[k - 1][j] = w[k][1]
        <5>1. w[k - 1][i] < w[k][1]
          BY <1>2, <3>1, <3>2 DEF Ordered
        <5> QED BY <2>4, <3>2, <4>2, <5>1
      <4> QED BY <1>3, <1>5, <2>4, <4>1, <4>2
    <3>3. CASE i = Len(w[k - 1]) + 1
      <4>1. j \in 1..Len(w[k - 1]) \/ j = Len(w[k - 1]) + 1
        BY <1>3, <1>5, <2>4
      <4> QED BY <1>3, <2>0, <3>1, <3>3, <4>1
    <3> QED BY <1>3, <1>5, <2>4, <3>2, <3>3
  <2>5. CASE l = k - 1 /\ m \in (1..4) \ {k, k - 1}
    <3>1. k < m /\ k - 1 < m /\ k - 1 \in 1..4 /\ v[m] = w[m]
      BY <1>4, <1>5, <2>0, <2>5
    <3>2. j \in DOMAIN w[m]
      BY <1>5, <3>1
    <3>3. CASE i \in DOMAIN w[k - 1] /\ v[k - 1][i] = w[k - 1][i]
      <4>1. w[k - 1][i] < w[m][j]
        BY <3>1, <3>2, <3>3 DEF Ordered
      <4> QED BY <2>5, <3>1, <3>3, <4>1
    <3>4. CASE v[k - 1][i] = w[k][1]
      <4>1. w[k][1] < w[m][j]
        BY <1>2, <3>1, <3>2 DEF Ordered
      <4> QED BY <2>5, <3>1, <3>4, <4>1
    <3> QED BY <1>3, <1>5, <2>5, <3>3, <3>4
  <2>6. CASE l \in (1..4) \ {k, k - 1} /\ m = k
    <3>1. l < m
      BY <1>5, <2>6
    <3> QED BY <1>2, <1>4, <1>5, <2>6, <3>1 DEF Ordered
  <2>7. CASE l \in (1..4) \ {k, k - 1} /\ m = k - 1
    <3>1. l < k - 1 /\ l < k /\ k - 1 \in 1..4 /\ v[l] = w[l]
      BY <1>4, <1>5, <2>0, <2>7
    <3>2. i \in DOMAIN w[l]
      BY <1>5, <3>1
    <3>3. CASE j \in DOMAIN w[k - 1] /\ v[k - 1][j] = w[k - 1][j]
      <4>1. w[l][i] < w[k - 1][j]
        BY <3>1, <3>2, <3>3 DEF Ordered
      <4> QED BY <2>7, <3>1, <3>3, <4>1
    <3>4. CASE v[k - 1][j] = w[k][1]
      <4>1. w[l][i] < w[k][1]
        BY <1>2, <3>1, <3>2 DEF Ordered
      <4> QED BY <2>7, <3>1, <3>4, <4>1
    <3> QED BY <1>3, <1>5, <2>7, <3>3, <3>4
  <2>8. CASE l \in (1..4) \ {k, k - 1} /\ m \in (1..4) \ {k, k - 1}
    BY <1>4, <1>5, <2>8 DEF Ordered
  <2> QED BY <2>1, <2>2, <2>3, <2>4, <2>5, <2>6, <2>7, <2>8
<1>6. ASSUME NEW l \in 1..4, NEW i \in DOMAIN v[l] PROVE v[l][i] < n
  <2>1. CASE l = k
    BY <1>2, <1>6, <2>1 DEF Until
  <2>2. CASE l = k - 1
    BY <1>2, <1>3, <1>6, <2>2 DEF Until
  <2>3. CASE l \in (1..4) \ {k, k - 1}
    BY <1>4, <1>6, <2>3 DEF Until
  <2> QED BY <2>1, <2>2, <2>3
<1> QED BY <1>5, <1>6 DEF Ordered, Until

LEMMA EntersOrdered ==
    ASSUME NEW w \in Ways, NEW v, NEW ev \in Events, Enters(w, v, 4, ev), Ordered(w), Until(w, ev)
    PROVE  Ordered(v) /\ Until(v, ev + 1)
<1>0. Events \subseteq Nat
  BY DEF Events
<1>1. \A l \in 1..4 : w[l] \in Seq(Events) /\ v[l] \in Seq(Events)
  BY DEF Enters, Ways
<1>2. ASSUME NEW l \in 1..4, NEW i \in DOMAIN v[l]
      PROVE  \/ i \in DOMAIN w[l] /\ v[l][i] = w[l][i] /\ v[l][i] < ev
             \/ l = 4 /\ i = Len(w[4]) + 1 /\ v[l][i] = ev
  <2>1. CASE v[l] = w[l]
    BY <1>2, <2>1 DEF Until
  <2>2. CASE l = 4 /\ v[4] = Append(w[4], ev)
    BY <1>1, <1>2, <2>2 DEF Until
  <2> QED BY <2>1, <2>2 DEF Enters
<1>3. ASSUME NEW l \in 1..4, NEW i \in DOMAIN v[l], NEW m \in 1..4, NEW j \in DOMAIN v[m],
             l < m \/ (l = m /\ i < j)
      PROVE  v[l][i] < v[m][j]
  <2>1. DOMAIN w[4] = 1..Len(w[4]) /\ Len(w[4]) \in Nat /\ i \in Nat /\ j \in Nat
    BY <1>3, WayFacts DEF Enters
  <2>2. CASE i \in DOMAIN w[l] /\ v[l][i] = w[l][i] /\ v[l][i] < ev
    <3>1. CASE j \in DOMAIN w[m] /\ v[m][j] = w[m][j]
      BY <1>3, <2>2, <3>1 DEF Ordered
    <3>2. CASE v[m][j] = ev
      BY <2>2, <3>2
    <3> QED BY <1>2, <3>1, <3>2
  <2>3. CASE l = 4 /\ i = Len(w[4]) + 1
    <3>1. m = 4 /\ i < j
      BY <1>3, <2>3
    <3>2. j \in 1..Len(w[4]) \/ j = Len(w[4]) + 1
      BY <1>2, <2>1, <3>1
    <3> QED BY <2>1, <2>3, <3>1, <3>2
  <2> QED BY <1>2, <2>2, <2>3
<1>4. \A l \in 1..4 : \A i \in DOMAIN v[l] : v[l][i] < ev + 1
  <2> SUFFICES ASSUME NEW l \in 1..4, NEW i \in DOMAIN v[l] PROVE v[l][i] < ev + 1
    OBVIOUS
  <2>1. v[l][i] \in Events
    BY WayFacts DEF Enters
  <2> QED BY <1>0, <1>2, <2>1
<1> QED BY <1>3, <1>4 DEF Ordered, Until

\* A client registers with the hub of its own process only.
AtHome == \A p \in Procs :
    /\ \A c \in members[p] : Home[c] = p
    /\ \A i \in DOMAIN register[p] : Home[register[p][i]] = p

LEMMA HubInitially == HubInit => HubTypeOK /\ AtHome
<1> SUFFICES ASSUME HubInit PROVE HubTypeOK /\ AtHome
  OBVIOUS
<1>1. \A S : << >> \in Seq(S)
  OBVIOUS
<1>2. task \in [at : Procs, next : 1..(MaxEvents + 1), told : BOOLEAN] /\ ~task.told
  <2>1. 1 \in 1..(MaxEvents + 1)
    BY HubAssumption
  <2>2. task \in [at : Procs, next : {1}, told : {FALSE}]
    BY DEF HubInit
  <2> QED BY <2>1, <2>2
<1>3. HubTypeOK
  BY <1>1, <1>2 DEF HubInit, HubTypeOK
<1>4. AtHome
  BY DEF HubInit, AtHome
<1> QED BY <1>3, <1>4

LEMMA OfferType ==
    ASSUME NEW s \in Seq(Events), NEW ev \in Events, NEW cap
    PROVE  /\ Offer(s, ev, cap) \in Seq(Events)
           /\ Offer(s, ev, cap) = s \/ Offer(s, ev, cap) = Append(s, ev)
BY DEF Offer

LEMMA HubTypeStep ==
    ASSUME HubTypeOK, [HubNext]_wsVars
    PROVE  HubTypeOK'
<1> USE DEF HubTypeOK
<1>0. /\ \A p \in Procs : broadcast[p] \in Seq(Events) /\ relay[p] \in Seq(Events)
      /\ \A c \in Clients : send[c] \in Seq(Events) /\ got[c] \in Seq(Events)
  BY DEF Events
<1>1. CASE UNCHANGED wsVars
  BY <1>1 DEF wsVars, connVars, hubVars, eventVars
<1>2. ASSUME NEW c \in Clients, Upgrade(c) PROVE HubTypeOK'
  BY <1>2 DEF Upgrade, hubVars, eventVars
<1>3. ASSUME NEW c \in Clients, PeerLeaves(c) PROVE HubTypeOK'
  BY <1>3 DEF PeerLeaves, hubVars, eventVars
<1>4. ASSUME NEW c \in Clients, Enroll(c) PROVE HubTypeOK'
  <2>1. Home[c] \in Procs /\ Append(register[Home[c]], c) \in Seq(Clients)
    BY HubAssumption
  <2> QED BY <1>4, <2>1 DEF Enroll, hubVars, eventVars
<1>5. ASSUME NEW c \in Clients, ReadFails(c) PROVE HubTypeOK'
  BY <1>5 DEF ReadFails, hubVars, eventVars
<1>6. ASSUME NEW c \in Clients, Resign(c) PROVE HubTypeOK'
  <2>1. Home[c] \in Procs /\ Append(unregister[Home[c]], c) \in Seq(Clients)
    BY HubAssumption
  <2> QED BY <1>6, <2>1 DEF Resign, hubVars, eventVars
<1>7. ASSUME NEW c \in Clients, Write(c) PROVE HubTypeOK'
  <2>1. send[c] # << >> /\ Tail(send[c]) \in Seq(Events) /\ Head(send[c]) \in Events
    <3>1. send[c] # << >> /\ send[c] \in Seq(Events)
      BY <1>0, <1>7 DEF Write
    <3> QED BY <3>1, TailFacts
  <2>2. Append(got[c], Head(send[c])) \in Seq(Events)
    BY <1>0, <2>1
  <2>3. send \in [Clients -> Seq(Events)] /\ got \in [Clients -> Seq(Events)]
    BY DEF Events
  <2>4. send' \in [Clients -> Seq(Events)]
    BY <1>7, <2>1, <2>3 DEF Write
  <2>5. got' \in [Clients -> Seq(Events)]
    BY <1>7, <2>2, <2>3 DEF Write
  <2> QED BY <1>7, <2>4, <2>5 DEF Write, hubVars, Events
<1>8. ASSUME NEW c \in Clients, WriterEnds(c) PROVE HubTypeOK'
  BY <1>8 DEF WriterEnds, hubVars, eventVars
<1>9. ASSUME NEW p \in Procs, TakeRegister(p) PROVE HubTypeOK'
  <2>1. Tail(register[p]) \in Seq(Clients) /\ Head(register[p]) \in Clients
    BY <1>9 DEF TakeRegister
  <2> QED BY <1>9, <2>1 DEF TakeRegister, connVars, eventVars
<1>10. ASSUME NEW p \in Procs, TakeUnregister(p) PROVE HubTypeOK'
  <2>1. Tail(unregister[p]) \in Seq(Clients) /\ Head(unregister[p]) \in Clients
    BY <1>10 DEF TakeUnregister
  <2> QED BY <1>10, <2>1 DEF TakeUnregister, connVars, eventVars
<1>11. ASSUME NEW p \in Procs, TakeBroadcast(p) PROVE HubTypeOK'
  <2>1. broadcast[p] # << >> /\ Tail(broadcast[p]) \in Seq(Events) /\ Head(broadcast[p]) \in Events
    BY <1>0, <1>11 DEF TakeBroadcast
  <2>2. \A c \in Clients : Offer(send[c], Head(broadcast[p]), SendCap) \in Seq(Events)
    BY <1>0, <2>1, OfferType
  <2>3. send' \in [Clients -> Seq(Events)]
    BY <1>0, <1>11, <2>2 DEF TakeBroadcast
  <2> QED BY <1>11, <2>1, <2>3 DEF TakeBroadcast, connVars, hubVars, Events
<1>12. ASSUME NEW p \in Procs, KeepAlive(p) PROVE HubTypeOK'
  BY <1>12 DEF KeepAlive, hubVars, eventVars
<1>13. ASSUME NEW p \in Procs, Subscribe(p) PROVE HubTypeOK'
  <2>1. relay[p] # << >> /\ Tail(relay[p]) \in Seq(Events) /\ Head(relay[p]) \in Events
    BY <1>0, <1>13 DEF Subscribe
  <2>2. Offer(broadcast[p], Head(relay[p]), BroadcastCap) \in Seq(Events)
    BY <1>0, <2>1, OfferType
  <2> QED BY <1>13, <2>1, <2>2 DEF Subscribe, connVars, hubVars, Events
<1>14. CASE PublishLocally
  <2>1. task.next \in Events
    BY <1>14, HubAssumption DEF PublishLocally, Events
  <2>2. Offer(broadcast[task.at], task.next, BroadcastCap) \in Seq(Events)
    BY <1>0, <2>1, OfferType
  <2>3. broadcast' \in [Procs -> Seq(Events)]
    BY <1>0, <1>14, <2>2 DEF PublishLocally, Events
  <2>4. /\ task' \in [at : Procs, next : 1..(MaxEvents + 1), told : BOOLEAN]
        /\ task'.next <= MaxEvents
    BY <1>14 DEF PublishLocally
  <2> QED BY <1>14, <2>3, <2>4 DEF PublishLocally, connVars, hubVars, Events
<1>15. CASE PublishToRedis
  <2>1. task.next \in Events /\ task.next + 1 \in 1..(MaxEvents + 1)
    BY <1>15, HubAssumption DEF PublishToRedis, Events
  <2>2. \A p \in Procs : Append(relay[p], task.next) \in Seq(Events)
    BY <1>0, <2>1
  <2>3. relay' \in [Procs -> Seq(Events)]
    BY <1>0, <1>15, <2>2 DEF PublishToRedis
  <2>4. task' \in [at : Procs, next : 1..(MaxEvents + 1), told : BOOLEAN] /\ ~task'.told
    BY <1>15, <2>1 DEF PublishToRedis
  <2> QED BY <1>15, <2>3, <2>4 DEF PublishToRedis, connVars, hubVars, Events
<1> HIDE DEF HubTypeOK
<1> QED BY <1>1, <1>2, <1>3, <1>4, <1>5, <1>6, <1>7, <1>8, <1>9, <1>10, <1>11, <1>12, <1>13,
           <1>14, <1>15
       DEF HubNext, Pump

\* The channels, what Redis has and what was written keep their types.
THEOREM HubTypeCorrect == HubSpec => []HubTypeOK
BY HubInitially, HubTypeStep, PTL DEF HubSpec

LEMMA HomeStep ==
    ASSUME HubTypeOK, AtHome, [HubNext]_wsVars
    PROVE  AtHome'
<1>0. members \in [Procs -> SUBSET Clients] /\ register \in [Procs -> Seq(Clients)]
  BY DEF HubTypeOK
<1>1. CASE UNCHANGED <<members, register>>
  BY <1>1 DEF AtHome
<1>2. ASSUME NEW c \in Clients, Enroll(c) PROVE AtHome'
  <2> DEFINE q == Home[c]
  <2>1. /\ q \in Procs /\ register' = [register EXCEPT ![q] = Append(register[q], c)]
        /\ UNCHANGED members
    BY <1>2, HubAssumption DEF Enroll
  <2>2. \A i \in DOMAIN register'[q] : Home[register'[q][i]] = q
    <3>1. register[q] \in Seq(Clients) /\ register'[q] = Append(register[q], c)
      BY <1>0, <2>1
    <3>2. ASSUME NEW i \in DOMAIN register[q] PROVE Home[register[q][i]] = q
      BY <2>1, <3>2 DEF AtHome
    <3> QED BY <3>1, <3>2
  <2>3. \A p \in Procs \ {q} : register'[p] = register[p]
    BY <1>0, <2>1
  <2> QED BY <2>1, <2>2, <2>3 DEF AtHome
<1>3. ASSUME NEW p \in Procs, TakeRegister(p) PROVE AtHome'
  <2>1. /\ register[p] \in Seq(Clients) /\ register[p] # << >>
        /\ register'[p] = Tail(register[p])
        /\ members'[p] = members[p] \cup {Head(register[p])}
        /\ \A q \in Procs \ {p} : register'[q] = register[q] /\ members'[q] = members[q]
    BY <1>0, <1>3 DEF TakeRegister
  <2>2. ASSUME NEW i \in DOMAIN register[p] PROVE Home[register[p][i]] = p
    BY <2>2 DEF AtHome
  <2>3. /\ \A i \in DOMAIN register'[p] : Home[register'[p][i]] = p
        /\ Home[Head(register[p])] = p
    BY <2>1, <2>2
  <2> QED BY <2>1, <2>3 DEF AtHome
<1>4. ASSUME NEW p \in Procs, TakeUnregister(p) PROVE AtHome'
  <2>1. UNCHANGED register /\ \A q \in Procs : members'[q] \subseteq members[q]
    BY <1>0, <1>4 DEF TakeUnregister
  <2> QED BY <2>1 DEF AtHome
<1>5. \/ UNCHANGED <<members, register>> \/ (\E c \in Clients : Enroll(c))
      \/ \E p \in Procs : TakeRegister(p) \/ TakeUnregister(p)
  BY DEF HubNext, Pump, Upgrade, PeerLeaves, ReadFails, Resign, Write, WriterEnds, TakeBroadcast,
     KeepAlive,
     Subscribe, PublishLocally, PublishToRedis, wsVars, hubVars
<1> QED BY <1>1, <1>2, <1>3, <1>4, <1>5

-----------------------------------------------------------------------------
\* What a step does on the way to a client.
Stays(c) == Way(c)' = Way(c) /\ UNCHANGED task
Carries(c) == UNCHANGED task /\ \E k \in 2..4 : Passes(Way(c), Way(c)', k)
Tells(c) == /\ task.next \in Events /\ ~task.told
            /\ task' = [task EXCEPT !.told = TRUE]
            /\ IF Home[c] = task.at THEN Enters(Way(c), Way(c)', 3, task.next) ELSE Way(c)' = Way(c)
Relays(c) == /\ task.next \in Events /\ task.told
             /\ task' = [task EXCEPT !.told = FALSE, !.next = @ + 1]
             /\ Enters(Way(c), Way(c)', 4, task.next)

LEMMA WaySteps ==
    ASSUME HubTypeOK, AtHome, HubTypeOK', [HubNext]_wsVars, NEW c \in Clients
    PROVE  Stays(c) \/ Carries(c) \/ Tells(c) \/ Relays(c)
<1>0. /\ Way(c) \in Ways /\ Way(c)' \in Ways /\ Home[c] \in Procs
      /\ broadcast \in [Procs -> Seq(Events)] /\ relay \in [Procs -> Seq(Events)]
      /\ send \in [Clients -> Seq(Events)] /\ got \in [Clients -> Seq(Events)]
  <2>1. Way(c)' \in Ways
    BY HubAssumption DEF HubTypeOK, Way, Ways, Events
  <2> QED BY <2>1, WayType, HubAssumption DEF HubTypeOK, Events
<1>1. /\ Way(c)[1] = got[c] /\ Way(c)[2] = send[c] /\ Way(c)[3] = broadcast[Home[c]]
      /\ Way(c)[4] = relay[Home[c]]
      /\ Way(c)'[1] = got'[c] /\ Way(c)'[2] = send'[c] /\ Way(c)'[3] = broadcast'[Home[c]]
      /\ Way(c)'[4] = relay'[Home[c]]
  BY DEF Way
<1>2. ASSUME got'[c] = got[c], send'[c] = send[c], broadcast'[Home[c]] = broadcast[Home[c]],
             relay'[Home[c]] = relay[Home[c]]
      PROVE  Way(c)' = Way(c)
  BY <1>2 DEF Way
<1>3. ASSUME UNCHANGED eventVars, UNCHANGED got PROVE Stays(c)
  BY <1>2, <1>3 DEF Stays, eventVars
<1>4. CASE UNCHANGED wsVars
  BY <1>3, <1>4 DEF wsVars, connVars
<1>5. ASSUME NEW d \in Clients, Upgrade(d) \/ PeerLeaves(d) \/ Enroll(d) \/ ReadFails(d) \/ Resign(d) \/ WriterEnds(d)
      PROVE  Stays(c)
  BY <1>3, <1>5 DEF Upgrade, PeerLeaves, Enroll, ReadFails, Resign, WriterEnds
<1>6. ASSUME NEW p \in Procs, TakeRegister(p) \/ TakeUnregister(p) \/ KeepAlive(p) PROVE Stays(c)
  BY <1>3, <1>6 DEF TakeRegister, TakeUnregister, KeepAlive, connVars
<1>7. ASSUME NEW d \in Clients, Write(d) PROVE Stays(c) \/ Carries(c)
  <2>1. CASE d # c
    BY <1>0, <1>2, <1>7, <2>1 DEF Write, Stays
  <2>2. CASE d = c
    <3>1. /\ send[c] # << >> /\ send'[c] = Tail(send[c])
          /\ got'[c] = got[c] \/ got'[c] = Append(got[c], Head(send[c]))
          /\ UNCHANGED <<broadcast, relay, task>>
      BY <1>0, <1>7, <2>2 DEF Write
    <3>2. Passes(Way(c), Way(c)', 2)
      BY <1>0, <1>1, <3>1 DEF Passes, Way
    <3> QED BY <3>1, <3>2 DEF Carries
  <2> QED BY <2>1, <2>2
<1>8. ASSUME NEW p \in Procs, TakeBroadcast(p) PROVE Stays(c) \/ Carries(c)
  <2>1. /\ broadcast[p] # << >> /\ broadcast' = [broadcast EXCEPT ![p] = Tail(broadcast[p])]
        /\ send'[c] = IF c \in members[p] THEN Offer(send[c], Head(broadcast[p]), SendCap) ELSE send[c]
        /\ UNCHANGED <<got, relay, task>>
    BY <1>8 DEF TakeBroadcast, connVars
  <2>2. CASE p # Home[c] /\ c \notin members[p]
    BY <1>0, <1>2, <2>1, <2>2 DEF Stays
  <2>3. CASE p = Home[c]
    <3>1. broadcast'[p] = Tail(broadcast[p])
      BY <1>0, <2>1
    <3>2. send'[c] = send[c] \/ send'[c] = Append(send[c], Head(broadcast[p]))
      BY <2>1 DEF Offer
    <3>3. Passes(Way(c), Way(c)', 3)
      BY <1>0, <1>1, <2>1, <2>3, <3>1, <3>2 DEF Passes
    <3> QED BY <2>1, <3>3 DEF Carries
  <2> QED BY <2>2, <2>3 DEF AtHome
<1>9. ASSUME NEW p \in Procs, Subscribe(p) PROVE Stays(c) \/ Carries(c)
  <2>1. /\ relay[p] # << >> /\ relay' = [relay EXCEPT ![p] = Tail(relay[p])]
        /\ broadcast' = [broadcast EXCEPT ![p] = Offer(broadcast[p], Head(relay[p]), BroadcastCap)]
        /\ UNCHANGED <<got, send, task>>
    BY <1>9 DEF Subscribe, connVars
  <2>2. CASE p # Home[c]
    BY <1>0, <1>2, <2>1, <2>2 DEF Stays
  <2>3. CASE p = Home[c]
    <3>1. relay'[p] = Tail(relay[p])
      BY <1>0, <2>1
    <3>2. broadcast'[p] = broadcast[p] \/ broadcast'[p] = Append(broadcast[p], Head(relay[p]))
      BY <1>0, <2>1 DEF Offer
    <3>3. /\ Way(c)[4] # << >> /\ Way(c)'[4] = Tail(Way(c)[4])
          /\ Way(c)'[3] = Way(c)[3] \/ Way(c)'[3] = Append(Way(c)[3], Head(Way(c)[4]))
          /\ Way(c)'[1] = Way(c)[1] /\ Way(c)'[2] = Way(c)[2]
      BY <1>1, <2>1, <2>3, <3>1, <3>2
    <3>4. Passes(Way(c), Way(c)', 4)
      BY <1>0, <3>3 DEF Passes
    <3> QED BY <2>1, <3>4 DEF Carries
  <2> QED BY <2>2, <2>3
<1>10. CASE PublishLocally
  <2>1. /\ ~task.told /\ task' = [task EXCEPT !.told = TRUE]
        /\ broadcast' = [broadcast EXCEPT ![task.at] = Offer(broadcast[task.at], task.next, BroadcastCap)]
        /\ UNCHANGED <<got, send, relay>>
    BY <1>10 DEF PublishLocally, connVars
  <2>2. task.next \in Events
    BY <1>10, HubAssumption DEF PublishLocally, Events, HubTypeOK
  <2>3. CASE task.at # Home[c]
    BY <1>0, <1>2, <2>1, <2>2, <2>3 DEF Tells
  <2>4. CASE task.at = Home[c]
    <3>1. \/ broadcast'[Home[c]] = broadcast[Home[c]]
          \/ broadcast'[Home[c]] = Append(broadcast[Home[c]], task.next)
      BY <1>0, <2>1, <2>4 DEF Offer
    <3>2. Enters(Way(c), Way(c)', 3, task.next)
      BY <1>0, <1>1, <2>1, <3>1 DEF Enters
    <3> QED BY <2>1, <2>2, <2>4, <3>2 DEF Tells
  <2> QED BY <2>3, <2>4
<1>11. CASE PublishToRedis
  <2>1. /\ task.told /\ task' = [task EXCEPT !.told = FALSE, !.next = @ + 1]
        /\ UNCHANGED <<got, send, broadcast>>
    BY <1>11 DEF PublishToRedis, connVars
  <2>2. task.next \in Events
    BY <1>11, HubAssumption DEF PublishToRedis, Events, HubTypeOK
  <2>3. relay'[Home[c]] = relay[Home[c]] \/ relay'[Home[c]] = Append(relay[Home[c]], task.next)
    BY <1>0, <1>11 DEF PublishToRedis
  <2>4. Enters(Way(c), Way(c)', 4, task.next)
    BY <1>0, <1>1, <2>1, <2>3 DEF Enters
  <2> QED BY <2>1, <2>2, <2>4 DEF Relays
<1> QED BY <1>4, <1>5, <1>6, <1>7, <1>8, <1>9, <1>10, <1>11 DEF HubNext, Pump

\* A process that only hears of the events over Redis has them in order.
InOrder(c) == Home[c] # task.at => Ordered(Way(c)) /\ Until(Way(c), task.next)

LEMMA OrderStep ==
    ASSUME HubTypeOK, AtHome, HubTypeOK', [HubNext]_wsVars, NEW c \in Clients, InOrder(c)
    PROVE  InOrder(c)'
<1>0. /\ Way(c) \in Ways /\ task.next \in Nat /\ task \in [at : Procs, next : Nat, told : BOOLEAN]
  <2>1. task \in [at : Procs, next : 1..(MaxEvents + 1), told : BOOLEAN]
    BY DEF HubTypeOK
  <2> QED BY <2>1, WayType, HubAssumption
<1>1. task'.at = task.at /\ task'.next \in {task.next, task.next + 1}
  BY <1>0, WaySteps DEF Stays, Carries, Tells, Relays
<1> SUFFICES ASSUME Home[c] # task.at PROVE Ordered(Way(c)') /\ Until(Way(c)', task'.next)
  BY <1>1 DEF InOrder
<1>2. Ordered(Way(c)) /\ Until(Way(c), task.next)
  BY DEF InOrder
<1>3. CASE Stays(c)
  BY <1>2, <1>3 DEF Stays
<1>4. CASE Carries(c)
  BY <1>0, <1>2, <1>4, PassesOrdered DEF Carries
<1>5. CASE Tells(c)
  BY <1>0, <1>2, <1>5 DEF Tells
<1>6. CASE Relays(c)
  BY <1>0, <1>2, <1>6, EntersOrdered DEF Relays
<1> QED BY <1>3, <1>4, <1>5, <1>6, WaySteps

HubInv == HubTypeOK /\ AtHome /\ \A c \in Clients : InOrder(c)

\* For any processes, clients and channel sizes, with a relay that reaches any of
\* them: what comes over Redis is seen in the order it was published, nothing
\* twice, because no subscriber publishes it again.
THEOREM EventsDoNotCirculate == HubSpec => []NoEcho
<1>1. HubInit => HubInv
  <2> SUFFICES ASSUME HubInit, NEW c \in Clients PROVE InOrder(c)
    BY HubInitially DEF HubInv
  <2>1. \A k \in 1..4 : Way(c)[k] = << >>
    BY HubAssumption DEF HubInit, Way
  <2> QED BY <2>1 DEF InOrder, Ordered, Until
<1>2. HubInv => NoEcho
  <2> SUFFICES ASSUME HubInv, NEW c \in Clients, Home[c] # task.at
               PROVE  \A i, j \in DOMAIN got[c] : i < j => got[c][i] < got[c][j]
    BY DEF NoEcho
  <2>1. Way(c)[1] = got[c] /\ Ordered(Way(c))
    BY DEF HubInv, Way, InOrder
  <2> QED BY <2>1 DEF Ordered
<1>3. HubInv /\ [HubNext]_wsVars => HubInv'
  BY HubTypeStep, HomeStep, OrderStep DEF HubInv
<1> QED BY <1>1, <1>2, <1>3, PTL DEF HubSpec
=============================================================================
