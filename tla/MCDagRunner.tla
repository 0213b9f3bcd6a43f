---------------------------- MODULE MCDagRunner ----------------------------
(* Instances for TLC: every graph on three ids for DagLayers, and for       *)
(* DagRunner a diamond with a wide middle layer and an edge that skips it.  *)
(* A behaviour layers a graph while no execution runs, or executes the      *)
(* diamond while no graph is layered.                                       *)
EXTENDS DagRunner, DagLayers

CONSTANTS a, b, c, d, e

Five == {a, b, c, d, e}
Diamond == {<<a, b>>, <<a, c>>, <<a, d>>, <<b, e>>, <<c, e>>, <<a, e>>}
DiamondDepth == [n \in Five |-> IF n = a THEN 1 ELSE IF n = e THEN 3 ELSE 2]

\* An execution whose context was over before its first layer, and its end.
NoExecution ==
    /\ phase = "returned" /\ layer = 1 /\ todo = {} /\ starting = {}
    /\ result = "error" /\ ctxDone = TRUE /\ closed = TRUE /\ sem = 0
    /\ gor = [n \in Nodes |-> "none"]
    /\ attempt = [n \in Nodes |-> 0]
    /\ row = [n \in Nodes |-> "none"]
    /\ lost = {} /\ outputs = {} /\ errs = {} /\ good = {}
    /\ inputs = [n \in Nodes |-> {}]

\* The graph without nodes, rejected.
NoGraph ==
    /\ nodes = {} /\ repeats = 0 /\ edges = [m \in Ids \X Ids |-> 0]
    /\ stage = "rejected" /\ inDeg = [n \in nodes |-> 0]
    /\ front = {} /\ layers = <<>> /\ visited = 0

MCInit == (LayersInit /\ NoExecution) \/ (Init /\ NoGraph)

MCNext ==
    \/ (LayersNext /\ UNCHANGED vars)
    \/ (Next /\ UNCHANGED layersVars)

\* Either part under its own fairness.
MCSpec ==
    /\ MCInit /\ [][MCNext]_<<vars, layersVars>>
    /\ WF_layersVars(LayersNext)
    /\ WF_vars(MainStep) /\ WF_vars(CloseRun)
    /\ \A n \in Nodes : WF_vars(NodeStep(n))
=============================================================================
