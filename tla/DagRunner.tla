----------------------------- MODULE DagRunner -----------------------------
(***************************************************************************)
(* Runner.Execute: one execution of a DAG, its goroutines and step rows.   *)
(*                                                                         *)
(* The main loop goes through the layers. In each it looks up the handler  *)
(* of every node, computes the node's input, creates its step row, takes a *)
(* permit of the semaphore and starts a goroutine; then it waits for the   *)
(* layer. A goroutine calls the handler up to MaxAttempts times, stores    *)
(* the output and closes the step row.                                     *)
(*                                                                         *)
(* Execute can return while goroutines of the layer still run. Its context *)
(* ends with the 600 s of HandleRunTask, or when HandleRunTask returns,    *)
(* and every step row is written under that context.                       *)
(***************************************************************************)
EXTENDS Naturals, FiniteSets

CONSTANTS Nodes,           \* dag.Nodes
          Edges,           \* dag.Edges: <<from, to>>
          Depth,           \* the layer of each node (what DagLayers computes)
          NumLayers,
          MayLackHandler,  \* the nodes whose type may have no registered handler
          MaxConcurrency,  \* Runner.maxConcurrency
          MaxAttempts,     \* Runner.maxAttempts
          MayTimeout,      \* may the 600 s run out
          MayPanic,        \* the nodes whose handler may panic
          MayLoseWrites    \* the nodes whose step statements may fail under a live context

\* A finite graph in layers 1 to last, its edges going down.
Layering(ids, arcs, depth, last) ==
    /\ IsFiniteSet(ids) /\ arcs \subseteq ids \X ids
    /\ last \in Nat \ {0} /\ depth \in [ids -> 1 .. last]
    /\ \A e \in arcs : depth[e[1]] < depth[e[2]]

ASSUME DagAssumption ==
    /\ Layering(Nodes, Edges, Depth, NumLayers)
    /\ MayLackHandler \subseteq Nodes /\ MayPanic \subseteq Nodes
    /\ MayLoseWrites \subseteq Nodes
    /\ MaxConcurrency \in Nat \ {0} /\ MaxAttempts \in Nat \ {0}
    /\ MayTimeout \in BOOLEAN

VARIABLES
    phase,    \* the main loop: "check", "spawn", "acquire", "wait", "returned"
    layer,    \* the layer it is at
    todo,     \* the nodes of the layer it has not started yet
    starting, \* the node it takes a permit for (a set of at most one)
    result,   \* what Execute returned
    ctxDone,  \* the context is over
    closed,   \* HandleRunTask has closed the run
    sem,      \* permits of the layer's semaphore in use
    gor,      \* the goroutine of each node
    attempt,  \* its attempt counter
    row,      \* the committed step row of each node
    lost,     \* the nodes whose row was inserted without an answer, or whose
              \* closing statement failed, under a live context
    outputs,  \* the nodes with an entry in outputs
    inputs,   \* history: the upstream nodes whose output a node was given
    errs,     \* the nodes that sent to the layer's errCh
    good      \* history: the nodes whose handler returned no error

loopVars == <<phase, layer, todo, starting, result, inputs>>
vars == <<phase, layer, todo, starting, result, ctxDone, closed, sem, gor,
          attempt, row, lost, outputs, inputs, errs, good>>

NodesAt(k) == {n \in Nodes : Depth[n] = k}
Upstream(n) == {m \in Nodes : <<m, n>> \in Edges}

\* The goroutines that hold a permit.
Active == {n \in Nodes : gor[n] \in {"handler", "backoff", "succeeding", "failing"}}

TypeOK ==
    /\ phase \in {"check", "spawn", "acquire", "wait", "returned"}
    /\ layer \in 1 .. NumLayers
    /\ todo \subseteq Nodes /\ starting \subseteq Nodes
    /\ result \in {"none", "ok", "error"}
    /\ ctxDone \in BOOLEAN /\ closed \in BOOLEAN
    /\ sem \in Nat
    /\ gor \in [Nodes -> {"none", "handler", "backoff", "succeeding", "failing", "exit"}]
    /\ attempt \in [Nodes -> 0 .. MaxAttempts]
    /\ row \in [Nodes -> {"none", "running", "succeeded", "failed"}]
    /\ lost \subseteq Nodes
    /\ outputs \subseteq Nodes /\ errs \subseteq Nodes /\ good \subseteq Nodes
    /\ inputs \in [Nodes -> SUBSET Nodes]

Init ==
    /\ phase = "check" /\ layer = 1 /\ todo = {} /\ starting = {}
    /\ result = "none" /\ ctxDone = FALSE /\ closed = FALSE /\ sem = 0
    /\ gor = [n \in Nodes |-> "none"]
    /\ attempt = [n \in Nodes |-> 0]
    /\ row = [n \in Nodes |-> "none"]
    /\ lost = {}
    /\ outputs = {} /\ errs = {} /\ good = {}
    /\ inputs = [n \in Nodes |-> {}]

\* CreateStep and UpdateStep fail under a context that is over, and may fail
\* under a live one; their errors are dropped. An insert whose answer is lost
\* leaves step.ID at 0, as one that did not happen does: no later update finds
\* the row.
CreateRow(n) ==
    \/ /\ row' = IF ctxDone THEN row ELSE [row EXCEPT ![n] = "running"]
       /\ UNCHANGED lost
    \/ n \in MayLoseWrites /\ UNCHANGED <<row, lost>>
    \/ /\ n \in MayLoseWrites /\ ~ctxDone
       /\ row' = [row EXCEPT ![n] = "running"]
       /\ lost' = lost \union {n}

\* A failed write of another attempt leaves what the row says anyway; a failed
\* closing write is the goroutine's last.
UpdateRow(n, s) ==
    \/ /\ row' = IF ctxDone \/ row[n] = "none" \/ n \in lost THEN row
                 ELSE [row EXCEPT ![n] = s]
       /\ UNCHANGED lost
    \/ /\ n \in MayLoseWrites /\ ~ctxDone /\ s # "running"
       /\ lost' = lost \union {n}
       /\ UNCHANGED row

-----------------------------------------------------------------------------
(* The main loop.                                                          *)

Return(r) == phase' = "returned" /\ result' = r

\* ctx.Err() at the head of a layer.
StopAtLayer ==
    /\ phase = "check"
    /\ ctxDone
    /\ Return("error")
    /\ UNCHANGED <<layer, todo, starting, ctxDone, closed, sem, gor, attempt, row, lost,
                   outputs, inputs, errs, good>>

EnterLayer ==
    /\ phase = "check"
    /\ ~ctxDone
    /\ phase' = "spawn"
    /\ todo' = NodesAt(layer)
    /\ sem' = 0 /\ errs' = {}
    /\ UNCHANGED <<layer, starting, result, ctxDone, closed, gor, attempt, row, lost,
                   outputs, inputs, good>>

\* A node type nobody registered: Execute returns at once and leaves the
\* goroutines of the layer behind. (A node is looked up once, so which types
\* are registered is settled here.)
NoHandler(n) ==
    /\ phase = "spawn"
    /\ n \in todo \intersect MayLackHandler
    /\ Return("error")
    /\ UNCHANGED <<layer, todo, starting, ctxDone, closed, sem, gor, attempt, row, lost,
                   outputs, inputs, errs, good>>

\* The input is merged from the outputs of all upstream nodes that have one.
PrepareNode(n) ==
    /\ phase = "spawn"
    /\ n \in todo
    /\ inputs' = [inputs EXCEPT ![n] = Upstream(n) \intersect outputs]
    /\ CreateRow(n)
    /\ todo' = todo \ {n}
    /\ starting' = {n}
    /\ phase' = "acquire"
    /\ UNCHANGED <<layer, result, ctxDone, closed, sem, gor, attempt, outputs, errs, good>>

\* sem.Acquire under a context that is over.
AcquireError ==
    /\ phase = "acquire"
    /\ ctxDone
    /\ Return("error")
    /\ UNCHANGED <<layer, todo, starting, ctxDone, closed, sem, gor, attempt, row, lost,
                   outputs, inputs, errs, good>>

\* Mutant: no permit is waited for.
StartNodeUnbounded(n) ==
    /\ phase = "acquire"
    /\ ~ctxDone
    /\ n \in starting
    /\ sem' = sem + 1
    /\ gor' = [gor EXCEPT ![n] = "handler"]
    /\ attempt' = [attempt EXCEPT ![n] = 1]
    /\ starting' = {}
    /\ phase' = "spawn"
    /\ UNCHANGED <<layer, todo, result, ctxDone, closed, row, lost, outputs, inputs, errs, good>>

StartNode(n) ==
    /\ phase = "acquire"
    /\ ~ctxDone
    /\ n \in starting
    /\ sem < MaxConcurrency
    /\ sem' = sem + 1
    /\ gor' = [gor EXCEPT ![n] = "handler"]
    /\ attempt' = [attempt EXCEPT ![n] = 1]
    /\ starting' = {}
    /\ phase' = "spawn"
    /\ UNCHANGED <<layer, todo, result, ctxDone, closed, row, lost, outputs, inputs, errs, good>>

AllSpawned ==
    /\ phase = "spawn"
    /\ todo = {}
    /\ phase' = "wait"
    /\ UNCHANGED <<layer, todo, starting, result, ctxDone, closed, sem, gor, attempt,
                   row, lost, outputs, inputs, errs, good>>

\* wg.Wait, then the first error of the layer decides.
LayerFailed ==
    /\ phase = "wait"
    /\ Active = {}
    /\ errs # {}
    /\ Return("error")
    /\ UNCHANGED <<layer, todo, starting, ctxDone, closed, sem, gor, attempt, row, lost,
                   outputs, inputs, errs, good>>

\* Mutant: the loop goes on to the next layer without wg.Wait.
LayerDoneEarly ==
    /\ phase = "wait"
    /\ errs = {}
    /\ \/ layer < NumLayers /\ layer' = layer + 1 /\ phase' = "check" /\ UNCHANGED result
       \/ layer = NumLayers /\ Return("ok") /\ UNCHANGED layer
    /\ UNCHANGED <<todo, starting, ctxDone, closed, sem, gor, attempt, row, lost,
                   outputs, inputs, errs, good>>

LayerDone ==
    /\ phase = "wait"
    /\ Active = {}
    /\ errs = {}
    /\ \/ /\ layer < NumLayers
          /\ layer' = layer + 1
          /\ phase' = "check"
          /\ UNCHANGED result
       \/ /\ layer = NumLayers
          /\ Return("ok")
          /\ UNCHANGED layer
    /\ UNCHANGED <<todo, starting, ctxDone, closed, sem, gor, attempt, row, lost,
                   outputs, inputs, errs, good>>

MainStep ==
    \/ StopAtLayer \/ EnterLayer
    \/ \E n \in Nodes : NoHandler(n) \/ PrepareNode(n) \/ StartNode(n)
    \/ AcquireError \/ AllSpawned \/ LayerFailed \/ LayerDone

-----------------------------------------------------------------------------
(* The goroutine of a node.                                                *)

\* out, herr = handler(nc) with herr = nil; outputs[nodeID] = out.
HandlerOk(n) ==
    /\ gor[n] = "handler"
    /\ outputs' = outputs \union {n}
    /\ good' = good \union {n}
    /\ gor' = [gor EXCEPT ![n] = "succeeding"]
    /\ UNCHANGED <<loopVars, ctxDone, closed, sem, attempt, row, lost, errs>>

\* An error with attempts left: sleep, whether or not the context is over.
HandlerRetry(n) ==
    /\ gor[n] = "handler"
    /\ attempt[n] < MaxAttempts
    /\ gor' = [gor EXCEPT ![n] = "backoff"]
    /\ UNCHANGED <<loopVars, ctxDone, closed, sem, attempt, row, lost, outputs, errs, good>>

NextAttempt(n) ==
    /\ gor[n] = "backoff"
    /\ attempt' = [attempt EXCEPT ![n] = @ + 1]
    /\ UpdateRow(n, "running")
    /\ gor' = [gor EXCEPT ![n] = "handler"]
    /\ UNCHANGED <<loopVars, ctxDone, closed, sem, outputs, errs, good>>

\* Mutant: a node may be given up before its last attempt.
HandlerFailedEarly(n) ==
    /\ gor[n] = "handler"
    /\ outputs' = outputs \union {n}
    /\ gor' = [gor EXCEPT ![n] = "failing"]
    /\ UNCHANGED <<loopVars, ctxDone, closed, sem, attempt, row, lost, errs, good>>

\* The last attempt failed: a node that fails gets an (empty) output too.
HandlerFailed(n) ==
    /\ gor[n] = "handler"
    /\ attempt[n] = MaxAttempts
    /\ outputs' = outputs \union {n}
    /\ gor' = [gor EXCEPT ![n] = "failing"]
    /\ UNCHANGED <<loopVars, ctxDone, closed, sem, attempt, row, lost, errs, good>>

\* Leaving the goroutine: sem.Release and wg.Done.
Exit(n) ==
    /\ gor' = [gor EXCEPT ![n] = "exit"]
    /\ sem' = sem - 1

\* Mutant: the recovery of a panic forgets the step row.
HandlerPanicRowKept(n) ==
    /\ gor[n] = "handler"
    /\ n \in MayPanic
    /\ errs' = errs \union {n}
    /\ Exit(n)
    /\ UNCHANGED <<loopVars, ctxDone, closed, attempt, row, lost, outputs, good>>

\* Mutant: a panic keeps the permit of the semaphore.
HandlerPanicPermitKept(n) ==
    /\ gor[n] = "handler"
    /\ n \in MayPanic
    /\ UpdateRow(n, "failed")
    /\ errs' = errs \union {n}
    /\ gor' = [gor EXCEPT ![n] = "exit"]
    /\ UNCHANGED <<loopVars, ctxDone, closed, sem, attempt, outputs, good>>

HandlerPanic(n) ==
    /\ gor[n] = "handler"
    /\ n \in MayPanic
    /\ UpdateRow(n, "failed")
    /\ errs' = errs \union {n}
    /\ Exit(n)
    /\ UNCHANGED <<loopVars, ctxDone, closed, attempt, outputs, good>>

\* Mutant: a failed node reports no error to the layer.
CloseFailedSilently(n) ==
    /\ gor[n] = "failing"
    /\ UpdateRow(n, "failed")
    /\ Exit(n)
    /\ UNCHANGED <<loopVars, ctxDone, closed, attempt, outputs, errs, good>>

CloseFailed(n) ==
    /\ gor[n] = "failing"
    /\ UpdateRow(n, "failed")
    /\ errs' = errs \union {n}
    /\ Exit(n)
    /\ UNCHANGED <<loopVars, ctxDone, closed, attempt, outputs, good>>

CloseSucceeded(n) ==
    /\ gor[n] = "succeeding"
    /\ UpdateRow(n, "succeeded")
    /\ Exit(n)
    /\ UNCHANGED <<loopVars, ctxDone, closed, attempt, outputs, errs, good>>

NodeStep(n) ==
    \/ HandlerOk(n) \/ HandlerRetry(n) \/ NextAttempt(n) \/ HandlerFailed(n)
    \/ HandlerPanic(n) \/ CloseFailed(n) \/ CloseSucceeded(n)

-----------------------------------------------------------------------------
(* The caller, HandleRunTask.                                              *)

\* The 600 s run out, or the worker loses the task.
Timeout ==
    /\ MayTimeout
    /\ ~ctxDone
    /\ ctxDone' = TRUE
    /\ UNCHANGED <<loopVars, closed, sem, gor, attempt, row, lost, outputs, errs, good>>

\* HandleRunTask writes the run's outcome and returns: defer cancel().
CloseRun ==
    /\ phase = "returned"
    /\ ~closed
    /\ closed' = TRUE
    /\ ctxDone' = TRUE
    /\ UNCHANGED <<loopVars, sem, gor, attempt, row, lost, outputs, errs, good>>

Next == MainStep \/ Timeout \/ CloseRun \/ \E n \in Nodes : NodeStep(n)

Spec == Init /\ [][Next]_vars

\* Go schedules every goroutine that can run; a handler returns, as the
\* sleeps and the calls it makes do.
FairSpec ==
    /\ Spec
    /\ WF_vars(MainStep) /\ WF_vars(CloseRun)
    /\ \A n \in Nodes : WF_vars(NodeStep(n))

-----------------------------------------------------------------------------
(* Properties.                                                             *)

\* A node is given its input and started only after every node of the earlier
\* layers, its upstream nodes among them, has left its goroutine without an
\* error; it gets the output of every upstream node.
StartsAfterUpstream ==
    \A n \in Nodes : gor[n] # "none" =>
        /\ \A m \in Nodes : Depth[m] < Depth[n] => gor[m] = "exit" /\ m \in good
        /\ inputs[n] = Upstream(n)

\* The semaphore bounds the handlers in flight, across layers and panics.
BoundedConcurrency == Cardinality(Active) <= MaxConcurrency

\* Execute returns outputs only when every node of the DAG has succeeded.
OkMeansAllSucceeded == result = "ok" => good = Nodes

\* When Execute has waited for its last layer under a live context, whatever
\* failed or panicked, a step row is open only if a failed statement left it so:
\* its insert went unanswered or its closing update failed.
WaitedRowsAreClosed ==
    phase = "returned" /\ todo = {} /\ ~ctxDone =>
        \A n \in Nodes : row[n] = "running" => n \in lost

\* A step row never contradicts its node: it is closed as failed only after
\* the last attempt or a panic, as succeeded only after an attempt succeeded,
\* and then it stays as it is.
RowsTellTheTruth ==
    [][\A n \in Nodes :
         /\ row[n] \in {"succeeded", "failed"} => row'[n] = row[n]
         /\ row'[n] = "succeeded" => n \in good
         /\ row'[n] = "failed" => n \notin good
                /\ (attempt[n] = MaxAttempts \/ n \in MayPanic)]_vars

\* Execute returns and all its goroutines end: no goroutine waits for a
\* permit or an error slot that nobody gives back.
ExecutionEnds == <>[](closed /\ Active = {})
=============================================================================
