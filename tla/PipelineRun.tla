---------------------------- MODULE PipelineRun ----------------------------
(***************************************************************************)
(* The life of a pipeline run across the API process, the task queue and   *)
(* the workers.                                                            *)
(*                                                                         *)
(*  - pipelineService.Run (API) creates the pipeline_runs row and enqueues *)
(*    the task inside one database transaction: the task is visible to the *)
(*    workers before the row is committed.                                 *)
(*  - asynq (external) delivers the task at least once: a delivery whose   *)
(*    lease is lost, or whose process dies, is delivered again.            *)
(*  - pipelineService.HandleRunTask (worker) loads the run, loads the      *)
(*    pipeline, claims the run with a compare-and-set, executes the DAG    *)
(*    and writes the outcome back.                                         *)
(*                                                                         *)
(* The execution of the DAG is one step with any outcome here; DagRunner   *)
(* models it.                                                              *)
(***************************************************************************)
EXTENDS Naturals

CONSTANTS Runs,      \* the ids of the runs users start
          Workers,   \* the goroutines of the worker processes
          NoRun,     \* what an idle worker works on
          MaxRetry,  \* asynq.MaxRetry of the task
          Limit      \* how often each kind of fault may strike

Faults == {"api", "early", "db", "crash", "expire", "requeue"}

ASSUME ConstantsAssumption ==
    /\ NoRun \notin Runs
    /\ MaxRetry \in Nat
    /\ Limit \in [Faults -> Nat]

VARIABLES
    pipeline,  \* what the pipelines row holds
    api,       \* how far pipelineService.Run got with each run
    status,    \* the committed pipeline_runs.status ("none": no such row)
    output,    \* the runs whose pipeline_runs.output is set
    task,      \* the state of the run's task in asynq
    retried,   \* asynq's retry counter of the task
    pc,        \* where a worker is in HandleRunTask
    on,        \* the run a worker handles
    ctx,       \* the worker's hold on the task and its context
    seen,      \* run.Status as the worker read it
    nodes,     \* the workers that read a DAG with nodes
    claims,    \* history: how often queued -> running was won
    execs,     \* history: how often Execute was entered
    faults     \* history: how often each fault struck

apiVars == <<pipeline, api>>
taskVars == <<task, retried>>
workerVars == <<pc, on, ctx, seen, nodes>>
vars == <<pipeline, api, status, output, task, retried, pc, on, ctx, seen,
          nodes, claims, execs, faults>>

Terminal == {"succeeded", "failed"}
Statuses == {"none", "queued", "running"} \union Terminal

TypeOK ==
    /\ pipeline \in {"ok", "noNodes", "deleted"}
    /\ api \in [Runs -> {"idle", "inTx", "enqueued", "done", "error"}]
    /\ status \in [Runs -> Statuses]
    /\ output \subseteq Runs
    /\ task \in [Runs -> {"none", "pending", "active", "completed", "archived"}]
    /\ retried \in [Runs -> Nat]
    /\ pc \in [Workers -> {"idle", "loadRun", "loadPipeline", "claim", "execute",
                           "saveOutput", "saveSucceeded", "saveFailed"}]
    /\ on \in [Workers -> Runs \union {NoRun}]
    /\ \A w \in Workers : (pc[w] = "idle" <=> on[w] = NoRun)
                          /\ (pc[w] = "idle" <=> ctx[w] = "none")
    /\ ctx \in [Workers -> {"none", "held", "requeued", "cancelled"}]
    /\ seen \in [Workers -> Statuses]
    /\ nodes \subseteq Workers
    /\ claims \in [Runs -> Nat]
    /\ execs \in [Runs -> Nat]
    /\ faults \in [Faults -> Nat]

Init ==
    /\ pipeline = "ok"
    /\ api = [r \in Runs |-> "idle"]
    /\ status = [r \in Runs |-> "none"]
    /\ output = {}
    /\ task = [r \in Runs |-> "none"]
    /\ retried = [r \in Runs |-> 0]
    /\ pc = [w \in Workers |-> "idle"]
    /\ on = [w \in Workers |-> NoRun]
    /\ ctx = [w \in Workers |-> "none"]
    /\ seen = [w \in Workers |-> "none"]
    /\ nodes = {}
    /\ claims = [r \in Runs |-> 0]
    /\ execs = [r \in Runs |-> 0]
    /\ faults = [f \in Faults |-> 0]

\* One more fault of kind f strikes; Limit bounds how many may.
Strike(f) ==
    /\ faults[f] < Limit[f]
    /\ faults' = [faults EXCEPT ![f] = @ + 1]

-----------------------------------------------------------------------------
(* The API process.                                                        *)

\* A user saves a DAG without nodes (allowed by validateDAG), saves nodes
\* again, or deletes the pipeline.
EditPipeline ==
    /\ pipeline # "deleted"
    /\ pipeline' \in {"ok", "noNodes", "deleted"} \ {pipeline}
    /\ UNCHANGED <<api, status, output, taskVars, workerVars, claims, execs, faults>>

\* Run loads and validates the pipeline, opens the transaction and creates
\* the row, which nobody else can see yet.
ApiCreateRun(r) ==
    /\ api[r] = "idle"
    /\ pipeline = "ok"
    /\ api' = [api EXCEPT ![r] = "inTx"]
    /\ UNCHANGED <<pipeline, status, output, taskVars, workerVars, claims, execs, faults>>

\* The task is enqueued, under a TaskID of its own, before the commit.
ApiEnqueue(r) ==
    /\ api[r] = "inTx"
    /\ api' = [api EXCEPT ![r] = "enqueued"]
    /\ task' = [task EXCEPT ![r] = "pending"]
    /\ UNCHANGED <<pipeline, status, output, retried, workerVars, claims, execs, faults>>

\* Enqueue reports an error, whether or not Redis kept the task. The "failed"
\* written for it is part of the transaction that the error rolls back.
ApiEnqueueError(r) ==
    /\ api[r] = "inTx"
    /\ Strike("api")
    /\ api' = [api EXCEPT ![r] = "error"]
    /\ \E t \in {"none", "pending"} : task' = [task EXCEPT ![r] = t]
    /\ UNCHANGED <<pipeline, status, output, retried, workerVars, claims, execs>>

ApiCommit(r) ==
    /\ api[r] = "enqueued"
    /\ api' = [api EXCEPT ![r] = "done"]
    /\ status' = [status EXCEPT ![r] = "queued"]
    /\ UNCHANGED <<pipeline, output, taskVars, workerVars, claims, execs, faults>>

\* The commit fails, or the API process dies: the row is gone, the task stays.
ApiCommitError(r) ==
    /\ api[r] = "enqueued"
    /\ Strike("api")
    /\ api' = [api EXCEPT ![r] = "error"]
    /\ UNCHANGED <<pipeline, status, output, taskVars, workerVars, claims, execs>>

ApiStep(r) ==
    \/ ApiCreateRun(r)
    \/ ApiEnqueue(r)
    \/ ApiEnqueueError(r)
    \/ ApiCommit(r)
    \/ ApiCommitError(r)

-----------------------------------------------------------------------------
(* The worker: HandleRunTask, one step per database call.                  *)

\* The context of the handler is still good for database calls.
Live(w) == ctx[w] # "cancelled"

\* A database call of worker w fails: always once its context is cancelled,
\* otherwise only by a fault.
DbFails(w) ==
    IF Live(w) THEN Strike("db") ELSE UNCHANGED faults

DbWorks(w) == Live(w) /\ UNCHANGED faults

\* The repository's two ways to write the status of a run: whatever it is, and
\* only when it is the one expected.
UpdateRunStatus(r, s) == status' = [status EXCEPT ![r] = s]
UpdateRunStatusIf(r, from, to) == status[r] = from /\ UpdateRunStatus(r, to)

\* asynq retries a task until its retry limit, then archives it.
RetryOrArchive(r) ==
    IF retried[r] < MaxRetry
    THEN /\ task' = [task EXCEPT ![r] = "pending"]
         /\ retried' = [retried EXCEPT ![r] = @ + 1]
    ELSE /\ task' = [task EXCEPT ![r] = "archived"]
         /\ UNCHANGED retried

LeaveHandler(w) ==
    /\ pc' = [pc EXCEPT ![w] = "idle"]
    /\ on' = [on EXCEPT ![w] = NoRun]
    /\ ctx' = [ctx EXCEPT ![w] = "none"]
    /\ seen' = [seen EXCEPT ![w] = "none"]
    /\ nodes' = nodes \ {w}

\* The handler returns nil: the task is done, unless this delivery lost it.
ReturnNil(w) ==
    /\ LeaveHandler(w)
    /\ IF ctx[w] = "held"
       THEN task' = [task EXCEPT ![on[w]] = "completed"] /\ UNCHANGED retried
       ELSE UNCHANGED taskVars

\* The handler returns an error: asynq retries, unless this delivery lost it.
ReturnError(w) ==
    /\ LeaveHandler(w)
    /\ IF ctx[w] = "held" THEN RetryOrArchive(on[w]) ELSE UNCHANGED taskVars

Goto(w, place) == pc' = [pc EXCEPT ![w] = place]

Dequeue(w, r) ==
    /\ pc[w] = "idle"
    /\ task[r] = "pending"
    /\ task' = [task EXCEPT ![r] = "active"]
    /\ Goto(w, "loadRun")
    /\ on' = [on EXCEPT ![w] = r]
    /\ ctx' = [ctx EXCEPT ![w] = "held"]
    /\ UNCHANGED <<apiVars, status, output, retried, seen, nodes, claims, execs, faults>>

\* GetRun fails, or finds no row: the commit is still to come (bounded by
\* "early": asynq's back-off is far longer than a commit) or never comes.
LoadRunError(w) ==
    /\ pc[w] = "loadRun"
    /\ \/ DbFails(w)
       \/ /\ Live(w)
          /\ status[on[w]] = "none"
          /\ IF api[on[w]] = "enqueued" THEN Strike("early") ELSE UNCHANGED faults
    /\ ReturnError(w)
    /\ UNCHANGED <<apiVars, status, output, claims, execs>>

\* Mutant: a run found "running" is taken to be in another worker's hands.
LoadRunTerminalOrTaken(w) ==
    /\ pc[w] = "loadRun"
    /\ DbWorks(w)
    /\ status[on[w]] \in Terminal \union {"running"}
    /\ ReturnNil(w)
    /\ UNCHANGED <<apiVars, status, output, claims, execs>>

\* The run is already terminal: nothing to do.
LoadRunTerminal(w) ==
    /\ pc[w] = "loadRun"
    /\ DbWorks(w)
    /\ status[on[w]] \in Terminal
    /\ ReturnNil(w)
    /\ UNCHANGED <<apiVars, status, output, claims, execs>>

\* Mutant: "failed" is not treated as terminal, so a retry runs it again.
LoadRunOpenOrFailed(w) ==
    /\ pc[w] = "loadRun"
    /\ DbWorks(w)
    /\ status[on[w]] \in {"queued", "running", "failed"}
    /\ seen' = [seen EXCEPT ![w] = status[on[w]]]
    /\ Goto(w, "loadPipeline")
    /\ UNCHANGED <<apiVars, status, output, taskVars, on, ctx, nodes, claims, execs>>

LoadRunOpen(w) ==
    /\ pc[w] = "loadRun"
    /\ DbWorks(w)
    /\ status[on[w]] \in {"queued", "running"}
    /\ seen' = [seen EXCEPT ![w] = status[on[w]]]
    /\ Goto(w, "loadPipeline")
    /\ UNCHANGED <<apiVars, status, output, taskVars, on, ctx, nodes, claims, execs>>

\* Mutant: a run whose pipeline is gone is dropped without closing it.
LoadPipelineErrorDropped(w) ==
    /\ pc[w] = "loadPipeline"
    /\ DbFails(w) \/ (DbWorks(w) /\ pipeline = "deleted")
    /\ ReturnNil(w)
    /\ UNCHANGED <<apiVars, status, output, claims, execs>>

\* The pipeline cannot be read: the run is going to be marked failed.
LoadPipelineError(w) ==
    /\ pc[w] = "loadPipeline"
    /\ \/ DbFails(w)
       \/ DbWorks(w) /\ pipeline = "deleted"
    /\ Goto(w, "saveFailed")
    /\ UNCHANGED <<apiVars, status, output, taskVars, on, ctx, seen, nodes, claims, execs>>

\* Mutant: the run is executed without claiming it.
LoadPipelineUnclaimed(w) ==
    /\ pc[w] = "loadPipeline"
    /\ DbWorks(w)
    /\ pipeline # "deleted"
    /\ nodes' = IF pipeline = "ok" THEN nodes \union {w} ELSE nodes \ {w}
    /\ Goto(w, "execute")
    /\ execs' = [execs EXCEPT ![on[w]] = @ + 1]
    /\ UNCHANGED <<apiVars, status, output, taskVars, on, ctx, seen, claims>>

\* A run seen queued is claimed first; one seen running is executed (again).
LoadPipeline(w) ==
    /\ pc[w] = "loadPipeline"
    /\ DbWorks(w)
    /\ pipeline # "deleted"
    /\ nodes' = IF pipeline = "ok" THEN nodes \union {w} ELSE nodes \ {w}
    /\ \/ /\ seen[w] = "queued"
          /\ Goto(w, "claim")
          /\ UNCHANGED execs
       \/ /\ seen[w] # "queued"
          /\ Goto(w, "execute")
          /\ execs' = [execs EXCEPT ![on[w]] = @ + 1]
    /\ UNCHANGED <<apiVars, status, output, taskVars, on, ctx, seen, claims>>

\* UpdateRunStatusIf(queued -> running) changes the row.
ClaimWon(w) ==
    /\ pc[w] = "claim"
    /\ DbWorks(w)
    /\ UpdateRunStatusIf(on[w], "queued", "running")
    /\ claims' = [claims EXCEPT ![on[w]] = @ + 1]
    /\ execs' = [execs EXCEPT ![on[w]] = @ + 1]
    /\ Goto(w, "execute")
    /\ UNCHANGED <<apiVars, output, taskVars, on, ctx, seen, nodes>>

\* ... matches no row: another worker took the run.
ClaimLost(w) ==
    /\ pc[w] = "claim"
    /\ DbWorks(w)
    /\ status[on[w]] # "queued"
    /\ ReturnNil(w)
    /\ UNCHANGED <<apiVars, status, output, claims, execs>>

\* ... or reports an error. When the connection broke after the statement
\* the row has changed all the same.
ClaimError(w) ==
    /\ pc[w] = "claim"
    /\ DbFails(w)
    /\ \/ UNCHANGED <<status, claims>>
       \/ /\ Live(w)
          /\ UpdateRunStatusIf(on[w], "queued", "running")
          /\ claims' = [claims EXCEPT ![on[w]] = @ + 1]
    /\ ReturnError(w)
    /\ UNCHANGED <<apiVars, output, execs>>

\* Mutant: the output is not stored.
ExecuteDoneNoOutput(w) ==
    /\ pc[w] = "execute"
    /\ \/ Goto(w, "saveFailed")
       \/ w \in nodes /\ Goto(w, "saveSucceeded")
    /\ UNCHANGED <<apiVars, status, output, taskVars, on, ctx, seen, nodes,
                   claims, execs, faults>>

\* Execute returns: an error (a node failed, the 600 s ran out, the DAG has
\* no nodes) or the outputs.
ExecuteDone(w) ==
    /\ pc[w] = "execute"
    /\ \/ Goto(w, "saveFailed")
       \/ w \in nodes /\ Goto(w, "saveOutput")
    /\ UNCHANGED <<apiVars, status, output, taskVars, on, ctx, seen, nodes,
                   claims, execs, faults>>

\* The three final writes ignore their errors and carry no condition on the
\* row's current status.
SaveOutput(w) ==
    /\ pc[w] = "saveOutput"
    /\ \/ DbWorks(w) /\ output' = output \union {on[w]}
       \/ DbFails(w) /\ UNCHANGED output
    /\ Goto(w, "saveSucceeded")
    /\ UNCHANGED <<apiVars, status, taskVars, on, ctx, seen, nodes, claims, execs>>

SaveSucceeded(w) ==
    /\ pc[w] = "saveSucceeded"
    /\ \/ DbWorks(w) /\ UpdateRunStatus(on[w], "succeeded")
       \/ DbFails(w) /\ UNCHANGED status
    /\ ReturnNil(w)
    /\ UNCHANGED <<apiVars, output, claims, execs>>

SaveFailed(w) ==
    /\ pc[w] = "saveFailed"
    /\ \/ DbWorks(w) /\ UpdateRunStatus(on[w], "failed")
       \/ DbFails(w) /\ UNCHANGED status
    /\ ReturnError(w)
    /\ UNCHANGED <<apiVars, output, claims, execs>>

WorkerStep(w) ==
    \/ LoadRunError(w) \/ LoadRunTerminal(w) \/ LoadRunOpen(w)
    \/ LoadPipelineError(w) \/ LoadPipeline(w)
    \/ ClaimWon(w) \/ ClaimLost(w) \/ ClaimError(w)
    \/ ExecuteDone(w)
    \/ SaveOutput(w) \/ SaveSucceeded(w) \/ SaveFailed(w)

-----------------------------------------------------------------------------
(* asynq: how a delivery is lost and made again (external).                *)

\* The worker process dies.
Crash(w) ==
    /\ pc[w] # "idle"
    /\ Strike("crash")
    /\ LeaveHandler(w)
    /\ UNCHANGED <<apiVars, status, output, taskVars, claims, execs>>

\* The lease runs out: the handler's context is cancelled, its goroutine
\* goes on.
Expire(w) ==
    /\ ctx[w] = "held"
    /\ Strike("expire")
    /\ ctx' = [ctx EXCEPT ![w] = "cancelled"]
    /\ UNCHANGED <<apiVars, status, output, taskVars, pc, on, seen, nodes, claims, execs>>

\* The recoverer finds an active task that nobody holds.
Recover(r) ==
    /\ task[r] = "active"
    /\ \A w \in Workers : ~(on[w] = r /\ ctx[w] = "held")
    /\ RetryOrArchive(r)
    /\ UNCHANGED <<apiVars, status, output, workerVars, claims, execs, faults>>

\* Shutdown gives up waiting after ShutdownTimeout and puts the task back
\* before it cancels the handler's context.
Requeue(w) ==
    /\ ctx[w] = "held"
    /\ Strike("requeue")
    /\ ctx' = [ctx EXCEPT ![w] = "requeued"]
    /\ task' = [task EXCEPT ![on[w]] = "pending"]
    /\ UNCHANGED <<apiVars, status, output, retried, pc, on, seen, nodes, claims, execs>>

CancelRequeued(w) ==
    /\ ctx[w] = "requeued"
    /\ ctx' = [ctx EXCEPT ![w] = "cancelled"]
    /\ UNCHANGED <<apiVars, status, output, taskVars, pc, on, seen, nodes,
                   claims, execs, faults>>

Next ==
    \/ EditPipeline
    \/ \E r \in Runs : ApiStep(r) \/ Recover(r) \/ \E w \in Workers : Dequeue(w, r)
    \/ \E w \in Workers : WorkerStep(w) \/ Crash(w) \/ Expire(w)
                          \/ Requeue(w) \/ CancelRequeued(w)

Spec == Init /\ [][Next]_vars

\* A request in its transaction finishes it, the recoverer and a handler that
\* is running go on; the queue is first in, first out, so a pending task is
\* not passed over for ever. Users and faults owe nothing.
Fairness ==
    /\ \A r \in Runs : /\ WF_vars(ApiEnqueue(r) \/ ApiEnqueueError(r))
                       /\ WF_vars(ApiCommit(r) \/ ApiCommitError(r))
                       /\ WF_vars(Recover(r))
                       /\ SF_vars(\E w \in Workers : Dequeue(w, r))
    /\ \A w \in Workers : WF_vars(WorkerStep(w)) /\ WF_vars(CancelRequeued(w))

FairSpec == Spec /\ Fairness

-----------------------------------------------------------------------------
(* Properties.                                                             *)

\* UpdateRunStatusIf lets one delivery win queued -> running: however often
\* the task is delivered, a run is claimed at most once.
ClaimedOnce == \A r \in Runs : claims[r] <= 1

\* A run that was reported succeeded or failed keeps that status: asynq's
\* retry of a failed run finds it terminal and returns, and no delivery
\* overwrites the outcome of another. (Deliveries stop writing when they lose
\* the task, except the one a shutdown requeues under its handler.)
FinalStatusIsFinal ==
    [][faults["requeue"] = 0 =>
         \A r \in Runs : status[r] \in Terminal => status'[r] = status[r]]_vars

\* Execute is entered a second time for a run only after a delivery was lost
\* or a database write failed: each fault costs at most one more execution.
RepeatNeedsFault ==
    \A r \in Runs : execs[r] <= 1 + faults["crash"] + faults["expire"]
                                  + faults["requeue"] + faults["db"]

\* A task leaves the queue as completed only when its run is closed; the one
\* way out is the final write that failed and whose error is dropped.
CompletedRunIsClosed ==
    \A r \in Runs : task[r] = "completed" /\ status[r] \notin Terminal
                        => faults["db"] > 0 \/ faults["requeue"] > 0

\* A run shown as succeeded has its output, even when the worker dies
\* between the two writes, unless a write failed.
SucceededHasOutput ==
    \A r \in Runs : status[r] = "succeeded" => r \in output \/ faults["db"] > 0

Lifecycle == INSTANCE RunLifecycle WITH contested <- faults["requeue"] > 0

\* The row of a run goes through the life RunLifecycle describes, whatever
\* the deliveries do; a task requeued under its handler makes it contested.
FollowsLifecycle == Lifecycle!Spec

\* Every run a user was told of ends, as long as the deliveries lost are
\* fewer than asynq's retries, no database call fails and no shutdown requeues
\* the task under its handler.
EveryRunEnds ==
    \A r \in Runs : status[r] = "queued"
                      ~> status[r] \in Terminal \/ faults["db"] + faults["requeue"] > 0

=============================================================================
