------------------------ MODULE PipelineRunProofs ------------------------
(***************************************************************************)
(* Theorems about PipelineRun, for every number of runs and workers, every *)
(* retry limit and every bound on the faults.                              *)
(***************************************************************************)
EXTENDS PipelineRun, FiniteSetTheorems, TLAPS

LEMMA TypeStep == TypeOK /\ [Next]_vars => TypeOK'
<1> SUFFICES ASSUME TypeOK, [Next]_vars PROVE TypeOK'
  OBVIOUS
<1> USE ConstantsAssumption DEF TypeOK, Statuses, Terminal, Faults, Strike, DbWorks,
        DbFails, Live, Goto, UpdateRunStatus, UpdateRunStatusIf, apiVars, taskVars, workerVars
<1>1. CASE EditPipeline
  BY <1>1 DEF EditPipeline
<1>2. ASSUME NEW r \in Runs, ApiStep(r) PROVE TypeOK'
  BY <1>2 DEF ApiStep, ApiCreateRun, ApiEnqueue, ApiEnqueueError, ApiCommit, ApiCommitError
<1>3. ASSUME NEW r \in Runs, Recover(r) PROVE TypeOK'
  BY <1>3 DEF Recover, RetryOrArchive
<1>4. ASSUME NEW r \in Runs, NEW w \in Workers, Dequeue(w, r) PROVE TypeOK'
  BY <1>4 DEF Dequeue
<1>5. ASSUME NEW w \in Workers, WorkerStep(w) PROVE TypeOK'
  <2> USE DEF ReturnNil, ReturnError, LeaveHandler, RetryOrArchive
  <2>1. CASE LoadRunError(w) BY <2>1 DEF LoadRunError
  <2>2. CASE LoadRunTerminal(w) BY <2>2 DEF LoadRunTerminal
  <2>3. CASE LoadRunOpen(w) BY <2>3 DEF LoadRunOpen
  <2>4. CASE LoadPipelineError(w) BY <2>4 DEF LoadPipelineError
  <2>5. CASE LoadPipeline(w) BY <2>5 DEF LoadPipeline
  <2>6. CASE ClaimWon(w)
    <3>1. on[w] \in Runs BY <2>6 DEF ClaimWon
    <3> QED BY <2>6, <3>1 DEF ClaimWon
  <2>7. CASE ClaimLost(w) BY <2>7 DEF ClaimLost
  <2>8. CASE ClaimError(w) BY <2>8 DEF ClaimError
  <2>9. CASE ExecuteDone(w) BY <2>9 DEF ExecuteDone
  <2>10. CASE SaveOutput(w) BY <2>10 DEF SaveOutput
  <2>11. CASE SaveSucceeded(w) BY <2>11 DEF SaveSucceeded
  <2>12. CASE SaveFailed(w) BY <2>12 DEF SaveFailed
  <2> QED BY <1>5, <2>1, <2>2, <2>3, <2>4, <2>5, <2>6, <2>7, <2>8, <2>9, <2>10, <2>11, <2>12
          DEF WorkerStep
<1>6. ASSUME NEW w \in Workers, Crash(w) \/ Expire(w) \/ Requeue(w) \/ CancelRequeued(w)
      PROVE TypeOK'
  <2>1. CASE Crash(w)
    <3>1. faults' \in [Faults -> Nat] BY <2>1 DEF Crash
    <3> QED BY <2>1, <3>1 DEF Crash, LeaveHandler
  <2>2. CASE Expire(w) BY <2>2 DEF Expire
  <2>3. CASE Requeue(w)
    <3>1. on[w] \in Runs BY <2>3 DEF Requeue
    <3> QED BY <2>3, <3>1 DEF Requeue
  <2>4. CASE CancelRequeued(w) BY <2>4 DEF CancelRequeued
  <2> QED BY <1>6, <2>1, <2>2, <2>3, <2>4
<1>7. CASE UNCHANGED vars
  BY <1>7 DEF vars
<1> QED BY <1>1, <1>2, <1>3, <1>4, <1>5, <1>6, <1>7 DEF Next

\* Every state of the system is well typed.
THEOREM TypeCorrect == Spec => []TypeOK
<1>1. Init => TypeOK
  BY ConstantsAssumption DEF Init, TypeOK, Statuses, Faults
<1> QED BY <1>1, TypeStep, PTL DEF Spec

-----------------------------------------------------------------------------
(* A run is claimed at most once. The row leaves "none" once, by the commit *)
(* of a request that commits once; it leaves "queued" for good.             *)

ClaimInv ==
    /\ \A r \in Runs :
          /\ api[r] # "done" => status[r] = "none"
          /\ status[r] \in {"none", "queued"} => claims[r] = 0
          /\ claims[r] <= 1
    /\ \A w \in Workers :
          pc[w] \notin {"idle", "loadRun"} => status[on[w]] # "none"

LEMMA ClaimInvHolds == Spec => []ClaimInv
<1>1. Init => ClaimInv
  BY DEF Init, ClaimInv
<1>2. TypeOK /\ ClaimInv /\ [Next]_vars => ClaimInv'
  <2> SUFFICES ASSUME TypeOK, ClaimInv, [Next]_vars PROVE ClaimInv'
    OBVIOUS
  <2> USE ConstantsAssumption DEF TypeOK, ClaimInv, Statuses, Terminal, Live, DbWorks,
          Goto, UpdateRunStatus, UpdateRunStatusIf, apiVars, taskVars, workerVars
  <2>1. CASE EditPipeline
    BY <2>1 DEF EditPipeline
  <2>2. ASSUME NEW r \in Runs, ApiStep(r) PROVE ClaimInv'
    BY <2>2 DEF ApiStep, ApiCreateRun, ApiEnqueue, ApiEnqueueError, ApiCommit, ApiCommitError
  <2>3. ASSUME NEW r \in Runs, Recover(r) PROVE ClaimInv'
    BY <2>3 DEF Recover
  <2>4. ASSUME NEW r \in Runs, NEW w \in Workers, Dequeue(w, r) PROVE ClaimInv'
    BY <2>4 DEF Dequeue
  <2>5. ASSUME NEW w \in Workers, WorkerStep(w) PROVE ClaimInv'
    <3>0. on[w] \in Runs
      BY <2>5 DEF WorkerStep, LoadRunError, LoadRunTerminal, LoadRunOpen, LoadPipelineError,
         LoadPipeline, ClaimWon, ClaimLost, ClaimError, ExecuteDone, SaveOutput,
         SaveSucceeded, SaveFailed
    <3> USE <3>0 DEF ReturnNil, ReturnError, LeaveHandler
    <3>1. CASE LoadRunError(w) BY <3>1 DEF LoadRunError
    <3>2. CASE LoadRunTerminal(w) BY <3>2 DEF LoadRunTerminal
    <3>3. CASE LoadRunOpen(w) BY <3>3 DEF LoadRunOpen
    <3>4. CASE LoadPipelineError(w) BY <3>4 DEF LoadPipelineError
    <3>5. CASE LoadPipeline(w) BY <3>5 DEF LoadPipeline
    <3>6. CASE ClaimWon(w) BY <3>6 DEF ClaimWon
    <3>7. CASE ClaimLost(w) BY <3>7 DEF ClaimLost
    <3>8. CASE ClaimError(w) BY <3>8 DEF ClaimError
    <3>9. CASE ExecuteDone(w) BY <3>9 DEF ExecuteDone
    <3>10. CASE SaveOutput(w) BY <3>10 DEF SaveOutput
    <3>11. CASE SaveSucceeded(w) BY <3>11 DEF SaveSucceeded
    <3>12. CASE SaveFailed(w) BY <3>12 DEF SaveFailed
    <3> QED BY <2>5, <3>1, <3>2, <3>3, <3>4, <3>5, <3>6, <3>7, <3>8, <3>9, <3>10, <3>11, <3>12
            DEF WorkerStep
  <2>6. ASSUME NEW w \in Workers, Crash(w) \/ Expire(w) \/ Requeue(w) \/ CancelRequeued(w)
        PROVE ClaimInv'
    BY <2>6 DEF Crash, LeaveHandler, Expire, Requeue, CancelRequeued
  <2>7. CASE UNCHANGED vars
    BY <2>7 DEF vars
  <2> QED BY <2>1, <2>2, <2>3, <2>4, <2>5, <2>6, <2>7 DEF Next
<1> QED BY <1>1, <1>2, TypeCorrect, PTL DEF Spec

\* However often a task is delivered and whatever fails on the way, at most
\* one delivery wins the compare-and-set of a run.
THEOREM ClaimedAtMostOnce == Spec => []ClaimedOnce
<1>1. ClaimInv => ClaimedOnce
  BY DEF ClaimInv, ClaimedOnce
<1> QED BY <1>1, ClaimInvHolds, PTL

-----------------------------------------------------------------------------
(* As long as no task was requeued under its handler, the row of a run is   *)
(* changed only by the one worker that holds the run's task; what this      *)
(* worker has read of the row stays true until it writes, so it never       *)
(* overwrites an outcome.                                                   *)

Holder ==
    /\ \A r \in Runs : api[r] \in {"idle", "inTx"} => task[r] = "none"
    /\ \A w \in Workers : ctx[w] # "requeued"
    /\ \A w \in Workers : ctx[w] = "held" =>
          /\ task[on[w]] = "active"
          /\ pc[w] \in {"loadPipeline", "claim"} =>
                status[on[w]] = seen[w] /\ seen[w] \in {"queued", "running"}
          /\ pc[w] = "claim" => status[on[w]] = "queued"
          /\ pc[w] \in {"execute", "saveOutput", "saveSucceeded"} => status[on[w]] = "running"
          /\ pc[w] = "saveFailed" => status[on[w]] \in {"queued", "running"}
    /\ \A v, w \in Workers :
          ctx[v] = "held" /\ ctx[w] = "held" /\ on[v] = on[w] => v = w

HolderInv == faults["requeue"] = 0 => Holder

\* A step that leaves no task requeued started from a state with none.
LEMMA RequeuesOnlyGrow ==
    ASSUME TypeOK, [Next]_vars, faults'["requeue"] = 0
    PROVE  faults["requeue"] = 0 /\ \A w \in Workers : ~Requeue(w)
<1> USE ConstantsAssumption DEF TypeOK, Faults, Strike
<1>1. \A f \in Faults : faults'[f] = faults[f] \/ faults'[f] = faults[f] + 1
  BY DEF Next, vars, EditPipeline, ApiStep, ApiCreateRun, ApiEnqueue, ApiEnqueueError, ApiCommit,
     ApiCommitError, Recover, Dequeue, WorkerStep, LoadRunError, LoadRunTerminal,
     LoadRunOpen, LoadPipelineError, LoadPipeline, ClaimWon, ClaimLost, ClaimError,
     ExecuteDone, SaveOutput, SaveSucceeded, SaveFailed, DbWorks, DbFails,
     Crash, Expire, Requeue, CancelRequeued, apiVars, taskVars, workerVars
<1>2. ASSUME NEW w \in Workers, Requeue(w) PROVE faults'["requeue"] = faults["requeue"] + 1
  BY <1>2 DEF Requeue
<1> QED BY <1>1, <1>2

LEMMA HolderInvHolds == Spec => []HolderInv
<1>1. Init => HolderInv
  BY ConstantsAssumption DEF Init, HolderInv, Holder, Faults
<1>2. TypeOK /\ ClaimInv /\ HolderInv /\ [Next]_vars => HolderInv'
  <2> SUFFICES ASSUME TypeOK, ClaimInv, Holder, [Next]_vars, \A w \in Workers : ~Requeue(w)
               PROVE  Holder'
    BY RequeuesOnlyGrow DEF HolderInv
  <2> USE ConstantsAssumption
      DEF TypeOK, Holder, Statuses, Terminal, Faults, Strike, Live, DbWorks,
          DbFails, Goto, UpdateRunStatus, UpdateRunStatusIf, apiVars, taskVars, workerVars
  <2>1. CASE EditPipeline
    BY <2>1 DEF EditPipeline
  <2>2. ASSUME NEW r \in Runs, ApiStep(r) PROVE Holder'
    <3> USE <2>2 DEF ClaimInv
    <3>1. CASE ApiCreateRun(r) BY <3>1 DEF ApiCreateRun
    <3>2. CASE ApiEnqueue(r) BY <3>2 DEF ApiEnqueue
    <3>3. CASE ApiEnqueueError(r) BY <3>3 DEF ApiEnqueueError
    <3>4. CASE ApiCommit(r) BY <3>4 DEF ApiCommit
    <3>5. CASE ApiCommitError(r) BY <3>5 DEF ApiCommitError
    <3> QED BY <3>1, <3>2, <3>3, <3>4, <3>5 DEF ApiStep
  <2>3. ASSUME NEW r \in Runs, Recover(r) PROVE Holder'
    BY <2>3 DEF Recover, RetryOrArchive
  <2>4. ASSUME NEW r \in Runs, NEW w \in Workers, Dequeue(w, r) PROVE Holder'
    BY <2>4 DEF Dequeue
  <2>5. ASSUME NEW w \in Workers, WorkerStep(w) PROVE Holder'
    <3>0. on[w] \in Runs
      BY <2>5 DEF WorkerStep, LoadRunError, LoadRunTerminal, LoadRunOpen, LoadPipelineError,
         LoadPipeline, ClaimWon, ClaimLost, ClaimError, ExecuteDone, SaveOutput,
         SaveSucceeded, SaveFailed
    <3> USE <3>0 DEF ReturnNil, ReturnError, LeaveHandler, RetryOrArchive
    <3>1. CASE LoadRunError(w) BY <3>1 DEF LoadRunError
    <3>2. CASE LoadRunTerminal(w) BY <3>2 DEF LoadRunTerminal
    <3>3. CASE LoadRunOpen(w) BY <3>3 DEF LoadRunOpen
    <3>4. CASE LoadPipelineError(w) BY <3>4 DEF LoadPipelineError
    <3>5. CASE LoadPipeline(w) BY <3>5 DEF LoadPipeline
    <3>6. CASE ClaimWon(w) BY <3>6 DEF ClaimWon
    <3>7. CASE ClaimLost(w) BY <3>7 DEF ClaimLost
    <3>8. CASE ClaimError(w) BY <3>8 DEF ClaimError
    <3>9. CASE ExecuteDone(w) BY <3>9 DEF ExecuteDone
    <3>10. CASE SaveOutput(w) BY <3>10 DEF SaveOutput
    <3>11. CASE SaveSucceeded(w) BY <3>11 DEF SaveSucceeded
    <3>12. CASE SaveFailed(w) BY <3>12 DEF SaveFailed
    <3> QED BY <2>5, <3>1, <3>2, <3>3, <3>4, <3>5, <3>6, <3>7, <3>8, <3>9, <3>10, <3>11, <3>12
            DEF WorkerStep
  <2>6. ASSUME NEW w \in Workers, Crash(w) \/ Expire(w) \/ Requeue(w) \/ CancelRequeued(w)
        PROVE Holder'
    <3>1. CASE Crash(w) BY <3>1 DEF Crash, LeaveHandler
    <3>2. CASE Expire(w) BY <3>2 DEF Expire
    <3>3. ~Requeue(w) OBVIOUS
    <3>4. CASE CancelRequeued(w) BY <3>4 DEF CancelRequeued
    <3> QED BY <2>6, <3>1, <3>2, <3>3, <3>4
  <2>7. CASE UNCHANGED vars
    BY <2>7 DEF vars
  <2> QED BY <2>1, <2>2, <2>3, <2>4, <2>5, <2>6, <2>7 DEF Next
<1> QED BY <1>1, <1>2, TypeCorrect, ClaimInvHolds, PTL DEF Spec

\* What a step of the system may do to the row of a run.
LEMMA RowMoves ==
    ASSUME TypeOK, ClaimInv, HolderInv, [Next]_vars
    PROVE  [Lifecycle!Next]_(Lifecycle!rvars)
<1> DEFINE Contested == faults["requeue"] > 0
<1> USE DEF Lifecycle!Next, Lifecycle!Accept, Lifecycle!Start, Lifecycle!Refuse,
           Lifecycle!Close, Lifecycle!CloseAgain, Lifecycle!Contest, Lifecycle!Move,
           Lifecycle!Set, Lifecycle!rvars, UpdateRunStatus, UpdateRunStatusIf
<1>0. faults["requeue"] \in Nat /\ faults'["requeue"] \in Nat
  BY TypeStep DEF TypeOK, Faults
<1>1. ASSUME NEW r \in Runs, ApiCommit(r) PROVE [Lifecycle!Next]_(Lifecycle!rvars)
  BY <1>1 DEF ApiCommit, ClaimInv
<1>2. ASSUME NEW w \in Workers, ClaimWon(w) \/ ClaimError(w) \/ SaveSucceeded(w) \/ SaveFailed(w)
      PROVE [Lifecycle!Next]_(Lifecycle!rvars)
  <2>0. /\ on[w] \in Runs /\ status[on[w]] # "none"
        /\ faults'["requeue"] = faults["requeue"]
    BY <1>2 DEF ClaimWon, ClaimError, SaveSucceeded, SaveFailed, TypeOK, ClaimInv,
                DbWorks, DbFails, Strike, Faults
  <2>1. faults["requeue"] = 0 => ctx[w] \in {"held", "cancelled"}
    BY <1>2 DEF ClaimWon, ClaimError, SaveSucceeded, SaveFailed, TypeOK, HolderInv, Holder
  <2>2. CASE ClaimWon(w) BY <2>0, <2>2 DEF ClaimWon
  <2>3. CASE ClaimError(w) BY <2>0, <2>3 DEF ClaimError
  <2>4. CASE SaveSucceeded(w)
    <3>1. UNCHANGED status \/ status' = [status EXCEPT ![on[w]] = "succeeded"]
      BY <2>4 DEF SaveSucceeded
    <3>2. CASE faults["requeue"] = 0
      BY <2>0, <2>1, <2>4, <3>2 DEF SaveSucceeded, HolderInv, Holder, DbWorks, Live
    <3>3. CASE faults["requeue"] # 0
      BY <1>0, <2>0, <3>1, <3>3
    <3> QED BY <3>2, <3>3
  <2>5. CASE SaveFailed(w)
    <3>1. UNCHANGED status \/ status' = [status EXCEPT ![on[w]] = "failed"]
      BY <2>5 DEF SaveFailed
    <3>2. CASE faults["requeue"] = 0
      BY <2>0, <2>1, <2>5, <3>2 DEF SaveFailed, HolderInv, Holder, DbWorks, Live
    <3>3. CASE faults["requeue"] # 0
      BY <1>0, <2>0, <3>1, <3>3
    <3> QED BY <3>2, <3>3
  <2> QED BY <1>2, <2>2, <2>3, <2>4, <2>5
<1>3. ASSUME NEW w \in Workers, Requeue(w) PROVE [Lifecycle!Next]_(Lifecycle!rvars)
  <2>1. faults'["requeue"] = faults["requeue"] + 1
    BY <1>3 DEF Requeue, Strike, TypeOK, Faults
  <2> QED BY <1>0, <1>3, <2>1 DEF Requeue
<1>4. CASE UNCHANGED <<status, faults["requeue"]>>
  BY <1>4
<1>5. \/ UNCHANGED <<status, faults["requeue"]>>
      \/ \E r \in Runs : ApiCommit(r)
      \/ \E w \in Workers : \/ ClaimWon(w) \/ ClaimError(w) \/ SaveSucceeded(w)
                            \/ SaveFailed(w) \/ Requeue(w)
  BY DEF Next, vars, EditPipeline, ApiStep, ApiCreateRun, ApiEnqueue, ApiEnqueueError,
     ApiCommitError, Recover, Dequeue, WorkerStep, LoadRunError, LoadRunTerminal,
     LoadRunOpen, LoadPipelineError, LoadPipeline, ClaimLost, ExecuteDone, SaveOutput,
     Crash, Expire, CancelRequeued, Strike, DbWorks, DbFails, TypeOK, Faults
<1> QED BY <1>1, <1>2, <1>3, <1>4, <1>5

\* The system implements RunLifecycle: whatever is lost, retried or fails,
\* the row of every run is accepted, started and closed once, except that a
\* run requeued under its handler may be closed again.
THEOREM ImplementsLifecycle == Spec => FollowsLifecycle
<1>1. Init => Lifecycle!Init
  BY DEF Init, Lifecycle!Init, Faults
<1>2. TypeOK /\ ClaimInv /\ HolderInv /\ [Next]_vars => [Lifecycle!Next]_(Lifecycle!rvars)
  BY RowMoves
<1> QED BY <1>1, <1>2, TypeCorrect, ClaimInvHolds, HolderInvHolds, PTL
        DEF Spec, FollowsLifecycle, Lifecycle!Spec

\* The outcome of a run is never overwritten, as long as no task was requeued
\* under its handler.
THEOREM OutcomeIsFinal == Spec => FinalStatusIsFinal
<1>1. TypeOK /\ [Lifecycle!Next]_(Lifecycle!rvars) =>
        (faults["requeue"] = 0 => \A r \in Runs : status[r] \in Terminal => status'[r] = status[r])
  BY DEF Terminal, TypeOK, Lifecycle!Next, Lifecycle!Accept, Lifecycle!Start, Lifecycle!rvars,
     Lifecycle!Refuse, Lifecycle!Close, Lifecycle!CloseAgain, Lifecycle!Contest,
     Lifecycle!Move, Lifecycle!Set
<1>2. TypeOK /\ ClaimInv /\ HolderInv /\ [Next]_vars =>
        [faults["requeue"] = 0 =>
           \A r \in Runs : status[r] \in Terminal => status'[r] = status[r]]_vars
  BY <1>1, RowMoves
<1> QED BY <1>2, TypeCorrect, ClaimInvHolds, HolderInvHolds, PTL
        DEF Spec, FinalStatusIsFinal

-----------------------------------------------------------------------------
(* A succeeded run has its output. A worker that is about to write          *)
(* "succeeded" has written the output, or that write failed, or it has lost *)
(* its context and will write nothing at all.                               *)

OutputInv ==
    /\ \A r \in Runs : status[r] = "succeeded" => r \in output \/ faults["db"] > 0
    /\ \A w \in Workers : pc[w] = "saveSucceeded" /\ Live(w)
                             => on[w] \in output \/ faults["db"] > 0

\* No fault is ever taken back, and a step brings one at most.
LEMMA FaultsGrow ==
    ASSUME TypeOK, [Next]_vars
    PROVE  \/ UNCHANGED faults
           \/ \E f \in Faults : faults' = [faults EXCEPT ![f] = @ + 1]
<1> USE DEF Strike
<1> QED
  BY DEF Next, vars, EditPipeline, ApiStep, ApiCreateRun, ApiEnqueue, ApiEnqueueError, ApiCommit,
     ApiCommitError, Recover, Dequeue, WorkerStep, LoadRunError, LoadRunTerminal,
     LoadRunOpen, LoadPipelineError, LoadPipeline, ClaimWon, ClaimLost, ClaimError,
     ExecuteDone, SaveOutput, SaveSucceeded, SaveFailed, DbWorks, DbFails, Faults,
     Crash, Expire, Requeue, CancelRequeued, apiVars, taskVars, workerVars

LEMMA OutputInvHolds == Spec => []OutputInv
<1>1. Init => OutputInv
  BY DEF Init, OutputInv
<1>2. TypeOK /\ OutputInv /\ [Next]_vars => OutputInv'
  <2> SUFFICES ASSUME TypeOK, OutputInv, [Next]_vars PROVE OutputInv'
    OBVIOUS
  <2>0. /\ faults["db"] \in Nat /\ faults'["db"] \in Nat
        /\ faults'["db"] >= faults["db"]
    BY FaultsGrow DEF TypeOK, Faults
  <2> USE ConstantsAssumption
      DEF TypeOK, OutputInv, Statuses, Terminal, Faults, Live, DbWorks,
          Goto, UpdateRunStatus, UpdateRunStatusIf, apiVars, taskVars, workerVars
  <2>1. CASE EditPipeline
    BY <2>1 DEF EditPipeline
  <2>2. ASSUME NEW r \in Runs, ApiStep(r) PROVE OutputInv'
    BY <2>0, <2>2 DEF ApiStep, ApiCreateRun, ApiEnqueue, ApiEnqueueError, ApiCommit, ApiCommitError
  <2>3. ASSUME NEW r \in Runs, Recover(r) PROVE OutputInv'
    BY <2>3 DEF Recover
  <2>4. ASSUME NEW r \in Runs, NEW w \in Workers, Dequeue(w, r) PROVE OutputInv'
    BY <2>4 DEF Dequeue
  <2>5. ASSUME NEW w \in Workers, WorkerStep(w) PROVE OutputInv'
    <3> USE <2>0 DEF ReturnNil, ReturnError, LeaveHandler
    <3>1. CASE LoadRunError(w) BY <3>1 DEF LoadRunError
    <3>2. CASE LoadRunTerminal(w) BY <3>2 DEF LoadRunTerminal
    <3>3. CASE LoadRunOpen(w) BY <3>3 DEF LoadRunOpen
    <3>4. CASE LoadPipelineError(w) BY <3>4 DEF LoadPipelineError
    <3>5. CASE LoadPipeline(w) BY <3>5 DEF LoadPipeline
    <3>6. CASE ClaimWon(w) BY <3>6 DEF ClaimWon
    <3>7. CASE ClaimLost(w) BY <3>7 DEF ClaimLost
    <3>8. CASE ClaimError(w) BY <3>8 DEF ClaimError
    <3>9. CASE ExecuteDone(w) BY <3>9 DEF ExecuteDone
    <3>10. CASE SaveOutput(w) BY <3>10 DEF SaveOutput, DbFails, Strike
    <3>11. CASE SaveSucceeded(w) BY <3>11 DEF SaveSucceeded
    <3>12. CASE SaveFailed(w) BY <3>12 DEF SaveFailed
    <3> QED BY <2>5, <3>1, <3>2, <3>3, <3>4, <3>5, <3>6, <3>7, <3>8, <3>9, <3>10, <3>11, <3>12
            DEF WorkerStep
  <2>6. ASSUME NEW w \in Workers, Crash(w) \/ Expire(w) \/ Requeue(w) \/ CancelRequeued(w)
        PROVE OutputInv'
    BY <2>0, <2>6 DEF Crash, LeaveHandler, Expire, Requeue, CancelRequeued
  <2>7. CASE UNCHANGED vars
    BY <2>7 DEF vars
  <2> QED BY <2>1, <2>2, <2>3, <2>4, <2>5, <2>6, <2>7 DEF Next
<1> QED BY <1>1, <1>2, TypeCorrect, PTL DEF Spec

\* A run shown as succeeded has its output, unless a write failed: dying
\* between the two writes, or losing the task there, cannot break it.
THEOREM OutputsAreThere == Spec => []SucceededHasOutput
<1>1. OutputInv => SucceededHasOutput
  BY DEF OutputInv, SucceededHasOutput
<1> QED BY <1>1, OutputInvHolds, PTL

-----------------------------------------------------------------------------
(* A completed task has a closed run. asynq completes a task only when its  *)
(* holder returns nil: it found the run closed, or closed it, or failed to; *)
(* a holder that loses the claim has been requeued under another.           *)

ClosedInv ==
    \A r \in Runs : task[r] = "completed" /\ status[r] \notin Terminal
                        => faults["db"] > 0 \/ faults["requeue"] > 0

LEMMA ClosedInvHolds == Spec => []ClosedInv
<1>1. Init => ClosedInv
  BY DEF Init, ClosedInv
<1>2. TypeOK /\ HolderInv /\ ClaimInv /\ ClosedInv /\ [Next]_vars => ClosedInv'
  <2> SUFFICES ASSUME TypeOK, HolderInv, ClaimInv, ClosedInv, [Next]_vars,
                      faults'["db"] = 0, faults'["requeue"] = 0
               PROVE  ClosedInv'
    BY TypeStep DEF TypeOK, Faults, ClosedInv
  <2>0. /\ faults["db"] = 0 /\ faults["requeue"] = 0 /\ Holder
        /\ \A r \in Runs : task[r] = "completed" => status[r] \in Terminal
    BY FaultsGrow DEF TypeOK, Faults, ClosedInv, HolderInv
  <2>a. ASSUME NEW w \in Workers, DbFails(w) PROVE ~Live(w)
    BY <2>0, <2>a DEF DbFails, Strike, TypeOK, Faults
  <2> USE <2>0 DEF TypeOK, ClosedInv, Statuses, Terminal, Live, DbWorks,
          Goto, UpdateRunStatus, UpdateRunStatusIf, apiVars, taskVars, workerVars
  <2>1. CASE EditPipeline
    BY <2>1 DEF EditPipeline
  <2>2. ASSUME NEW r \in Runs, ApiStep(r) PROVE ClosedInv'
    BY <2>2 DEF ApiStep, ApiCreateRun, ApiEnqueue, ApiEnqueueError, ApiCommit, ApiCommitError,
                ClaimInv
  <2>3. ASSUME NEW r \in Runs, Recover(r) PROVE ClosedInv'
    BY <2>3 DEF Recover, RetryOrArchive
  <2>4. ASSUME NEW r \in Runs, NEW w \in Workers, Dequeue(w, r) PROVE ClosedInv'
    BY <2>4 DEF Dequeue
  <2>5. ASSUME NEW w \in Workers, WorkerStep(w) PROVE ClosedInv'
    <3> USE <2>a DEF ReturnNil, ReturnError, LeaveHandler, RetryOrArchive
    <3>1. CASE LoadRunError(w) BY <3>1 DEF LoadRunError
    <3>2. CASE LoadRunTerminal(w) BY <3>2 DEF LoadRunTerminal
    <3>3. CASE LoadRunOpen(w) BY <3>3 DEF LoadRunOpen
    <3>4. CASE LoadPipelineError(w) BY <3>4 DEF LoadPipelineError
    <3>5. CASE LoadPipeline(w) BY <3>5 DEF LoadPipeline
    <3>6. CASE ClaimWon(w) BY <3>6 DEF ClaimWon
    <3>7. CASE ClaimLost(w) BY <3>7 DEF ClaimLost, Holder
    <3>8. CASE ClaimError(w) BY <3>8 DEF ClaimError
    <3>9. CASE ExecuteDone(w) BY <3>9 DEF ExecuteDone
    <3>10. CASE SaveOutput(w) BY <3>10 DEF SaveOutput
    <3>11. CASE SaveSucceeded(w) BY <3>11 DEF SaveSucceeded
    <3>12. CASE SaveFailed(w) BY <3>12 DEF SaveFailed
    <3> QED BY <2>5, <3>1, <3>2, <3>3, <3>4, <3>5, <3>6, <3>7, <3>8, <3>9, <3>10, <3>11, <3>12
            DEF WorkerStep
  <2>6. ASSUME NEW w \in Workers, Crash(w) \/ Expire(w) \/ Requeue(w) \/ CancelRequeued(w)
        PROVE ClosedInv'
    BY <2>6 DEF Crash, LeaveHandler, Expire, Requeue, CancelRequeued
  <2>7. CASE UNCHANGED vars
    BY <2>7 DEF vars
  <2> QED BY <2>1, <2>2, <2>3, <2>4, <2>5, <2>6, <2>7 DEF Next
<1> QED BY <1>1, <1>2, TypeCorrect, HolderInvHolds, ClaimInvHolds, PTL DEF Spec

\* A task leaves the queue as completed only with its run closed, unless the
\* final write failed or a shutdown requeued the task under its handler.
THEOREM CompletedMeansClosed == Spec => []CompletedRunIsClosed
<1>1. ClosedInv => CompletedRunIsClosed
  BY DEF ClosedInv, CompletedRunIsClosed
<1> QED BY <1>1, ClosedInvHolds, PTL

-----------------------------------------------------------------------------
(* A repeated execution needs a fault. Every delivery under way and every   *)
(* task still in the queue may yet execute its run once, and is counted     *)
(* beforehand: a lost delivery goes back to the queue at the cost of the    *)
(* fault that lost it, and what a closed run is delivered for does not      *)
(* execute it.                                                              *)

Open(r) == status[r] \notin Terminal

\* The workers that may still execute r: on their way to it with a live
\* context while r is open, or having read r as running already.
AboutTo(r) ==
    {w \in Workers :
        /\ on[w] = r /\ Live(w)
        /\ \/ pc[w] = "loadPipeline" /\ seen[w] = "running"
           \/ Open(r) /\ pc[w] \in {"loadRun", "loadPipeline", "claim"}}

\* The task of r is still to be delivered.
Undelivered(r) ==
    \/ task[r] \in {"none", "pending"}
    \/ task[r] = "active" /\ \A w \in Workers : ~(on[w] = r /\ ctx[w] = "held")

Promised(r) == IF Open(r) /\ Undelivered(r) THEN 1 ELSE 0

Budget == faults["crash"] + faults["expire"] + faults["requeue"] + faults["db"]

\* At most one worker holds the task of a run, with or without requeues.
OneHolder ==
    /\ \A r \in Runs : api[r] \in {"idle", "inTx"} => task[r] = "none"
    /\ \A w \in Workers : ctx[w] = "held" => task[on[w]] = "active"
    /\ \A v, w \in Workers : ctx[v] = "held" /\ ctx[w] = "held" /\ on[v] = on[w] => v = w
    /\ \A w \in Workers : pc[w] = "loadPipeline" => seen[w] \in {"queued", "running"}

RepeatInv ==
    \A r \in Runs : /\ IsFiniteSet(AboutTo(r))
                    /\ execs[r] + Promised(r) + Cardinality(AboutTo(r)) <= 1 + Budget

LEMMA OneHolderHolds == Spec => []OneHolder
<1>1. Init => OneHolder
  BY DEF Init, OneHolder
<1>2. TypeOK /\ OneHolder /\ [Next]_vars => OneHolder'
  <2> SUFFICES ASSUME TypeOK, OneHolder, [Next]_vars PROVE OneHolder'
    OBVIOUS
  <2> USE DEF TypeOK, OneHolder, Goto, apiVars, taskVars, workerVars
  <2>1. CASE EditPipeline
    BY <2>1 DEF EditPipeline
  <2>2. ASSUME NEW r \in Runs, ApiStep(r) PROVE OneHolder'
    BY <2>2 DEF ApiStep, ApiCreateRun, ApiEnqueue, ApiEnqueueError, ApiCommit, ApiCommitError
  <2>3. ASSUME NEW r \in Runs, Recover(r) PROVE OneHolder'
    BY <2>3 DEF Recover, RetryOrArchive
  <2>4. ASSUME NEW r \in Runs, NEW w \in Workers, Dequeue(w, r) PROVE OneHolder'
    BY <2>4 DEF Dequeue
  <2>5. ASSUME NEW w \in Workers, WorkerStep(w) PROVE OneHolder'
    <3> USE ConstantsAssumption DEF ReturnNil, ReturnError, LeaveHandler, RetryOrArchive
    <3>1. CASE LoadRunError(w) BY <3>1 DEF LoadRunError
    <3>2. CASE LoadRunTerminal(w) BY <3>2 DEF LoadRunTerminal
    <3>3. CASE LoadRunOpen(w) BY <3>3 DEF LoadRunOpen
    <3>4. CASE LoadPipelineError(w) BY <3>4 DEF LoadPipelineError
    <3>5. CASE LoadPipeline(w) BY <3>5 DEF LoadPipeline
    <3>6. CASE ClaimWon(w) BY <3>6 DEF ClaimWon
    <3>7. CASE ClaimLost(w) BY <3>7 DEF ClaimLost
    <3>8. CASE ClaimError(w) BY <3>8 DEF ClaimError
    <3>9. CASE ExecuteDone(w) BY <3>9 DEF ExecuteDone
    <3>10. CASE SaveOutput(w) BY <3>10 DEF SaveOutput
    <3>11. CASE SaveSucceeded(w) BY <3>11 DEF SaveSucceeded
    <3>12. CASE SaveFailed(w) BY <3>12 DEF SaveFailed
    <3> QED BY <2>5, <3>1, <3>2, <3>3, <3>4, <3>5, <3>6, <3>7, <3>8, <3>9, <3>10, <3>11, <3>12
            DEF WorkerStep
  <2>6. ASSUME NEW w \in Workers, Crash(w) \/ Expire(w) \/ Requeue(w) \/ CancelRequeued(w)
        PROVE OneHolder'
    BY <2>6 DEF Crash, LeaveHandler, Expire, Requeue, CancelRequeued
  <2>7. CASE UNCHANGED vars
    BY <2>7 DEF vars
  <2> QED BY <2>1, <2>2, <2>3, <2>4, <2>5, <2>6, <2>7 DEF Next
<1> QED BY <1>1, <1>2, TypeCorrect, PTL DEF Spec

\* Taking an element away from a finite set, or adding one.
LEMMA Counting ==
    ASSUME NEW S, IsFiniteSet(S), NEW T, NEW x
    PROVE  /\ Cardinality(S) \in Nat
           /\ T \subseteq S \union {x} => IsFiniteSet(T) /\ Cardinality(T) \in Nat
                               /\ Cardinality(T) <= Cardinality(S) + 1
           /\ x \in S /\ T \subseteq S \ {x} => IsFiniteSet(T) /\ Cardinality(T) \in Nat
                               /\ Cardinality(T) <= Cardinality(S) - 1
<1>1. Cardinality(S) \in Nat
  BY FS_CardinalityType
<1>3. ASSUME T \subseteq S \union {x}
      PROVE  IsFiniteSet(T) /\ Cardinality(T) \in Nat /\ Cardinality(T) <= Cardinality(S) + 1
  <2>1. IsFiniteSet(S \union {x}) /\ Cardinality(S \union {x}) <= Cardinality(S) + 1
    BY <1>1, FS_AddElement
  <2>2. IsFiniteSet(T) /\ Cardinality(T) \in Nat /\ Cardinality(S \union {x}) \in Nat
        /\ Cardinality(T) <= Cardinality(S \union {x})
    BY <1>3, <2>1, FS_Subset, FS_CardinalityType
  <2> QED BY <1>1, <2>1, <2>2
<1>4. ASSUME x \in S, T \subseteq S \ {x}
      PROVE  IsFiniteSet(T) /\ Cardinality(T) \in Nat /\ Cardinality(T) <= Cardinality(S) - 1
  <2>1. IsFiniteSet(S \ {x}) /\ Cardinality(S \ {x}) = Cardinality(S) - 1
    BY <1>4, FS_RemoveElement
  <2>2. IsFiniteSet(T) /\ Cardinality(T) \in Nat /\ Cardinality(T) <= Cardinality(S \ {x})
    BY <1>4, <2>1, FS_Subset, FS_CardinalityType
  <2> QED BY <1>1, <2>1, <2>2
<1> QED BY <1>1, <1>3, <1>4

\* The five things a step may do to what is counted for a run.
Spare(r) == /\ execs'[r] = execs[r]
            /\ AboutTo(r)' \subseteq AboutTo(r)
            /\ Promised(r)' <= Promised(r) /\ Budget' >= Budget
Deliver(r, w) == /\ execs'[r] = execs[r]
                 /\ AboutTo(r)' \subseteq AboutTo(r) \union {w}
                 /\ Promised(r)' <= Promised(r) - 1 /\ Budget' >= Budget
Enter(r, w) == /\ execs'[r] = execs[r] + 1
               /\ w \in AboutTo(r) /\ AboutTo(r)' \subseteq AboutTo(r) \ {w}
               /\ Promised(r)' <= Promised(r) /\ Budget' >= Budget
GiveBack(r, w) == /\ execs'[r] = execs[r]
                  /\ w \in AboutTo(r) /\ AboutTo(r)' \subseteq AboutTo(r) \ {w}
                  /\ Promised(r)' <= Promised(r) + 1 /\ Budget' >= Budget
Lose(r) == /\ execs'[r] = execs[r]
           /\ AboutTo(r)' \subseteq AboutTo(r)
           /\ Promised(r)' <= Promised(r) + 1 /\ Budget' >= Budget + 1
Accounted(r) == \/ Spare(r) \/ Lose(r)
                \/ \E w \in Workers : Deliver(r, w) \/ Enter(r, w) \/ GiveBack(r, w)

LEMMA AccountedKeepsRepeatInv ==
    ASSUME TypeOK, TypeOK', RepeatInv, \A r \in Runs : Accounted(r)
    PROVE  RepeatInv'
<1> SUFFICES ASSUME NEW r \in Runs
             PROVE  /\ IsFiniteSet(AboutTo(r)')
                    /\ execs'[r] + Promised(r)' + Cardinality(AboutTo(r)') <= 1 + Budget'
  BY DEF RepeatInv
<1> DEFINE Kept == /\ IsFiniteSet(AboutTo(r)')
                   /\ execs'[r] + Promised(r)' + Cardinality(AboutTo(r)') <= 1 + Budget'
<1>1. /\ IsFiniteSet(AboutTo(r)) /\ Cardinality(AboutTo(r)) \in Nat
      /\ execs[r] + Promised(r) + Cardinality(AboutTo(r)) <= 1 + Budget
  BY FS_CardinalityType DEF RepeatInv
<1>2. /\ execs[r] \in Nat /\ execs'[r] \in Nat /\ Budget \in Nat /\ Budget' \in Nat
      /\ Promised(r) \in 0..1 /\ Promised(r)' \in 0..1
  BY DEF TypeOK, Faults, Budget, Promised
<1>3. ASSUME AboutTo(r)' \subseteq AboutTo(r)
      PROVE  /\ IsFiniteSet(AboutTo(r)') /\ Cardinality(AboutTo(r)') \in Nat
             /\ Cardinality(AboutTo(r)') <= Cardinality(AboutTo(r))
  BY <1>1, <1>3, FS_Subset, FS_CardinalityType
<1>4. CASE Spare(r) BY <1>1, <1>2, <1>3, <1>4 DEF Spare
<1>5. CASE Lose(r) BY <1>1, <1>2, <1>3, <1>5 DEF Lose
<1>6. ASSUME NEW w \in Workers, Deliver(r, w) PROVE Kept
  BY <1>1, <1>2, <1>6, Counting DEF Deliver
<1>7. ASSUME NEW w \in Workers, w \in AboutTo(r), AboutTo(r)' \subseteq AboutTo(r) \ {w}
      PROVE  /\ IsFiniteSet(AboutTo(r)') /\ Cardinality(AboutTo(r)') \in Nat
             /\ Cardinality(AboutTo(r)') <= Cardinality(AboutTo(r)) - 1
  BY <1>1, <1>7, Counting
<1>8. ASSUME NEW w \in Workers, Enter(r, w) PROVE Kept
  BY <1>1, <1>2, <1>7, <1>8 DEF Enter
<1>9. ASSUME NEW w \in Workers, GiveBack(r, w) PROVE Kept
  BY <1>1, <1>2, <1>7, <1>9 DEF GiveBack
<1>10. CASE \E w \in Workers : Deliver(r, w) \/ Enter(r, w) \/ GiveBack(r, w)
  <2>1. PICK w \in Workers : Deliver(r, w) \/ Enter(r, w) \/ GiveBack(r, w)
    BY <1>10
  <2>2. CASE Deliver(r, w) BY <1>6, <2>2
  <2>3. CASE Enter(r, w) BY <1>8, <2>3
  <2>4. CASE GiveBack(r, w) BY <1>9, <2>4
  <2> QED BY <2>1, <2>2, <2>3, <2>4
<1> QED BY <1>4, <1>5, <1>10 DEF Accounted

LEMMA BudgetGrows ==
    ASSUME TypeOK, [Next]_vars
    PROVE  /\ Budget \in Nat /\ Budget' \in Nat /\ Budget' >= Budget
           /\ \A f \in {"crash", "expire", "requeue", "db"} :
                 faults' = [faults EXCEPT ![f] = @ + 1] => Budget' = Budget + 1
<1>1. faults \in [Faults -> Nat] /\ faults' \in [Faults -> Nat]
  BY TypeStep DEF TypeOK
<1>2. \A f \in Faults : faults'[f] >= faults[f]
  BY <1>1, FaultsGrow
<1> QED BY <1>1, <1>2 DEF Budget, Faults

\* A step of one worker leaves the other workers and the other runs alone.
Local(w) ==
    /\ \A v \in Workers \ {w} : /\ pc'[v] = pc[v] /\ on'[v] = on[v]
                                /\ ctx'[v] = ctx[v] /\ seen'[v] = seen[v]
    /\ on'[w] \in {on[w], NoRun}
    /\ \A r \in Runs \ {on[w]} : /\ status'[r] = status[r] /\ task'[r] = task[r]
                                 /\ execs'[r] = execs[r]

LEMMA OthersAreSpared ==
    ASSUME TypeOK, [Next]_vars, NEW w \in Workers, Local(w), NEW r \in Runs, r # on[w]
    PROVE  Spare(r)
<1>1. AboutTo(r)' \subseteq AboutTo(r)
  BY ConstantsAssumption DEF AboutTo, Live, Open, Local
<1>2. Undelivered(r)' => Undelivered(r)
  BY ConstantsAssumption DEF Undelivered, Local
<1>3. Promised(r)' <= Promised(r)
  BY <1>2 DEF Promised, Open, Local
<1> QED BY <1>1, <1>3, BudgetGrows DEF Spare, Local

LEMMA WorkerStepsAreAccounted ==
    ASSUME TypeOK, TypeOK', ClaimInv, OneHolder, [Next]_vars, NEW w \in Workers, WorkerStep(w)
    PROVE  \A r \in Runs : Accounted(r)
<1>0. on[w] \in Runs /\ pc[w] # "idle"
  BY DEF TypeOK, WorkerStep, LoadRunError, LoadRunTerminal, LoadRunOpen, LoadPipelineError,
     LoadPipeline, ClaimWon, ClaimLost, ClaimError, ExecuteDone, SaveOutput,
     SaveSucceeded, SaveFailed
<1>b. /\ Budget \in Nat /\ Budget' \in Nat /\ Budget' >= Budget
      /\ \A f \in {"crash", "expire", "requeue", "db"} :
            faults' = [faults EXCEPT ![f] = @ + 1] => Budget' = Budget + 1
  BY BudgetGrows
<1>l. Local(w) /\ (on'[w] = NoRun => pc'[w] = "idle")
  <2> USE <1>0 DEF Goto, apiVars, taskVars, workerVars, UpdateRunStatus, UpdateRunStatusIf,
          ReturnNil, ReturnError, LeaveHandler, RetryOrArchive, Local, TypeOK
  <2>1. CASE LoadRunError(w) BY <2>1 DEF LoadRunError
  <2>2. CASE LoadRunTerminal(w) BY <2>2 DEF LoadRunTerminal
  <2>3. CASE LoadRunOpen(w) BY <2>3 DEF LoadRunOpen
  <2>4. CASE LoadPipelineError(w) BY <2>4 DEF LoadPipelineError
  <2>5. CASE LoadPipeline(w) BY <2>5 DEF LoadPipeline
  <2>6. CASE ClaimWon(w) BY <2>6 DEF ClaimWon
  <2>7. CASE ClaimLost(w) BY <2>7 DEF ClaimLost
  <2>8. CASE ClaimError(w) BY <2>8 DEF ClaimError
  <2>9. CASE ExecuteDone(w) BY <2>9 DEF ExecuteDone
  <2>10. CASE SaveOutput(w) BY <2>10 DEF SaveOutput
  <2>11. CASE SaveSucceeded(w) BY <2>11 DEF SaveSucceeded
  <2>12. CASE SaveFailed(w) BY <2>12 DEF SaveFailed
  <2> QED BY <2>1, <2>2, <2>3, <2>4, <2>5, <2>6, <2>7, <2>8, <2>9, <2>10, <2>11, <2>12
          DEF WorkerStep
<1> SUFFICES ASSUME NEW r \in Runs, r = on[w] PROVE Accounted(r)
  BY <1>l, OthersAreSpared DEF Accounted
<1>p. /\ Promised(r) \in 0..1 /\ Promised(r)' \in 0..1
      /\ ~Open(r)' => Promised(r)' = 0
  BY DEF Promised
<1>m. Open(r)' => Open(r)
  BY <1>0 DEF WorkerStep, LoadRunError, LoadRunTerminal, LoadRunOpen, LoadPipelineError,
     LoadPipeline, ClaimWon, ClaimLost, ClaimError, ExecuteDone, SaveOutput, SaveSucceeded,
     SaveFailed, UpdateRunStatus, UpdateRunStatusIf, Open, Terminal, TypeOK
<1>n. /\ w \notin AboutTo(r)' => AboutTo(r)' \subseteq AboutTo(r) \ {w}
      /\ w \notin AboutTo(r)' \/ w \in AboutTo(r) => AboutTo(r)' \subseteq AboutTo(r)
      /\ pc'[w] \notin {"loadRun", "loadPipeline", "claim"} => w \notin AboutTo(r)'
  BY <1>l, <1>m DEF AboutTo, Live, Local
\* A step that leaves the task alone promises nothing.
<1>t. ASSUME task'[r] = task[r],
             (ctx'[w] = ctx[w] /\ on'[w] = on[w]) \/ ctx[w] # "held"
      PROVE  Promised(r)' <= Promised(r)
  <2>1. \A v \in Workers : on[v] = r /\ ctx[v] = "held" => on'[v] = r /\ ctx'[v] = "held"
    BY <1>l, <1>t DEF Local
  <2>2. Undelivered(r)' => Undelivered(r)
    BY <1>t, <2>1 DEF Undelivered
  <2> QED BY <1>m, <2>2 DEF Promised
\* A worker that returns an error without holding the task leaves the task alone.
<1>r. ReturnError(w) => /\ on'[w] = NoRun /\ pc'[w] = "idle"
                        /\ ctx[w] # "held" => Promised(r)' <= Promised(r)
  BY <1>0, <1>l, <1>t DEF ReturnError, LeaveHandler, taskVars, TypeOK
\* One that returns nil completes it, or leaves it alone.
<1>s. ReturnNil(w) => /\ on'[w] = NoRun /\ pc'[w] = "idle"
                      /\ Promised(r)' <= Promised(r)
  <2>1. ReturnNil(w) /\ ctx[w] = "held" => task'[r] = "completed"
    BY <1>0 DEF ReturnNil, TypeOK
  <2>2. ReturnNil(w) /\ ctx[w] = "held" => Promised(r)' = 0
    BY <2>1 DEF Promised, Undelivered
  <2> QED BY <1>0, <1>l, <1>p, <1>t, <2>2 DEF ReturnNil, LeaveHandler, taskVars, TypeOK
<1>1. CASE LoadRunError(w) \/ ClaimError(w)
  <2>1. /\ execs' = execs /\ ReturnError(w)
        /\ pc[w] \in {"loadRun", "claim"}
    BY <1>1 DEF LoadRunError, ClaimError
  <2>2. CASE w \in AboutTo(r)
    BY <2>1, <2>2, <1>n, <1>b, <1>p, <1>r DEF GiveBack, Accounted
  <2>3. CASE w \notin AboutTo(r)
    <3>1. ctx[w] # "held" \/ ~Open(r)
      BY <2>1, <2>3 DEF AboutTo, Live
    <3>2. Promised(r)' <= Promised(r)
      BY <2>1, <3>1, <1>m, <1>p, <1>r
    <3> QED BY <2>1, <3>2, <1>b, <1>n, <1>r DEF Spare, Accounted
  <2> QED BY <2>2, <2>3
<1>2. CASE LoadRunTerminal(w) \/ ClaimLost(w)
  BY <1>2, <1>b, <1>n, <1>s DEF LoadRunTerminal, ClaimLost, Spare, Accounted
<1>3. CASE LoadRunOpen(w)
  <2>1. w \in AboutTo(r)
    BY <1>3 DEF LoadRunOpen, AboutTo, DbWorks, Open, Terminal
  <2> QED BY <1>3, <2>1, <1>b, <1>n, <1>t DEF LoadRunOpen, taskVars, Spare, Accounted
<1>4. CASE LoadPipelineError(w)
  <2>1. pc'[w] = "saveFailed"
    BY <1>4 DEF LoadPipelineError, Goto, TypeOK
  <2> QED BY <1>4, <2>1, <1>b, <1>n, <1>t DEF LoadPipelineError, taskVars, Spare, Accounted
<1>5. CASE LoadPipeline(w)
  <2>1. Promised(r)' <= Promised(r)
    BY <1>5, <1>t DEF LoadPipeline, taskVars
  <2>2. CASE seen[w] = "queued"
    <3>1. execs' = execs /\ status' = status /\ pc'[w] = "claim" /\ ctx' = ctx
      BY <1>5, <2>2 DEF LoadPipeline, Goto, TypeOK
    <3>2. w \notin AboutTo(r)' \/ w \in AboutTo(r)
      BY <1>5, <3>1, <1>m DEF LoadPipeline, AboutTo, DbWorks, Live
    <3> QED BY <2>1, <3>1, <3>2, <1>b, <1>n DEF Spare, Accounted
  <2>3. CASE seen[w] # "queued"
    <3>1. pc'[w] = "execute" /\ execs'[r] = execs[r] + 1
      BY <1>5, <2>3 DEF LoadPipeline, Goto, TypeOK
    <3>2. w \in AboutTo(r)
      BY <1>5, <2>3 DEF LoadPipeline, AboutTo, DbWorks, OneHolder
    <3> QED BY <2>1, <3>1, <3>2, <1>b, <1>n DEF Enter, Accounted
  <2> QED BY <2>2, <2>3
<1>6. CASE ClaimWon(w)
  <2>1. pc'[w] = "execute" /\ execs'[r] = execs[r] + 1
    BY <1>6 DEF ClaimWon, Goto, TypeOK
  <2>2. w \in AboutTo(r)
    BY <1>6 DEF ClaimWon, AboutTo, DbWorks, Open, Terminal, UpdateRunStatusIf
  <2>3. Promised(r)' <= Promised(r)
    BY <1>6, <1>t DEF ClaimWon, taskVars
  <2> QED BY <2>1, <2>2, <2>3, <1>b, <1>n DEF Enter, Accounted
<1>7. CASE ExecuteDone(w) \/ SaveOutput(w)
  <2>1. pc'[w] \in {"saveFailed", "saveOutput", "saveSucceeded"}
    BY <1>7 DEF ExecuteDone, SaveOutput, Goto, TypeOK
  <2> QED BY <1>7, <2>1, <1>b, <1>n, <1>t DEF ExecuteDone, SaveOutput, taskVars, Spare, Accounted
<1>8. CASE SaveSucceeded(w)
  BY <1>8, <1>b, <1>n, <1>s DEF SaveSucceeded, Spare, Accounted
<1>9. CASE SaveFailed(w)
  <2>1. execs' = execs /\ ReturnError(w)
    BY <1>9 DEF SaveFailed
  <2>2. AboutTo(r)' \subseteq AboutTo(r)
    BY <2>1, <1>n, <1>r
  <2>3. CASE DbWorks(w) /\ UpdateRunStatus(on[w], "failed")
    <3>1. ~Open(r)'
      BY <2>3, <1>0 DEF UpdateRunStatus, Open, Terminal, TypeOK
    <3> QED BY <2>1, <2>2, <3>1, <1>b, <1>p DEF Spare, Accounted
  <2>4. CASE Live(w) /\ DbFails(w)
    <3>1. Budget' = Budget + 1
      BY <2>4, <1>b DEF DbFails, Strike
    <3> QED BY <2>1, <2>2, <3>1, <1>p DEF Lose, Accounted
  <2>5. CASE ~Live(w)
    BY <2>1, <2>2, <2>5, <1>b, <1>r DEF Live, Spare, Accounted
  <2> QED BY <1>9, <2>3, <2>4, <2>5 DEF SaveFailed
<1> QED BY <1>1, <1>2, <1>3, <1>4, <1>5, <1>6, <1>7, <1>8, <1>9 DEF WorkerStep

LEMMA StepsAreAccounted ==
    ASSUME TypeOK, TypeOK', ClaimInv, OneHolder, [Next]_vars
    PROVE  \A r \in Runs : Accounted(r)
<1>b. /\ Budget \in Nat /\ Budget' \in Nat /\ Budget' >= Budget
      /\ \A f \in {"crash", "expire", "requeue", "db"} :
            faults' = [faults EXCEPT ![f] = @ + 1] => Budget' = Budget + 1
  BY BudgetGrows
<1>p. \A r \in Runs : Promised(r) \in 0..1 /\ Promised(r)' \in 0..1
  BY DEF Promised
<1>1. CASE UNCHANGED <<status, task, pc, on, ctx, seen, execs>>
  BY <1>1, <1>b DEF Accounted, Spare, AboutTo, Live, Open, Promised, Undelivered
<1>2. ASSUME NEW q \in Runs, ApiStep(q) PROVE \A r \in Runs : Accounted(r)
  <2> SUFFICES ASSUME NEW r \in Runs PROVE Spare(r)
    BY DEF Accounted
  <2>1. /\ UNCHANGED <<pc, on, ctx, seen, execs>>
        /\ Open(r)' => Open(r)
        /\ task'[r] = task[r] \/ task[r] \in {"none", "pending"}
    <3> USE DEF workerVars, taskVars, Open, Terminal, TypeOK, OneHolder
    <3>1. CASE ApiCreateRun(q) BY <3>1 DEF ApiCreateRun
    <3>2. CASE ApiEnqueue(q) BY <3>2 DEF ApiEnqueue
    <3>3. CASE ApiEnqueueError(q) BY <3>3 DEF ApiEnqueueError
    <3>4. CASE ApiCommit(q) BY <3>4 DEF ApiCommit, ClaimInv
    <3>5. CASE ApiCommitError(q) BY <3>5 DEF ApiCommitError
    <3> QED BY <1>2, <3>1, <3>2, <3>3, <3>4, <3>5 DEF ApiStep
  <2> QED BY <2>1, <1>b DEF Spare, AboutTo, Live, Promised, Undelivered
<1>3. ASSUME NEW q \in Runs, Recover(q) PROVE \A r \in Runs : Accounted(r)
  <2> SUFFICES ASSUME NEW r \in Runs PROVE Spare(r)
    BY DEF Accounted
  <2>1. UNCHANGED <<status, pc, on, ctx, seen, execs>> /\ (Undelivered(r)' => Undelivered(r))
    BY <1>3 DEF Recover, RetryOrArchive, workerVars, Undelivered, TypeOK
  <2> QED BY <2>1, <1>b DEF Spare, AboutTo, Live, Open, Promised
<1>4. ASSUME NEW q \in Runs, NEW w \in Workers, Dequeue(w, q) PROVE \A r \in Runs : Accounted(r)
  <2> SUFFICES ASSUME NEW r \in Runs PROVE Accounted(r)
    OBVIOUS
  <2>1. /\ on[w] = NoRun /\ on'[w] = q /\ ctx'[w] = "held" /\ pc'[w] = "loadRun"
        /\ task[q] = "pending" /\ task'[q] = "active"
        /\ UNCHANGED <<status, seen, execs>>
        /\ \A v \in Workers \ {w} : pc'[v] = pc[v] /\ on'[v] = on[v] /\ ctx'[v] = ctx[v]
        /\ \A s \in Runs \ {q} : task'[s] = task[s]
    BY <1>4 DEF Dequeue, Goto, TypeOK
  <2>2. CASE r = q /\ Open(r)
    <3>1. AboutTo(r)' \subseteq AboutTo(r) \union {w}
      BY <2>1 DEF AboutTo, Live, Open
    <3>2. Promised(r) = 1 /\ Promised(r)' = 0
      BY <2>1, <2>2 DEF Promised, Undelivered, Open
    <3> QED BY <2>1, <3>1, <3>2, <1>b DEF Deliver, Accounted
  <2>3. CASE r # q \/ ~Open(r)
    <3>1. AboutTo(r)' \subseteq AboutTo(r)
      BY <2>1, <2>3 DEF AboutTo, Live, Open
    <3>2. Promised(r)' <= Promised(r)
      <4>1. CASE r # q BY <2>1, <4>1, ConstantsAssumption DEF Promised, Undelivered, Open
      <4>2. CASE ~Open(r) BY <2>1, <4>2, <1>p DEF Promised, Open
      <4> QED BY <2>3, <4>1, <4>2
    <3> QED BY <2>1, <3>1, <3>2, <1>b DEF Spare, Accounted
  <2> QED BY <2>2, <2>3
<1>5. ASSUME NEW w \in Workers, WorkerStep(w) PROVE \A r \in Runs : Accounted(r)
  BY <1>5, WorkerStepsAreAccounted
<1>6. ASSUME NEW w \in Workers, Crash(w) \/ Expire(w) \/ Requeue(w)
      PROVE  \A r \in Runs : Accounted(r)
  <2> SUFFICES ASSUME NEW r \in Runs PROVE Lose(r)
    BY DEF Accounted
  <2>1. Budget' = Budget + 1
    BY <1>6, <1>b DEF Crash, Expire, Requeue, Strike
  <2>2. AboutTo(r)' \subseteq AboutTo(r) /\ execs' = execs
    BY <1>6, ConstantsAssumption DEF Crash, Expire, Requeue, LeaveHandler, AboutTo, Live, Open,
                                     TypeOK
  <2> QED BY <2>1, <2>2, <1>p DEF Lose
<1>7. ASSUME NEW w \in Workers, CancelRequeued(w) PROVE \A r \in Runs : Accounted(r)
  <2> SUFFICES ASSUME NEW r \in Runs PROVE Spare(r)
    BY DEF Accounted
  <2>1. AboutTo(r)' \subseteq AboutTo(r)
    BY <1>7 DEF CancelRequeued, AboutTo, Live, Open, TypeOK
  <2>2. Promised(r)' <= Promised(r)
    BY <1>7 DEF CancelRequeued, Promised, Undelivered, Open, TypeOK, taskVars
  <2> QED BY <2>1, <2>2, <1>7, <1>b DEF CancelRequeued, Spare
<1>8. CASE EditPipeline \/ UNCHANGED vars
  BY <1>1, <1>8 DEF EditPipeline, vars, taskVars, workerVars
<1> QED BY <1>2, <1>3, <1>4, <1>5, <1>6, <1>7, <1>8 DEF Next

LEMMA RepeatInvHolds == Spec => []RepeatInv
<1>1. Init => RepeatInv
  <2> SUFFICES ASSUME Init, NEW r \in Runs
               PROVE  /\ IsFiniteSet(AboutTo(r))
                      /\ execs[r] + Promised(r) + Cardinality(AboutTo(r)) <= 1 + Budget
    BY DEF RepeatInv
  <2>1. AboutTo(r) = {} BY DEF Init, AboutTo
  <2>2. Promised(r) \in 0..1 BY DEF Promised
  <2> QED BY <2>1, <2>2, FS_EmptySet DEF Init, Budget, Faults
<1>2. TypeOK /\ ClaimInv /\ OneHolder /\ RepeatInv /\ [Next]_vars => RepeatInv'
  BY TypeStep, StepsAreAccounted, AccountedKeepsRepeatInv
<1> QED BY <1>1, <1>2, TypeCorrect, ClaimInvHolds, OneHolderHolds, PTL DEF Spec

\* Execute is entered a second time for a run only after a delivery was lost,
\* requeued or failed to write, and each of these costs at most one more.
THEOREM RepeatsAreCausedByFaults == Spec => []RepeatNeedsFault
<1>1. ASSUME TypeOK, RepeatInv, NEW r \in Runs PROVE execs[r] <= 1 + Budget
  <2>1. /\ Cardinality(AboutTo(r)) \in Nat
        /\ execs[r] + Promised(r) + Cardinality(AboutTo(r)) <= 1 + Budget
    BY <1>1, FS_CardinalityType DEF RepeatInv
  <2>2. Promised(r) \in 0..1 /\ execs[r] \in Nat /\ Budget \in Nat
    BY <1>1 DEF Promised, Budget, TypeOK, Faults
  <2> QED BY <2>1, <2>2
<1>2. TypeOK => 1 + Budget = 1 + faults["crash"] + faults["expire"]
                               + faults["requeue"] + faults["db"]
  <2>1. TypeOK => /\ faults["crash"] \in Nat /\ faults["expire"] \in Nat
                  /\ faults["requeue"] \in Nat /\ faults["db"] \in Nat
    BY DEF TypeOK, Faults
  <2> QED BY <2>1 DEF Budget
<1>3. TypeOK /\ RepeatInv => RepeatNeedsFault
  BY <1>1, <1>2 DEF RepeatNeedsFault
<1> QED BY <1>3, TypeCorrect, RepeatInvHolds, PTL
=============================================================================
