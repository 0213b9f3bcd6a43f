--------------------------- MODULE RunLifecycle ---------------------------
(***************************************************************************)
(* What a pipeline run promises to those who watch its row: accepted once, *)
(* started once, closed once, and never changed afterwards -- unless the   *)
(* task was handed on while its handler still ran: then two handlers may   *)
(* close the same run.                                                     *)
(***************************************************************************)
CONSTANT Runs
VARIABLES status,    \* what the row of each run shows
          contested  \* a task was handed on under a running handler

rvars == <<status, contested>>

Init == status = [r \in Runs |-> "none"] /\ contested = FALSE

Set(r, to) == status' = [status EXCEPT ![r] = to] /\ UNCHANGED contested
Move(r, from, to) == status[r] = from /\ Set(r, to)

Accept(r) == Move(r, "none", "queued")
Start(r) == Move(r, "queued", "running")
\* The pipeline is gone before the run starts.
Refuse(r) == Move(r, "queued", "failed")
Close(r) == Move(r, "running", "succeeded") \/ Move(r, "running", "failed")

Contest == contested' = TRUE /\ UNCHANGED status
CloseAgain(r) ==
    /\ contested /\ status[r] # "none"
    /\ Set(r, "succeeded") \/ Set(r, "failed")

Next == \/ \E r \in Runs : Accept(r) \/ Start(r) \/ Refuse(r) \/ Close(r) \/ CloseAgain(r)
        \/ Contest

Spec == Init /\ [][Next]_rvars
=============================================================================
