------------------------------- MODULE FullVideo -------------------------------
(***************************************************************************)
(* One full video: fullVideoService (internal/service/full_video.go) and   *)
(* the video.compose node, which inserts a queued row and enqueues         *)
(* nothing.  Of the row the model keeps the status and the output; the     *)
(* name, the timeline, the cover and the progress figure are left out, and *)
(* so is what happens inside a composition, which may fail for many        *)
(* reasons and is otherwise one upload.  A request is one client, as in    *)
(* Review; a render task is one element of Renders.                        *)
(***************************************************************************)
EXTENDS Naturals

CONSTANTS
    Clients,
    Renders,      \* render tasks
    MaxRetry,     \* retries of a task after its first attempt
    NoFile        \* the empty output_url

VARIABLES
    video,        \* the row: [row, status, out]
    task,         \* each task: [st, pc, tries]
    vcall         \* what each client is doing: [pc, status, out]

VIdle == [pc |-> "idle", status |-> "none", out |-> NoFile]
VBegin(c, call) == vcall[c].pc = "idle" /\ vcall' = [vcall EXCEPT ![c] = call]
VEnd(c) == vcall' = [vcall EXCEPT ![c] = VIdle]
VAt(c, pc) == vcall[c].pc = pc
VGoto(c, pc) == vcall' = [vcall EXCEPT ![c].pc = pc]

Live == video.row = "live"

(* The writes of repo/full_video.go do nothing to a deleted row.           *)
UpdateStatus(status) == video' = IF Live THEN [video EXCEPT !.status = status] ELSE video
UpdateRow(status, out) ==
    video' = IF Live THEN [video EXCEPT !.status = status, !.out = out] ELSE video

(* An UpdateStatus whose error is dropped.                                 *)
TryStatus(status) == UpdateStatus(status) \/ UNCHANGED video

(* No video yet, or one that an earlier render finished.                   *)
VideoInit(earlier) ==
    /\ video \in {[row |-> "none", status |-> "none", out |-> NoFile],
                  [row |-> "live", status |-> "succeeded", out |-> earlier]}
    /\ task = [t \in Renders |-> [st |-> "none", pc |-> "idle", tries |-> 0]]
    /\ vcall = [c \in Clients |-> VIdle]

-------------------------------------------------------------------------------
(* Create inserts a draft, the node a row that looks queued.               *)
Create(status) ==
    /\ video.row = "none"
    /\ video' = [row |-> "live", status |-> status, out |-> NoFile]
    /\ UNCHANGED <<task, vcall>>

(* Update reads the row and writes all of it back.                         *)
UpdateRead(c) ==
    /\ Live
    /\ VBegin(c, [pc |-> "update", status |-> video.status, out |-> video.out])
    /\ UNCHANGED <<video, task>>

UpdateWrite(c) ==
    /\ VAt(c, "update")
    /\ UpdateRow(vcall[c].status, vcall[c].out)
    /\ VEnd(c)
    /\ UNCHANGED task

Delete ==
    /\ Live
    /\ video' = [video EXCEPT !.row = "deleted"]
    /\ UNCHANGED <<task, vcall>>

(* Render: look, mark queued whatever the status is, enqueue.              *)
RenderRead(c) ==
    /\ Live
    /\ VBegin(c, [VIdle EXCEPT !.pc = "queue"])
    /\ UNCHANGED <<video, task>>

RenderMark(c) ==
    /\ VAt(c, "queue")
    /\ TryStatus("queued")
    /\ VGoto(c, "enqueue")
    /\ UNCHANGED task

RenderEnqueue(c) ==
    /\ VAt(c, "enqueue")
    /\ \E t \in Renders :
         task[t].st = "none" /\ task' = [task EXCEPT ![t].st = "queued"]
    /\ VEnd(c)
    /\ UNCHANGED video

VAbandon(c) == vcall[c].pc # "idle" /\ VEnd(c) /\ UNCHANGED <<video, task>>

-------------------------------------------------------------------------------
(* HandleComposeTask.                                                      *)
Running(t, pc) == task[t].st = "running" /\ task[t].pc = pc
TGoto(t, pc) == task' = [task EXCEPT ![t].pc = pc]

Deliver(t) ==
    /\ task[t].st = "queued"
    /\ task' = [task EXCEPT ![t].st = "running", ![t].pc = "load"]
    /\ UNCHANGED <<video, vcall>>

Load(t) ==
    /\ Running(t, "load") /\ Live
    /\ TGoto(t, "start")
    /\ UNCHANGED <<video, vcall>>

(* The status is set at the start, and again with every progress report of *)
(* the concatenation.                                                      *)
MarkRunning(t) ==
    /\ Running(t, "start") \/ Running(t, "work")
    /\ TryStatus("running")
    /\ TGoto(t, "work")
    /\ UNCHANGED vcall

(* Bad timeline, no clips, no ffmpeg, no clip file, no directory, a failed *)
(* concatenation or upload.                                                *)
ComposeFails(t) ==
    /\ Running(t, "work")
    /\ TryStatus("failed")
    /\ TGoto(t, "failed")
    /\ UNCHANGED vcall

(* Not the code: only the status is written.                               *)
SaveStatusOnly(t) ==
    /\ Running(t, "work")
    /\ UpdateStatus("succeeded")
    /\ TGoto(t, "saved")
    /\ UNCHANGED vcall

(* The whole row goes back with the new output; nobody knows whether it    *)
(* changed since it was loaded.                                            *)
SaveOutput(t) ==
    /\ Running(t, "work")
    /\ UpdateRow("succeeded", t)
    /\ TGoto(t, "saved")
    /\ UNCHANGED vcall

Finish(t) ==
    /\ Running(t, "saved")
    /\ task' = [task EXCEPT ![t].st = "done", ![t].pc = "idle"]
    /\ UNCHANGED <<video, vcall>>

(* The attempt returns an error, or its worker dies: asynq delivers the    *)
(* task again until its retries are used up.                               *)
LoseAttempt(t) ==
    /\ task[t].st = "running"
    /\ task' = [task EXCEPT ![t] =
                  [st |-> IF @.tries < MaxRetry THEN "queued" ELSE "archived",
                   pc |-> "idle", tries |-> @.tries + 1]]
    /\ UNCHANGED <<video, vcall>>

-------------------------------------------------------------------------------
VideoStart(c) == UpdateRead(c) \/ RenderRead(c)
VideoStep(c) == UpdateWrite(c) \/ RenderMark(c) \/ RenderEnqueue(c) \/ VAbandon(c)
VideoAtOnce == Create("draft") \/ Create("queued") \/ Delete
Compose(t) ==
    \/ Deliver(t) \/ Load(t) \/ MarkRunning(t) \/ ComposeFails(t)
    \/ SaveOutput(t) \/ Finish(t) \/ LoseAttempt(t)

(* A video that says succeeded has an output: no order of renders, edits   *)
(* of a stale copy and status writes leaves that status on a row without   *)
(* a file (full_video.go:121-141, 394-423).                                *)
SucceededHasFile == video.status = "succeeded" => video.out # NoFile
===============================================================================
