-------------------------------- MODULE Release --------------------------------
(***************************************************************************)
(* A full video from its draft to the public list: rendering and editing   *)
(* (FullVideo), reviews (Review) and publication (publishService in        *)
(* internal/service/publish_service.go), which reads the other two.  The   *)
(* composition adds what they share: Submit and review.submit read the     *)
(* video, and review.submit writes its status.  A client does one call at  *)
(* a time, of any of the three services.                                   *)
(***************************************************************************)
EXTENDS Review

CONSTANTS Renders, MaxRetry, NoFile, Earlier,
          MaxCalls      \* bound on the requests and nodes of a behaviour

ASSUME FilesAssumption == NoFile \notin Renders \cup {Earlier}

VARIABLES video, task, vcall,
          publish,      \* the row: [st, count, checked]
          pcall,        \* what each client is doing to it
          spent         \* calls begun

INSTANCE FullVideo

videov == <<video, task, vcall>>
pvars == <<publish, pcall>>
vars == <<rvars, videov, pvars, spent>>

\* publish.checked: how many review records there were when the call that
\* published the video last found none of them pending; Unchecked if its look
\* failed.
Unchecked == -1
NotPublished == [st |-> "none", count |-> 0, checked |-> Unchecked]

PIdle == [pc |-> "idle", row |-> NotPublished]
PBegin(c, call) == pcall[c].pc = "idle" /\ pcall' = [pcall EXCEPT ![c] = call]
PEnd(c) == pcall' = [pcall EXCEPT ![c] = PIdle]
PAt(c, pc) == pcall[c].pc = pc
PGoto(c, pc) == pcall' = [pcall EXCEPT ![c].pc = pc]

Init ==
    /\ ReviewInit /\ VideoInit(Earlier)
    /\ publish = NotPublished
    /\ pcall = [c \in Clients |-> PIdle]
    /\ spent = 0

-------------------------------------------------------------------------------
(* Publish: the video has succeeded, no row is on, no review is pending.   *)
PublishRead(c) ==
    /\ Live /\ video.status = "succeeded"
    /\ PBegin(c, [PIdle EXCEPT !.pc = "look"])
    /\ UNCHANGED publish

PublishLook(c) ==
    /\ PAt(c, "look")
    /\ publish.st # "on"
    /\ PGoto(c, "review")
    /\ UNCHANGED publish

(* Not the code: only the newest record is looked at.                      *)
PublishReviewNewest(c) ==
    /\ PAt(c, "review")
    /\ \E checked \in {Len(records), Unchecked} :
         /\ checked > 0 => ~Pending(checked)
         /\ pcall' = [pcall EXCEPT ![c] =
                        [pc |-> "upsert",
                         row |-> [st |-> "on", count |-> 0, checked |-> checked]]]
    /\ UNCHANGED publish

(* GetActiveRecord returns pending records only.  An error of it, whatever *)
(* its cause, counts as none found.                                        *)
PublishReview(c) ==
    /\ PAt(c, "review")
    /\ \E checked \in {Len(records), Unchecked} :
         /\ checked # Unchecked => \A i \in DOMAIN records : ~Pending(i)
         /\ pcall' = [pcall EXCEPT ![c] =
                        [pc |-> "upsert",
                         row |-> [st |-> "on", count |-> 0, checked |-> checked]]]
    /\ UNCHANGED publish

(* Upsert writes every field of its row, the counters included.            *)
Upsert(row) == publish' = row

PublishUpsert(c) ==
    /\ PAt(c, "upsert")
    /\ Upsert(pcall[c].row)
    /\ PEnd(c)

(* Unpublish: off, unless it is off already.                               *)
UnpublishRead(c) ==
    /\ publish.st = "on"
    /\ PBegin(c, [PIdle EXCEPT !.pc = "off"])
    /\ UNCHANGED publish

UnpublishWrite(c) ==
    /\ PAt(c, "off")
    /\ publish' = [publish EXCEPT !.st = "off"]
    /\ PEnd(c)

(* IncPlay and IncDownload, each for a counter of its own; the model has   *)
(* one.                                                                    *)
CountRead(c) ==
    /\ publish.st = "on"
    /\ PBegin(c, [PIdle EXCEPT !.pc = "count"])
    /\ UNCHANGED publish

CountAdd(c) ==
    /\ PAt(c, "count")
    /\ publish' = [publish EXCEPT !.count = @ + 1]
    /\ PEnd(c)

(* UpdateWatermark reads the row and upserts all of it.                    *)
WatermarkRead(c) ==
    /\ publish.st # "none"
    /\ PBegin(c, [pc |-> "watermark", row |-> publish])
    /\ UNCHANGED publish

WatermarkUpsert(c) ==
    /\ PAt(c, "watermark")
    /\ Upsert(pcall[c].row)
    /\ PEnd(c)

PAbandon(c) == pcall[c].pc # "idle" /\ PEnd(c) /\ UNCHANGED publish

PublishStart(c) == PublishRead(c) \/ UnpublishRead(c) \/ CountRead(c) \/ WatermarkRead(c)
PublishStep(c) ==
    \/ PublishLook(c) \/ PublishReview(c) \/ PublishUpsert(c) \/ UnpublishWrite(c)
    \/ CountAdd(c) \/ WatermarkUpsert(c) \/ PAbandon(c)

-------------------------------------------------------------------------------
(* The composition.                                                        *)
Free(c) == rcall[c].pc = "idle" /\ vcall[c].pc = "idle" /\ pcall[c].pc = "idle"

(* Submit and review.submit begin with a look at the video.                *)
ReviewSees(c) == (rcall'[c].pc \in {"check", "node"}) => Live

(* review.submit ends with the status of the video.                        *)
ReviewMarks(c) ==
    IF NodeMark(c) THEN TryStatus("reviewing") ELSE UNCHANGED video

Spend == spent < MaxCalls /\ spent' = spent + 1

StartCall(c) ==
    /\ Free(c) /\ Spend
    /\ \/ ReviewStart(c) /\ ReviewSees(c) /\ UNCHANGED <<videov, pvars>>
       \/ VideoStart(c) /\ UNCHANGED <<rvars, pvars>>
       \/ PublishStart(c) /\ UNCHANGED <<rvars, videov>>

StepCall(c) ==
    /\ UNCHANGED spent
    /\ \/ ReviewStep(c) /\ ReviewMarks(c) /\ UNCHANGED <<task, vcall, pvars>>
       \/ VideoStep(c) /\ UNCHANGED <<rvars, pvars>>
       \/ PublishStep(c) /\ UNCHANGED <<rvars, videov>>

Next ==
    \/ \E c \in Clients : StartCall(c) \/ StepCall(c)
    \/ VideoAtOnce /\ Spend /\ UNCHANGED <<rvars, pvars>>
    \/ \E t \in Renders : Compose(t) /\ UNCHANGED <<rvars, pvars, spent>>

Spec == Init /\ [][Next]_vars

-------------------------------------------------------------------------------
Outputs == Renders \cup {NoFile, Earlier}
Statuses == {"none", "draft", "queued", "running", "succeeded", "failed", "reviewing"}

VideoRow == [row : {"none", "live", "deleted"}, status : Statuses, out : Outputs]
VideoCall == [pc : {"idle", "update", "queue", "enqueue"}, status : Statuses, out : Outputs]
PublishRow == [st : {"none", "on", "off"}, count : Nat, checked : Nat \cup {Unchecked}]
PublishCall == [pc : {"idle", "look", "review", "upsert", "off", "count", "watermark"},
                row : PublishRow]

TypeOK ==
    /\ ReviewTypeOK
    /\ video \in VideoRow /\ vcall \in [Clients -> VideoCall]
    /\ publish \in PublishRow /\ pcall \in [Clients -> PublishCall]

(* A video on the public list was put there by a call that saw every       *)
(* review opened before it looked ended; one pending now was opened later. *)
(* The exception is a look that failed, which the code takes for no review *)
(* (publish_service.go:80-85).  Neither a stale watermark edit nor a take- *)
(* down in between breaks this.                                            *)
OnSaleWasCleared ==
    publish.st = "on" =>
        \A i \in DOMAIN records : Pending(i) => i > publish.checked
===============================================================================
