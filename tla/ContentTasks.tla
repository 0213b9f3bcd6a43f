----------------------------- MODULE ContentTasks -----------------------------
(***************************************************************************)
(* The generation work on one script, one of its episodes and one          *)
(* storyboard: splitting the script, writing a prompt version, turning the *)
(* current prompt into storyboard rows, generating an image and a short    *)
(* video.  An actor does one of the five, either as an asynq task          *)
(* (internal/service/generation.go) or as a node of a pipeline             *)
(* (internal/pipeline/node_handlers.go); the two share the tables.  Each   *)
(* database statement or transaction and each model call is one action, so *)
(* actors interleave between them.                                         *)
(*                                                                         *)
(* A task that fails is retried by asynq, and so is one whose worker dies; *)
(* a node is retried by the runner of its pipeline, and a worker that dies *)
(* takes it along.  Statements fail as long as MaxFaults allows, and then  *)
(* have no effect.                                                         *)
(***************************************************************************)
EXTENDS Naturals, Sequences, FiniteSets

CONSTANTS
    Actors,       \* the tasks and node executions
    MaxRetry,     \* retries after the first attempt
    MaxFaults,    \* statements that fail and workers that die, together
    MaxEdits,     \* SetCurrent and Delete requests of users
    EpisodeLists, \* the episode numbers a model may answer a split with
    ShotLists     \* the shot numbers a generated prompt may list

ASSUME ContentAssumption ==
    /\ MaxRetry \in Nat /\ MaxFaults \in Nat /\ MaxEdits \in Nat
    /\ EpisodeLists \subseteq Seq(Nat)
    /\ \A shots \in ShotLists : shots \subseteq Nat /\ IsFiniteSet(shots)

VARIABLES
    keyed,        \* the tables have the unique keys of scripts/sql/001_init.sql
    act,          \* what each actor is: [mode, kind, st, tries]
    pc,           \* where its handler is
    mem,          \* what its handler remembers: [eps, ver, shots]
    removal,      \* how far the deletion of the script is
    script,       \* its status
    episodes,     \* its episode rows, the soft-deleted ones too
    unmarked,     \* a split attempt could not read the script or write its outcome
    prompts,      \* the prompt versions of the episode, by id
    current,      \* the ids of those with is_current = 1
    misaddressed, \* SetCurrent was called with the prompt of another episode
    boards,       \* the storyboard rows of the episode, soft-deleted ones too
    images,       \* the attempts that inserted an image row
    shorts,       \* short video rows
    logs,         \* model_invocations rows
    calls,        \* attempts of tasks whose media model answered with an asset
    faults, edits

work   == <<act, pc, mem>>
splitv == <<script, episodes, unmarked>>
promptv == <<prompts, current, misaddressed>>
mediav == <<images, shorts, logs, calls>>
contentVars == <<keyed, work, removal, splitv, promptv, boards, mediav, faults, edits>>

Modes == {"task", "node"}
Kinds == {"split", "prompt", "story", "image", "video"}

\* scriptService: uploaded, split, failed
Uploaded == 1
SplitOK  == 3
Failed   == 4

Forgotten == [eps |-> <<>>, ver |-> 0, shots |-> {}]
Idle == [mode |-> "task", kind |-> "split", st |-> "free", tries |-> 0]

(* A statement that takes effect, and one that fails.                      *)
Works  == UNCHANGED faults
Breaks == faults < MaxFaults /\ faults' = faults + 1

At(a, step) == act[a].st = "running" /\ pc[a] = step
Goto(a, step) == pc' = [pc EXCEPT ![a] = step]
IsTask(a) == act[a].mode = "task"
Doing(a, kind) == act[a].kind = kind
Attempt(a) == <<a, act[a].tries>>
Attempts == Actors \X (0..MaxRetry)

LiveEpisodes == {e \in episodes : e.live}
LiveBoards   == {b \in boards : b.live}
Buried(rows) == {[r EXCEPT !.live = FALSE] : r \in rows}

(***************************************************************************)
(* A script starts uploaded, or split before: one episode, with one prompt *)
(* version.                                                                *)
(***************************************************************************)
ContentInit ==
    /\ keyed \in BOOLEAN
    /\ act = [a \in Actors |-> Idle]
    /\ pc = [a \in Actors |-> "idle"]
    /\ mem = [a \in Actors |-> Forgotten]
    /\ removal = "none" /\ unmarked = FALSE /\ misaddressed = FALSE
    /\ \/ /\ script = Uploaded /\ episodes = {} /\ prompts = <<>> /\ current = {}
       \/ /\ script = SplitOK
          /\ episodes = {[no |-> 1, by |-> <<"import", 0>>, idx |-> 1, live |-> TRUE]}
          /\ prompts = <<[ver |-> 1, shots |-> {1}]>> /\ current = {1}
    /\ boards = {} /\ images = {} /\ shorts = {} /\ logs = {} /\ calls = {}
    /\ faults = 0 /\ edits = 0

ScriptExists == removal # "done"
EpisodeExists == \E e \in LiveEpisodes : e.by = <<"import", 0>>

(* Where a handler begins: the image task touches no table before the      *)
(* model call, the video task inserts its row first.                       *)
FirstStep(a) ==
    CASE IsTask(a) /\ Doing(a, "image") -> "ask"
      [] IsTask(a) /\ Doing(a, "video") -> "row"
      [] OTHER -> "fetch"

Enqueue(a, mode, kind) ==
    /\ act[a].st = "free"
    /\ act' = [act EXCEPT ![a] = [mode |-> mode, kind |-> kind,
                                  st |-> "queued", tries |-> 0]]
    /\ UNCHANGED <<keyed, edits, pc, mem, removal, splitv, promptv, boards,
                   mediav, faults>>

(* Split and Generate of the services enqueue a task; only two of the five *)
(* look at what it is about.                                               *)
SplitScript(a)        == ScriptExists /\ Enqueue(a, "task", "split")
GeneratePrompt(a)     == EpisodeExists /\ Enqueue(a, "task", "prompt")
GenerateStoryboard(a) == Enqueue(a, "task", "story")
GenerateImage(a)      == Enqueue(a, "task", "image")
GenerateVideo(a)      == Enqueue(a, "task", "video")

(* A node has no such call: its pipeline reaches it.                       *)
ReachNode(a) == \E kind \in Kinds : Enqueue(a, "node", kind)

(* A worker takes the task, or the runner enters the node.                 *)
Deliver(a) ==
    /\ act[a].st = "queued"
    /\ act' = [act EXCEPT ![a].st = "running"]
    /\ pc' = [pc EXCEPT ![a] = FirstStep(a)]
    /\ UNCHANGED <<keyed, edits, mem, removal, splitv, promptv, boards,
                   mediav, faults>>

-------------------------------------------------------------------------------
(* Splitting the script.                                                   *)

(* A script that cannot be read ends the attempt with its status as it was.*)
FetchScript(a) ==
    /\ Doing(a, "split") /\ At(a, "fetch")
    /\ \/ ScriptExists /\ Works /\ Goto(a, "ask") /\ UNCHANGED unmarked
       \/ /\ (~ScriptExists /\ Works) \/ Breaks
          /\ Goto(a, "err") /\ unmarked' = TRUE
    /\ UNCHANGED <<keyed, edits, act, mem, removal, script, episodes, promptv,
                   boards, mediav>>

(* An episode the model numbered 0, or not at all, gets its position.      *)
Numbered(list) == [i \in DOMAIN list |-> IF list[i] = 0 THEN i ELSE list[i]]

(* The model is unavailable or of another type, fails, or answers with no  *)
(* episode list; or it answers with one.  Only the task marks its failure. *)
AskSplit(a) ==
    /\ Doing(a, "split") /\ At(a, "ask")
    /\ \/ \E list \in EpisodeLists :
            /\ mem' = [mem EXCEPT ![a].eps = Numbered(list)]
            /\ Goto(a, "delete")
       \/ /\ Goto(a, IF IsTask(a) THEN "mark" ELSE "err")
          /\ UNCHANGED mem
    /\ UNCHANGED <<keyed, edits, act, removal, splitv, promptv, boards, mediav,
                   faults>>

(* Episodes are deleted softly: the rows stay, and their numbers with them.*)
(* The node goes on when the statement fails.                              *)
DeleteEpisodes(a) ==
    /\ Doing(a, "split") /\ At(a, "delete")
    /\ \/ /\ Works /\ episodes' = Buried(episodes)
          /\ Goto(a, "create")
       \/ /\ Breaks /\ UNCHANGED episodes
          /\ Goto(a, IF IsTask(a) THEN "mark" ELSE "create")
    /\ UNCHANGED <<keyed, edits, act, mem, removal, script, unmarked, promptv,
                   boards, mediav>>

(* The rows of one INSERT.  The unique key counts the deleted rows too.    *)
NewEpisodes(a) ==
    LET eps == mem[a].eps
    IN  {[no |-> eps[i], by |-> Attempt(a), idx |-> i, live |-> TRUE] :
            i \in DOMAIN eps}
EpisodeClash(new) ==
    /\ keyed
    /\ \/ \E e \in episodes, n \in new : e.no = n.no
       \/ \E m, n \in new : m # n /\ m.no = n.no

CreateEpisodesUnmarked(a) ==
    /\ Doing(a, "split") /\ At(a, "create")
    /\ \/ /\ ~EpisodeClash(NewEpisodes(a)) /\ Works
          /\ episodes' = episodes \cup NewEpisodes(a)
          /\ Goto(a, "status")
       \/ /\ (EpisodeClash(NewEpisodes(a)) /\ Works) \/ Breaks
          /\ UNCHANGED episodes
          /\ Goto(a, "err")
    /\ UNCHANGED <<keyed, edits, act, mem, removal, script, unmarked, promptv,
                   boards, mediav>>

CreateEpisodes(a) ==
    /\ Doing(a, "split") /\ At(a, "create")
    /\ \/ /\ ~EpisodeClash(NewEpisodes(a)) /\ Works
          /\ episodes' = episodes \cup NewEpisodes(a)
          /\ Goto(a, "status")
       \/ /\ (EpisodeClash(NewEpisodes(a)) /\ Works) \/ Breaks
          /\ UNCHANGED episodes
          /\ Goto(a, IF IsTask(a) THEN "mark" ELSE "err")
    /\ UNCHANGED <<keyed, edits, act, mem, removal, script, unmarked, promptv,
                   boards, mediav>>

(* UpdateStatus finds no row once the script is deleted; its error is only *)
(* logged.                                                                 *)
SetStatus(a, status, next) ==
    /\ \/ /\ Works /\ script' = (IF ScriptExists THEN status ELSE script)
          /\ UNCHANGED unmarked
       \/ Breaks /\ unmarked' = TRUE /\ UNCHANGED script
    /\ Goto(a, next)
    /\ UNCHANGED <<keyed, edits, act, mem, removal, episodes, promptv, boards,
                   mediav>>

MarkSplit(a) == /\ Doing(a, "split") /\ At(a, "status")
                /\ SetStatus(a, SplitOK, "ok")
MarkFailed(a) == /\ Doing(a, "split") /\ At(a, "mark")
                 /\ SetStatus(a, Failed, "err")

(* scriptService.Delete: the episodes, then the script, in no transaction. *)
DeleteScriptEpisodes ==
    /\ removal = "none" /\ edits < MaxEdits
    /\ edits' = edits + 1
    /\ removal' = "half" /\ episodes' = Buried(episodes)
    /\ UNCHANGED <<keyed, work, script, unmarked, promptv, boards, mediav,
                   faults>>
DeleteScript ==
    /\ removal = "half"
    /\ removal' = "done"
    /\ UNCHANGED <<keyed, edits, work, splitv, promptv, boards, mediav,
                   faults>>

-------------------------------------------------------------------------------
(* Writing a prompt version.                                               *)

FetchEpisode(a) ==
    /\ Doing(a, "prompt") /\ At(a, "fetch")
    /\ \/ EpisodeExists /\ Works /\ Goto(a, "ask")
       \/ ((~EpisodeExists /\ Works) \/ Breaks) /\ Goto(a, "err")
    /\ UNCHANGED <<keyed, edits, act, mem, removal, splitv, promptv, boards,
                   mediav>>

AskPrompt(a) ==
    /\ Doing(a, "prompt") /\ At(a, "ask")
    /\ \/ \E shots \in ShotLists : /\ mem' = [mem EXCEPT ![a].shots = shots]
                                   /\ Goto(a, "version")
       \/ Goto(a, "err") /\ UNCHANGED mem
    /\ UNCHANGED <<keyed, edits, act, removal, splitv, promptv, boards,
                   mediav, faults>>

MaxVersion == CHOOSE v \in 0..Len(prompts) :
                 /\ \A i \in DOMAIN prompts : prompts[i].ver <= v
                 /\ v = 0 \/ \E i \in DOMAIN prompts : prompts[i].ver = v

(* CreateAsCurrent reads the largest version without a lock, and takes 0   *)
(* when the read fails.                                                    *)
ReadVersion(a) ==
    /\ Doing(a, "prompt") /\ At(a, "version")
    /\ \/ Works /\ mem' = [mem EXCEPT ![a].ver = MaxVersion + 1]
       \/ Breaks /\ mem' = [mem EXCEPT ![a].ver = 1]
    /\ Goto(a, "save")
    /\ UNCHANGED <<keyed, edits, act, removal, splitv, promptv, boards,
                   mediav>>

CreateAsCurrentAfterOlder(a) ==
    LET taken == \E i \in DOMAIN prompts : prompts[i].ver = mem[a].ver
    IN  /\ Doing(a, "prompt") /\ At(a, "save")
        /\ \/ /\ ~(keyed /\ taken) /\ Works
              /\ prompts' = Append(prompts, [ver |-> mem[a].ver,
                                             shots |-> mem[a].shots])
              /\ current' = {i \in current : prompts[i].ver >= mem[a].ver}
                             \cup {Len(prompts')}
              /\ Goto(a, "ok")
           \/ /\ (keyed /\ taken /\ Works) \/ Breaks
              /\ UNCHANGED <<prompts, current>>
              /\ Goto(a, "err")
        /\ UNCHANGED <<keyed, edits, act, mem, removal, splitv, misaddressed,
                       boards, mediav>>

(* The rest of its transaction: no other version stays current.            *)
CreateAsCurrent(a) ==
    LET taken == \E i \in DOMAIN prompts : prompts[i].ver = mem[a].ver
    IN  /\ Doing(a, "prompt") /\ At(a, "save")
        /\ \/ /\ ~(keyed /\ taken) /\ Works
              /\ prompts' = Append(prompts, [ver |-> mem[a].ver,
                                             shots |-> mem[a].shots])
              /\ current' = {Len(prompts')}
              /\ Goto(a, "ok")
           \/ /\ (keyed /\ taken /\ Works) \/ Breaks
              /\ UNCHANGED <<prompts, current>>
              /\ Goto(a, "err")
        /\ UNCHANGED <<keyed, edits, act, mem, removal, splitv, misaddressed,
                       boards, mediav>>

(* SetCurrent clears the episode of the request and sets the prompt of the *)
(* request; nothing relates the two.                                       *)
SetCurrent(own, id) ==
    /\ edits < MaxEdits
    /\ edits' = edits + 1
    /\ current' = (IF own THEN {} ELSE current) \cup id
    /\ misaddressed' = (misaddressed \/ (~own /\ id # {}))
    /\ UNCHANGED <<keyed, work, removal, splitv, prompts, boards, mediav,
                   faults>>

-------------------------------------------------------------------------------
(* Turning the current prompt into storyboard rows.                        *)

(* GetCurrent takes the first current prompt; one without shots is refused.*)
FirstCurrent == CHOOSE i \in current : \A j \in current : i <= j
HasShots == \E i \in current : /\ \A j \in current : i <= j
                             /\ prompts[i].shots # {}

FetchPrompt(a) ==
    /\ Doing(a, "story") /\ At(a, "fetch")
    /\ \/ /\ HasShots /\ Works
          /\ mem' = [mem EXCEPT ![a].ver = FirstCurrent,
                                ![a].shots = prompts[FirstCurrent].shots]
          /\ Goto(a, IF IsTask(a) THEN "save" ELSE "delete")
       \/ /\ (~HasShots /\ Works) \/ Breaks
          /\ Goto(a, "err") /\ UNCHANGED mem
    /\ UNCHANGED <<keyed, edits, act, removal, splitv, promptv, boards,
                   mediav>>

NewBoards(a) == {[shot |-> n, prompt |-> mem[a].ver, by |-> Attempt(a), live |-> TRUE] :
                    n \in mem[a].shots}
ShotClash(a) == keyed /\ \E b \in boards : b.shot \in mem[a].shots

BulkSaveInTwo(a) ==
    /\ Doing(a, "story") /\ At(a, "save")
    /\ \/ /\ ~ShotClash(a) /\ Works
          /\ boards' = Buried(boards) \cup NewBoards(a)
          /\ Goto(a, "ok")
       \/ /\ (ShotClash(a) /\ Works) \/ Breaks
          /\ boards' = Buried(boards)
          /\ Goto(a, "err")
    /\ UNCHANGED <<keyed, edits, act, mem, removal, splitv, promptv, mediav>>

(* BulkSave: delete and insert in one transaction.                         *)
BulkSave(a) ==
    /\ Doing(a, "story") /\ At(a, "save")
    /\ \/ /\ ~ShotClash(a) /\ Works
          /\ boards' = Buried(boards) \cup NewBoards(a)
          /\ Goto(a, "ok")
       \/ /\ (ShotClash(a) /\ Works) \/ Breaks
          /\ UNCHANGED boards
          /\ Goto(a, "err")
    /\ UNCHANGED <<keyed, edits, act, mem, removal, splitv, promptv, mediav>>

(* The node does the same in two statements.                               *)
NodeDeleteBoards(a) ==
    /\ Doing(a, "story") /\ At(a, "delete")
    /\ \/ Works /\ boards' = Buried(boards) /\ Goto(a, "create")
       \/ Breaks /\ UNCHANGED boards /\ Goto(a, "err")
    /\ UNCHANGED <<keyed, edits, act, mem, removal, splitv, promptv, mediav>>
NodeCreateBoards(a) ==
    /\ Doing(a, "story") /\ At(a, "create")
    /\ \/ /\ ~ShotClash(a) /\ Works
          /\ boards' = boards \cup NewBoards(a)
          /\ Goto(a, "ok")
       \/ /\ (ShotClash(a) /\ Works) \/ Breaks
          /\ UNCHANGED boards
          /\ Goto(a, "err")
    /\ UNCHANGED <<keyed, edits, act, mem, removal, splitv, promptv, mediav>>

-------------------------------------------------------------------------------
(* Generating an image and a short video.                                  *)

Media(a) == Doing(a, "image") \/ Doing(a, "video")

(* A media node first loads its storyboard, which may be gone, and the     *)
(* video node its adapter.                                                 *)
NodeFetchBoard(a) ==
    /\ Media(a) /\ At(a, "fetch")
    /\ \/ LiveBoards # {} /\ Goto(a, IF Doing(a, "image") THEN "ask" ELSE "row")
       \/ Goto(a, "err")
    /\ UNCHANGED <<keyed, edits, act, mem, removal, splitv, promptv, boards,
                   mediav, faults>>

(* The video's placeholder row: every attempt inserts one of its own.      *)
CreateVideoRow(a) ==
    /\ Doing(a, "video") /\ At(a, "row")
    /\ \/ /\ Works
          /\ shorts' = shorts \cup
                {[by |-> Attempt(a), status |-> "running"]}
          /\ Goto(a, "ask")
       \/ Breaks /\ UNCHANGED shorts /\ Goto(a, "err")
    /\ UNCHANGED <<keyed, edits, act, mem, removal, splitv, promptv, boards,
                   images, logs, calls>>

(* The model is unavailable, of another type, fails or returns no asset;   *)
(* or it returns one, which from here on has to be paid for.               *)
AskImage(a) ==
    /\ Doing(a, "image") /\ At(a, "ask")
    /\ \/ /\ Goto(a, "save")
          /\ calls' = calls \cup {b \in {Attempt(a)} : IsTask(a)}
       \/ /\ Goto(a, IF IsTask(a) THEN "faillog" ELSE "err")
          /\ UNCHANGED calls
    /\ UNCHANGED <<keyed, edits, act, mem, removal, splitv, promptv, boards,
                   images, shorts, logs, faults>>
AskVideoUnmarked(a) ==
    /\ Doing(a, "video") /\ At(a, "ask")
    /\ \/ /\ Goto(a, "save")
          /\ calls' = calls \cup {b \in {Attempt(a)} : IsTask(a)}
       \/ Goto(a, IF IsTask(a) THEN "faillog" ELSE "err") /\ UNCHANGED calls
    /\ UNCHANGED <<keyed, edits, act, mem, removal, splitv, promptv, boards,
                   images, shorts, logs, faults>>

AskVideo(a) ==
    /\ Doing(a, "video") /\ At(a, "ask")
    /\ \/ /\ Goto(a, "save")
          /\ calls' = calls \cup {b \in {Attempt(a)} : IsTask(a)}
       \/ Goto(a, "mark") /\ UNCHANGED calls
    /\ UNCHANGED <<keyed, edits, act, mem, removal, splitv, promptv, boards,
                   images, shorts, logs, faults>>

SaveImageUnlogged(a) ==
    /\ Doing(a, "image") /\ At(a, "save")
    /\ \/ /\ Works
          /\ images' = images \cup {Attempt(a)}
          /\ Goto(a, "ok")
       \/ Breaks /\ UNCHANGED images /\ Goto(a, "err")
    /\ UNCHANGED <<keyed, edits, act, mem, removal, splitv, promptv, boards,
                   shorts, logs, calls>>

SaveImage(a) ==
    /\ Doing(a, "image") /\ At(a, "save")
    /\ \/ /\ Works
          /\ images' = images \cup {Attempt(a)}
          /\ Goto(a, IF IsTask(a) THEN "log" ELSE "ok")
       \/ Breaks /\ UNCHANGED images /\ Goto(a, "err")
    /\ UNCHANGED <<keyed, edits, act, mem, removal, splitv, promptv, boards,
                   shorts, logs, calls>>

OwnRow(a) == {r \in shorts : r.by = Attempt(a)}

(* The row is written back whole.  The node takes a failure for success.   *)
SaveVideo(a) ==
    /\ Doing(a, "video") /\ At(a, "save")
    /\ \/ /\ Works
          /\ shorts' = (shorts \ OwnRow(a)) \cup
                {[by |-> Attempt(a), status |-> "succeeded"]}
          /\ Goto(a, IF IsTask(a) THEN "log" ELSE "ok")
       \/ /\ Breaks /\ UNCHANGED shorts
          /\ Goto(a, IF IsTask(a) THEN "err" ELSE "ok")
    /\ UNCHANGED <<keyed, edits, act, mem, removal, splitv, promptv, boards,
                   images, logs, calls>>

(* A failed attempt marks its row; when that fails too, it is only logged. *)
MarkVideoFailed(a) ==
    /\ Doing(a, "video") /\ At(a, "mark")
    /\ \/ /\ Works
          /\ shorts' = (shorts \ OwnRow(a)) \cup
                {[r EXCEPT !.status = "failed"] : r \in OwnRow(a)}
       \/ Breaks /\ UNCHANGED shorts
    /\ Goto(a, IF IsTask(a) THEN "faillog" ELSE "err")
    /\ UNCHANGED <<keyed, edits, act, mem, removal, splitv, promptv, boards,
                   images, logs, calls>>

(* invocationService.Log: one row, or nothing when the insert fails.       *)
WriteLog(a, status) ==
    \/ Works /\ logs' = logs \cup {[by |-> Attempt(a), status |-> status]}
    \/ Breaks /\ UNCHANGED logs

LogUsage(a) ==
    /\ Media(a)
    /\ \/ At(a, "log") /\ WriteLog(a, "succeeded") /\ Goto(a, "ok")
       \/ At(a, "faillog") /\ WriteLog(a, "failed") /\ Goto(a, "err")
    /\ UNCHANGED <<keyed, edits, act, mem, removal, splitv, promptv, boards,
                   images, shorts, calls>>

-------------------------------------------------------------------------------
(* How an attempt ends.                                                    *)

Leave(a, st, tries) ==
    /\ act' = [act EXCEPT ![a].st = st, ![a].tries = tries]
    /\ pc' = [pc EXCEPT ![a] = "idle"]
    /\ mem' = [mem EXCEPT ![a] = Forgotten]

Retry(a) ==
    IF act[a].tries < MaxRetry THEN Leave(a, "queued", act[a].tries + 1)
                               ELSE Leave(a, "failed", act[a].tries)

Finish(a) ==
    /\ \/ At(a, "ok") /\ Leave(a, "done", act[a].tries)
       \/ At(a, "err") /\ Retry(a)
    /\ UNCHANGED <<keyed, edits, removal, splitv, promptv, boards, mediav,
                   faults>>

(* A worker that dies takes its handlers along: asynq retries the task, a  *)
(* node stays where it was.                                                *)
Crash(a) ==
    /\ act[a].st = "running" /\ Breaks
    /\ IF IsTask(a) THEN Retry(a) ELSE Leave(a, "lost", act[a].tries)
    /\ unmarked' = (unmarked \/ Doing(a, "split"))
    /\ UNCHANGED <<keyed, edits, removal, script, episodes, promptv, boards,
                   mediav>>

(* The ten handlers, and what each is made of.                             *)
SplitTask(a) ==
    /\ IsTask(a)
    /\ \/ FetchScript(a) \/ AskSplit(a) \/ DeleteEpisodes(a) \/ CreateEpisodes(a)
       \/ MarkSplit(a) \/ MarkFailed(a)
SplitNode(a) ==
    /\ ~IsTask(a)
    /\ \/ FetchScript(a) \/ AskSplit(a) \/ DeleteEpisodes(a) \/ CreateEpisodes(a)
       \/ MarkSplit(a)
WritePrompt(a) ==
    FetchEpisode(a) \/ AskPrompt(a) \/ ReadVersion(a) \/ CreateAsCurrent(a)
PromptTask(a) == IsTask(a) /\ WritePrompt(a)
PromptNode(a) == ~IsTask(a) /\ WritePrompt(a)
StoryTask(a)  == IsTask(a) /\ (FetchPrompt(a) \/ BulkSave(a))
StoryNode(a)  ==
    ~IsTask(a) /\ (FetchPrompt(a) \/ NodeDeleteBoards(a) \/ NodeCreateBoards(a))
ImageTask(a)  ==
    IsTask(a) /\ Doing(a, "image") /\ (AskImage(a) \/ SaveImage(a) \/ LogUsage(a))
ImageNode(a)  ==
    ~IsTask(a) /\ Doing(a, "image") /\ (NodeFetchBoard(a) \/ AskImage(a) \/ SaveImage(a))
VideoTask(a)  ==
    /\ IsTask(a) /\ Doing(a, "video")
    /\ CreateVideoRow(a) \/ AskVideo(a) \/ SaveVideo(a) \/ MarkVideoFailed(a) \/ LogUsage(a)
VideoNode(a)  ==
    /\ ~IsTask(a) /\ Doing(a, "video")
    /\ \/ NodeFetchBoard(a) \/ CreateVideoRow(a) \/ AskVideo(a) \/ SaveVideo(a)
       \/ MarkVideoFailed(a)

ContentNext ==
    \/ \E a \in Actors :
        \/ SplitScript(a) \/ GeneratePrompt(a) \/ GenerateStoryboard(a)
        \/ GenerateImage(a) \/ GenerateVideo(a) \/ ReachNode(a)
        \/ Deliver(a) \/ Finish(a) \/ Crash(a)
        \/ SplitTask(a) \/ PromptTask(a) \/ StoryTask(a) \/ ImageTask(a) \/ VideoTask(a)
        \/ SplitNode(a) \/ PromptNode(a) \/ StoryNode(a) \/ ImageNode(a) \/ VideoNode(a)
    \/ DeleteScriptEpisodes \/ DeleteScript
    \/ \E own \in BOOLEAN, id \in {{}} \cup {{i} : i \in DOMAIN prompts} :
            SetCurrent(own, id)

ContentSpec == ContentInit /\ [][ContentNext]_contentVars

-------------------------------------------------------------------------------
(* Properties.                                                             *)

(* The types of the tables and of the handlers' variables.                 *)
ContentTypeOK ==
    /\ keyed \in BOOLEAN /\ unmarked \in BOOLEAN /\ misaddressed \in BOOLEAN
    /\ act \in [Actors -> [mode : Modes, kind : Kinds, tries : 0..MaxRetry,
                           st : {"free", "queued", "running", "done", "failed", "lost"}]]
    /\ pc \in [Actors -> {"idle", "fetch", "ask", "delete", "create", "status", "mark",
                           "version", "save", "row", "log", "faillog", "ok", "err"}]
    /\ mem \in [Actors -> [eps : Seq(Nat), ver : Nat, shots : SUBSET Nat]]
    /\ removal \in {"none", "half", "done"}
    /\ script \in {Uploaded, SplitOK, Failed}
    /\ episodes \subseteq [no : Nat, by : (Actors \cup {"import"}) \X Nat, idx : Nat,
                            live : BOOLEAN]
    /\ prompts \in Seq([ver : Nat, shots : SUBSET Nat])
    /\ current \subseteq DOMAIN prompts
    /\ boards \subseteq [shot : Nat, prompt : Nat, by : Attempts, live : BOOLEAN]
    /\ images \subseteq Attempts /\ calls \subseteq Attempts
    /\ shorts \subseteq [by : Attempts, status : {"running", "succeeded", "failed"}]
    /\ logs \subseteq [by : Attempts, status : {"succeeded", "failed"}]
    /\ faults \in 0..MaxFaults
    /\ edits \in 0..MaxEdits

(* HandleSplitTask "marks failed on every failing branch, so the front end *)
(* can tell": while only one split works on a script, its settled outcome  *)
(* and the status agree, and a split that succeeded left the episodes of   *)
(* one whole answer.  Attempts that could not write their outcome are left *)
(* out: a dead worker, a lost status write, an unreadable script.          *)
LoneSplit(a) == /\ Doing(a, "split") /\ IsTask(a)
                /\ \A b \in Actors \ {a} : Doing(b, "split") => act[b].st = "free"
SplitStatusIsTrue ==
    \A a \in Actors : LoneSplit(a) /\ removal = "none" /\ ~unmarked =>
        /\ act[a].st = "done" =>
              /\ script = SplitOK
              /\ \E list \in EpisodeLists :
                    /\ Cardinality(LiveEpisodes) = Len(list)
                    /\ {e.no : e \in LiveEpisodes} = {Numbered(list)[i] : i \in DOMAIN list}
        /\ act[a].st = "failed" => script = Failed

(* BulkSave is transactional "so that an interruption between Delete and   *)
(* BulkCreate loses no data": as long as no pipeline node rewrites the     *)
(* storyboard, the live rows are the shots of one prompt, all of them, and *)
(* once there are rows there always are.                                   *)
StoryboardIsWhole ==
    (\A a \in Actors : Doing(a, "story") /\ ~IsTask(a) => act[a].st = "free") =>
        \/ boards = {}
        \/ \E i \in DOMAIN prompts :
              /\ \A b \in LiveBoards : b.prompt = i
              /\ LiveBoards # {}
              /\ {b.shot : b \in LiveBoards} = prompts[i].shots
              /\ Cardinality(LiveBoards) = Cardinality(prompts[i].shots)

(* "Only one row of an episode has is_current = 1", whatever prompt tasks, *)
(* nodes and SetCurrent calls interleave, unless a call named the prompt   *)
(* of another episode.                                                     *)
OneCurrentPrompt == ~misaddressed => Cardinality(current) <= 1

(* A short video that says "running" has a handler at work on it, or a     *)
(* crash or a failed statement to blame: no path of the handlers just      *)
(* forgets its placeholder.                                                *)
Working(a) == act[a].st = "running"
StrayVideos == {r \in shorts : r.status = "running" /\
                    \A a \in Actors : Working(a) => r.by # Attempt(a)}
NoVideoIsForgotten == Cardinality(StrayVideos) <= faults

(* Every asset a task got from a media model is on record in               *)
(* model_invocations, is about to be, or was lost to a crash or a failed   *)
(* statement.  (Nodes record nothing.)                                     *)
Unrecorded == {b \in calls : /\ [by |-> b, status |-> "succeeded"] \notin logs
                             /\ \A a \in Actors : Working(a) => b # Attempt(a)}
UsageIsRecorded == Cardinality(Unrecorded) <= faults

(* "Overwriting write": splitting a script again replaces its episodes.    *)
(* With no fault injected, a script whose episodes were not deleted with   *)
(* it keeps some once no split is at work.                                 *)
ResplitKeepsEpisodes ==
    /\ removal = "none" /\ faults = 0
    /\ \A a \in Actors : Doing(a, "split") => act[a].st # "running"
    /\ episodes # {}
    => LiveEpisodes # {}
=============================================================================
