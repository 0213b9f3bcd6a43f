# ai-script: verification project

ai-script turns scripts into short drama videos. Its backend (`src/backend`, Go)
is an HTTP API process and any number of worker processes around MySQL (GORM),
Redis and the task queue asynq; a React console (`src/frontend`) is its client.
This directory holds TLA+ modules that model the backend's concurrent and
stateful parts, TLC configurations that check them on small instances, and
proofs for TLAPS. Paths below are relative to `src/backend` unless they start
with another top-level directory.

Contents: [the system](#the-system), [modules](#modules), [what is
checked](#what-is-checked),
[disagreements](#disagreements-between-the-code-and-what-is-said-of-it) and
[observations](#observed-while-modelling), [what is proved](#what-is-proved), [what is only
checked](#what-is-only-model-checked), [what is not modelled](#what-is-not-modelled),
[plan](#plan), [running](#running).

## The system

Two kinds of process share everything through MySQL and Redis and nothing else:

    console ── HTTP ──> server ──(rows)──> MySQL <──(rows)── worker
                          │                                     │
                          ├──(tasks)──> Redis / asynq ──────────┤ delivers at least once
                          ├──(cache, limits, locks)──> Redis <──┤
                          └──(ws events)──> Redis pub/sub <─────┘

Hardly any operation holds a lock across statements. Most read a row, decide in
Go, and write in a later statement, and most tasks make several statements that
are not one transaction. So the questions are nearly always the same: what if
another request, task or process comes in between, and what if this one stops
here.

| component | state | operations | what is hard | what makes it correct |
|---|---|---|---|---|
| pipeline runs (`service/pipeline_service.go`, `repo/pipeline.go`, `pkg/queue`) | `pipeline_runs` rows, asynq tasks | Run, HandleRunTask | task enqueued before the commit; lost lease, crash, shutdown that requeues; two writes to close a run | claimed once, closed once, not overwritten, a closed task means a closed run, every run ends |
| DAG runner (`pipeline/runner.go`) | goroutines, semaphore, outputs, step rows | Execute | goroutines that outlive Execute, panics, retries, a context that ends | order, concurrency, rows that tell the truth, termination |
| circuit breaker (`pkg/circuitbreaker`) | four atomics, no lock | Call | every pair of atomics can be interleaved; late results | no threshold missed, a fresh stamp, recovery |
| content generation (`service/generation.go`, `pipeline/node_handlers.go`) | scripts, episodes, prompts, storyboards, images, short videos, usage log | five tasks and five nodes over the same tables | delete-then-insert, version numbers read before insert, placeholder rows, at-least-once tasks | status matches outcome, whole storyboards, one current prompt, nothing forgotten |
| reviews (`service/review_service.go`) | `review_records`, `review_node_records` | Submit, Act, Cancel, the review.submit node | check-then-insert, stale copies written back under a compare-and-set | nothing approved without its steps, nothing reopened |
| full videos (`service/full_video.go`) | `full_videos` rows, compose tasks | Create, Update, Delete, Render, the compose task and node | whole-row writes of stale copies | succeeded means there is a file |
| publication (`service/publish_service.go`) | `publishes` rows, counters | Publish, Unpublish, UpdateWatermark, counts | upsert of what was read | on the list only what was cleared |
| model catalog (`service/model.go`, `repo/model.go`, `repo/cache.go`) | `models` rows, Redis keys, adapter registry per process | Get, Create, Update, Delete, Healthcheck, LoadAllAdapters | cache filled and invalidated without a lock; a JSON that leaves out the key | stale entries have a cause and an end, deletion is final, an edit keeps the key |
| adapters (`adapter/litellm.go`, `adapter/video_adapter.go`) | response cache, single flight, the breakers | Generate | one flight shared by several clients, two looks into the cache, polls inside one call of the breaker | one upstream call for one request, the breaker recovers |
| admission (`middleware/ratelimit.go`, `middleware.go`, `server/server.go`) | token buckets, in-flight counter, idempotency keys in Redis | RateLimit, IPRateLimit, GlobalRateLimit, Idempotency | clocks read before the script runs, expiry under requests in flight, Redis errors let requests pass, answers that are lost | the rate and the counter, or there is a cause; nobody late runs again |
| accounts (`service/auth.go`, `service/user.go`, `pkg/jwt`, `cmd/reset-password`, `repo/seed.go`) | users rows, failure counters, locks, blacklist | Login, Refresh, Logout, Create, Update, Delete, password changes, the seed | look, compare, count and lock in four steps; whole-row profile edits; tokens that outlive a change | lockout, no lost password, no token after logout |
| roles (`service/role.go`, `repo/role.go`, `repo/seed.go`, `pkg/casbin`) | roles, permissions, cached codes, rules in the table and in every server's memory | Create, Update, Delete, SetRoles, SyncCasbin, the seed | policy cleared and refilled while it is read, and the table refuses the refill; cache deleted inside the transaction | no policy exceeds the rows and no cached code is old, or there is a cause |
| WebSocket hub (`pkg/ws/hub.go`) | members, bounded channels, Redis relay | ServeWS, Publish, Run, both pumps, the subscriber | full channels, two channels for coming and going, a process that hears itself | nothing circulates, everyone leaves |
| billing (`service/billing_service.go`) | quotas, daily usage | quota CRUD, CheckQuota (no caller), Rollup | nothing that interacts | |
| feature flags, departments, projects, styles, audit, uploads, statistics | rows, one cache key each at most | CRUD | small | small |
| storage, ffmpeg, subtitles, crypto, metrics, trace, logger, conf, console, deployment | none that decides | | | |

The schema matters: `deploy/docker-compose.yml` loads `scripts/sql/001_init.sql`,
with composite unique keys, while the Kubernetes manifests let GORM migrate, which
makes none. `ContentTasks` takes either. Rows whose struct embeds `Base` are
deleted softly (episodes, storyboards, full videos, models); a deleted row still
occupies its unique key, and GORM adds `deleted_at IS NULL` to updates.

## Modules

In every module an action is one database statement or transaction, one Redis
command, one atomic operation or one call of a model, with everything the code
does up to the next one; what a handler read earlier stays in its local record,
as stale as it is in Go. Definitions whose name says what is wrong with them
(`ClaimWonBlindly`, `ClearAllForgotten`, ...), commented "Mutant" or "Not the code", are
mutants: no specification uses them; each shows that the property it is paired
with in `PROJECT.json` would notice that bug.

**`PipelineRun`** models `pipelineService.Run` (`ApiCreateRun`, `ApiEnqueue`,
`ApiCommit` and their failures), asynq as `pkg/queue` configures it (`Dequeue`,
`Recover`, `RetryOrArchive`, `Requeue`, `CancelRequeued`; external) and
`HandleRunTask`, one action per database call (`LoadRun*`, `LoadPipeline*`,
`Claim*`, `ExecuteDone`, `SaveOutput`, `SaveSucceeded`, `SaveFailed`). The DAG is one
step with any outcome. A worker's hold on its task is `ctx`: held, requeued by a
shutdown that still runs the handler, or cancelled (lost lease): a cancelled
handler goes on but its database calls fail. Six kinds of fault, each with its own
limit: a request that fails after it enqueued, a delivery before the commit, a
failing call, a crash, an expired lease, a requeue.

**`RunLifecycle`** is what the row promises its watchers: accepted, started, closed
once, unless the task was handed on under a running handler. `PipelineRun`
implements it (`FollowsLifecycle`).

**`DagRunner`** models `Runner.Execute`: the main loop (`EnterLayer`, `PrepareNode`,
`StartNode`, `LayerDone`, ...), one goroutine per node (`HandlerOk`, `HandlerRetry`,
`HandlerPanic`, `CloseFailed`, ...), the semaphore, and step rows, whose statements may fail
under a live context too (`MayLoseWrites`): the runner drops the error, and `lost`
remembers the row. Execute may return while goroutines of the layer run
on, on an unknown node type or a timeout; they stay in the model. **`DagLayers`** is
the validation and Kahn layering in front of it, over every small graph with
parallel edges, dangling edges and repeated ids.

**`CircuitBreaker`** has one action per atomic operation of `Call`, `currentState`,
`recordResult`, `onFailure` and `onSuccess`; the clock ticks, capped at OpenDuration, past
which nothing distinguishes ages. Reading the clock (`TakeTime`) and storing the time
(`Stamp`) are two steps, so that a slow caller stores a time older than the one there.
**`Breaker`** is the textbook breaker of the package comment. **`ModelAdapter`** extends
`CircuitBreaker` with the adapters in front of it: of LiteLLM the look into the response
cache (`Ask`), the flight (`Join`), the second look of its leader (`Recheck`), the call
through the breaker, `Store` and `Land`; of the video adapter one call of the breaker around
submission and polls. The two keep their breakers in different registries, so `kind` is
chosen once. Only a leader is a caller of the breaker.

**`ContentTasks`** models the five asynq handlers of `service/generation.go` (split,
prompt, storyboard, image, video) and the five node handlers of
`pipeline/node_handlers.go` over the tables they share, with SetCurrent and script
deletion by users. An action is named after its step; those of one handler are
gathered under it (`SplitTask`, `SplitNode`, `PromptTask`, ...), which is how
`PROJECT.json` maps them. Abstractions: a failing statement has no effect; URLs and
texts are left out; an answer of a model is a list of numbers.

**`Review`**, **`FullVideo`** and **`Release`**: the reviews of one video, the video itself,
and their composition with publication. A client makes one call at a time and may
stop after any statement. `Review` has its own specification, which the
composition refines. The journal is a set; plays and downloads share one
counter; an ffmpeg run is one step.

**`Catalog`**: one model, its row and the Redis keys `model:<id>` and
`model:list_all_enabled`. Versions count the writes to what is cached under each
key; the upstream key of the row is kept apart, because its JSON leaves it out. A
deletion that fails, is cancelled or dies with its writer is lost and counted.

**`Admission`** is the chain `server/server.go` puts in front of a handler: `IPRateLimit`,
`GlobalRateLimit`, `JWTAuth`, `Rbac`, `RateLimit`, and the three Redis commands of
Idempotency (`IdemGet`, `IdemReserve`, `IdemSave`) around the handler, which may also answer
5xx or panic. A Lua script is one action, but the time it is given was read before (`age`),
so that one request may put the clock of a bucket back behind another's. A failing Redis
command lets the request pass, as in the code, and may have been carried out all the same:
an acquire that went unanswered is counted and never released. Buckets gain one unit a tick
and a request costs `Unit`; `fair` is the bucket that only time fills, against which the
real one is held. What a token or the policy says of a request is a choice.

**`Accounts`** is one users row with its login counter, lock, sessions and blacklist, under
everything that writes them (a Redis command that fails may have been carried out): sign-in
in six steps (`CheckLock` ... `ClearAttempts`, `Issue`), `Refresh`, `Logout`, the
administration, the owner, `cmd/reset-password` and the seed of every start (`SeedAdmin`,
`Reseed`).

**`Roles`** has the tables, the cached codes of a role, `casbin_rule` and the policy in the
memory of every server. An edit is a transaction (`EditRole`, `CommitPermissions`,
`RemoveRole`) followed by SyncCasbin, one action per rule (`LoadPairs`, `ClearPolicy`,
`AddPolicy`, `AddedAll`, `SavePolicy`), because it runs without a lock while requests are
checked. ClearPolicy empties memory only, and AddPolicy writes each rule to the table before
it keeps it: `AddRule` where the table has it not, `RefuseRule` where `uk_rule` ends the
rewriting. Servers restart: `NewEnforcer`, then the seed, statement by statement
(`SeedPermission`, `CountRule`, `CreateRule`), and SyncCasbin. Readers of a role find its
row, look into the cache, load and set (`FindRow`, `LookUp`, `LoadCodes`, `PutCodes`).
`excused` and `raced` remember which server and which role has a reason to be old.

**`Hub`** is a hub per process: the channels, the loop that selects among them, the two
pumps of a connection, `Publish` in its two halves and the subscriber that feeds what Redis
relays into the same channel as local events.

**`MC*`** modules instantiate these for TLC; **`*Proofs`** modules hold the theorems.

## What is checked

| run | instance | shows |
|---|---|---|
| `run_faults` | 1 run, 2 workers, 3 retries, each of the six faults once | a second execution costs a fault; a completed task has a closed run, a succeeded run its output; the lifecycle is implemented, so a run is claimed and closed once; every committed run ends |
| `dag_runner` | 5 nodes in 3 layers, 2 permits, 2 attempts, two nodes that may panic, one without handler, one whose row statements may fail, a timeout; beside it all graphs on 3 ids, up to 2 parallel edges, one repeated id | order, concurrency, success only of all nodes, closed and truthful rows, termination; the layering accepts exactly the DAGs, each node directly after its last predecessor |
| `adapter` | 2 clients, 2 requests, either adapter, 2 polls, thresholds 2, open for 2 ticks | no missed threshold, a stamp that is fresh unless an older clock read crossed the opening, no upstream call whose answer is there, recovery |
| `content` | 2 actors, any of ten handlers each, either schema, 1 fault, 1 retry, 1 edit | status, storyboard, current prompt, placeholders, usage |
| `content_resplit` | no fault, one split of a split script | **violation**: the script ends without episodes |
| `release` | 2 clients, 4 calls, 2 renders retried once, two flows | approvals backed, reviews advance, blind second review only, file behind success, cleared before on sale |
| `catalog` | 2 clients, 2 writes each counted on the row, 1 lost deletion, expiry any time | stale entries have a cause and end; deletion is final |
| `admission` | 2 clients, 4 requests, 2 ticks, 1 Redis error, 1 key, a limit of 1 in flight | rates kept but for three named causes; the counter counts, and exceeds what runs only by failed commands; a latecomer does not run |
| `hub` | a server with a connection, a worker, 3 events, channels of 1 and 2 | elsewhere than at the task order, and nothing twice; a connection that ends leaves, unless its two messages to the loop were swapped |
| `hub_twice` | the same with 1 event | **violation**: a connection to the task's own process sees the event twice |
| `accounts` | 2 callers, 6 calls, 2 sessions, 3 ticks, 1 Redis error | bounded guesses, no lost password, logout lasts while Redis answers |
| `roles` | 2 servers, 2 administrators, 2 readers, a system role and another, 2 edits, 1 restart, 1 fault | no policy exceeds the tables and no cached code is old, but for named causes |

*Why the bounds are enough.* Every property relates at most two actors' copies of one row to
that row: a second actor makes any interleaving of two, a retry makes the repeated delivery,
and one fault of a kind reaches each recovery path. What larger instances could add is a
third stale copy; for the properties proved below the number of actors does not matter.
`PipelineRun` allows all six faults together, so their combinations are covered;
`ContentTasks` has a single fault budget because with two (which held where it was tried) a
run takes too long. `MaxRetry` is 3 for runs, as in the code, and 1 for generation tasks
(the code has 3) and renders (2): each further attempt starts as the second does, with
nothing but the tables. `Catalog` has one upstream key and none, which is all a write can
confuse. Three DAG layers are the least in which an edge skips one. The two buckets of
`admission` differ as those of the code do: one outlives its filling, the user's expires
before it is full. Two ticks are enough for a request to be overtaken, for a bucket to gain
a unit and to expire; its four requests fill the limit, the placeholder and a replay. Each
of the causes its two properties name was left out in turn, and TLC then found it. A channel
of 1 is full, and overflows, within the bounds. `accounts` needs two wrong passwords for a
lock, a login and a logout beside them: six calls. `roles` needs one edit to be overtaken by
another, and one start between; the second reader is there to be overtaken by the first. Its
constraint `ReadersApart` leaves out states in which a reader is on its way while rules are
being written to a policy or its table: these steps and the reader's share no variable but
the count of faults, so that one order of them stands for all. Each of the six causes its
properties name was left out in turn, and TLC then found it.

*Fairness.* `PipelineRun`: a request that opened its transaction finishes it, running
handlers and the recoverer go on, and a pending task is eventually taken (strong
fairness: workers are busy and idle in turn, and the queue is first in first
out). Faults and users are never obliged. `EveryRunEnds` is stated under fewer lost
deliveries than retries and without a requeue: a run requeued by a shutdown whose
first handler wins the claim and then dies stays running for good, because the
second delivery, losing the claim, returns nil and completes the task
(`service/pipeline_service.go:170-178`). A failing last write has the same effect.
`DagRunner`: Go schedules goroutines, handlers return. `ModelAdapter`: requests keep
coming and return, cached answers expire, the clock runs; the upstream recovers only if it does
(`RecoversWithUpstream` has it as its premise). `Catalog`: a request goes on or is
given up, entries expire. `Hub`: goroutines are scheduled, and a select picks at
random among ready channels, so none is passed over for ever; browsers owe
nothing. The other modules state safety and need none.

*No deadlock check* where the system may come to rest: all runs but `adapter`, whose
clients never stop.

### Disagreements between the code and what is said of it

Two of them have a run each.

`service/generation.go:283` calls the split's write an overwriting one. It deletes softly
and then inserts, and with the schema of `001_init.sql` the deleted rows still
hold the numbers: a script split twice has no episodes (`content_resplit`).

`pkg/ws/hub.go:99` says that with Redis bound Publish sends an event to Redis instead of to
the local channel, and `:180` that the subscriber brings it back. The code does both: a
connection to the task's own process sees every event twice, and may see a progress after
the done it belongs before (`hub_twice`). `NoEcho` is what holds of all other processes.

`service/role.go:220` says that SyncCasbin rewrites the roles' permissions into Casbin. With
the schema of `001_init.sql` it stops at the first rule the table has already, and leaves
the policy of its server nearly empty, after every start and nearly every edit
(`RefuseRule`; `Init` of `Roles` is a system in that state). super_admin is not asked about
and does not notice. That is a single failing step with no order to look for, so no run is
spent on it; `PolicyDoesNotExceed` states the direction that survives it.

### Observed while modelling

Behaviour that no line of the repository rules out, or that the properties have as a named
exception. Each is in the models unless it says otherwise.

- A delivery that reads a run as running skips the claim and executes next to the
  worker that lost its lease (`service/pipeline_service.go:169`): `RepeatNeedsFault` counts
  exactly these.
- After the 600 s timeout step rows stay running, because the runner closes them under the
  expired context that `service/pipeline_service.go:198` gave it. Under a live context too a
  failed statement leaves a row running, since the runner drops its error
  (`pipeline/runner.go:303,315,352,358`): `WaitedRowsAreClosed` names both. A handler that
  was called before the timeout runs on, and the retry loop may call it again.
- A caller that opened the breaker and was held up between reading the clock and storing it
  (`pkg/circuitbreaker/circuitbreaker.go:140,147`) stores an old time over that of a later
  opening, which then ends early (`StampIsFresh` names it).
- HalfOpenMaxCalls does not limit the calls admitted in half-open
  (`pkg/circuitbreaker/circuitbreaker.go:47`), only the successes needed; after it
  recovered, one failure can open the breaker again between the swap to closed and the store
  that zeroes the failures (`:163-164`).
- review.submit starts its record at step 1 whatever the flow's first step is, and no review
  takes the "reviewing" it sets on the video back. The journal entry of a decision is
  written before the compare-and-set: a reviewer who loses it stays in the journal.
- Publish asks only that no review is pending: rejected and unreviewed videos pass.
  Publishing again after a take-down starts the counters at zero.
- Update of a model without a key takes the model from Redis, whose JSON has none, and
  writes every column: the key of a model that was cached is erased. The adapter a process
  built first outlives every edit (not modelled).
- Every start of a server sets the built-in administrator's password to the seed's, and
  gives back to the system roles and the policy table what an administrator took from them;
  the default review flow is rewritten too (not modelled). The name of a deleted user or
  role is never free again, because the unique keys count deleted rows. Logout leaves the
  refresh token valid, and while Redis does not answer the access token too
  (`pkg/jwt/jwt.go:44-45`): `LoggedOutStaysOut` speaks of requests that are answered.
- A profile edit writes back the status it read, so that it can switch an account on again
  that was switched off meanwhile; the password is not among its columns
  (`PasswordSurvivesEdits`).
- A bucket credits one stretch of time twice after a refused try, and after a request that
  read its clock before one that overtook it; and a user's bucket expires before it is full
  (`LimitIsRespected` names all three). The counter of requests in flight expires 60 seconds
  after it left zero, under whatever is running; an acquire whose answer is lost is counted
  and not released (`middleware/ratelimit.go:296-307`), until the key expires. After a 5xx
  or a panic the placeholder of an idempotency key answers 202 for five minutes; two
  requests that look at the same time both run.
- An edit of a role reaches the policy of the server it was made through; every other server
  keeps its own until it makes an edit or starts. Two edits through one server rewrite its
  policy at the same time, so that the one that loaded first may put a rule back that the
  other has taken away; an error on the way leaves the policy as far as it got, and the edit
  is answered as done. The cached codes are deleted before the commit, so a reader in
  between puts the old ones back for five minutes.
- A connection that ends at once may be unregistered before it is registered: it stays a member
  of the hub, and its writePump waits for ever (`EveryoneLeaves` excepts it).

## What is proved

For every value of the constants that satisfies the named assumptions. No theorem
rests on a bound of a run.

| module | assumption | theorems |
|---|---|---|
| `PipelineRunProofs` | ids and limits typed | `TypeCorrect`, `ClaimedAtMostOnce`, `OutcomeIsFinal`, `ImplementsLifecycle`, `OutputsAreThere`, `CompletedMeansClosed`, `RepeatsAreCausedByFaults` |
| `ExecutionProofs`, of `DagLayers` | finitely many ids | `LayersTypeCorrect`, `ExactlyDagsAreAccepted`, `LayersFit`, `LayersDeliverTheDag` |
| ... of `DagRunner` | a finite set of nodes, edges that go down the layers | `TypeCorrect`, `RunsInOrder`, `OkIsComplete`, `ConcurrencyIsBounded`, `WaitedForRowsClose`, `RowsAreTrue` |
| ... of `ContentTasks` | answers and limits typed | `ContentTypeCorrect`, `OnePromptIsCurrent`, `NoVideoStaysRunning`, `UsageIsOnRecord`, `StoryboardsAreWhole`, `SplitStatusTellsTheTruth` |
| ... of `Hub` | channels hold something, every client has its process | `HubTypeCorrect`, `EventsDoNotCirculate` |
| `ModelAdapterProofs`, of `CircuitBreaker` | positive thresholds, somebody calls | `TypeCorrect`, `ThresholdsAreActedOn`, `StampsAreFresh`, `TransitionsAreLegal`, `OneCallerIsTextbook` |
| ... of `ModelAdapter` | the same, polls and keys typed | `AdapterUsesBreaker`, `AdapterTypeCorrect`, `NoCallIsWasted`, `AdapterThresholdsAreActedOn`, `AdapterStampsAreFresh` |
| `ReleaseProofs` | finite flows numbered from 1, a file is not the empty output | `ReleaseRunsReview`, `ApprovalsPassedEveryStep`, `ReviewsAdvance`, `SecondReviewsAreBlind`, `SucceededVideosHaveFiles`, `OnSaleVideosWereCleared`, `TypeCorrect` |
| `CatalogProofs` | the empty key is no key | `TypeCorrect`, `StaleEntriesHaveCauses`, `DeletionIsFinal` |
| `AdmissionProofs` | a burst holds a token, numbers typed | `TypeCorrect`, `LimitsHold`, `CounterCounts`, `LatecomersStayOut` |
| `AccountsProofs` | positive limit and lives, the seed's password is one | `TypeCorrect`, `LogoutLasts`, `EditsLeavePasswords`, `GuessingIsBounded` |
| `RolesProofs` | administrators are not servers, the seed's roles and permissions exist | `TypeCorrect`, `PoliciesDoNotExceed`, `StaleCodesAreExplained` |

Every invariant and every action property that a run checks is stated by one of them; the
liveness properties are not. `ExecutionProofs` holds what a worker executes: four
specifications that share no variable, each theorem about one of them.

The arguments:

- *One claim.* `ClaimInv`: a row leaves "none" once, by the commit of its request, and
  "queued" for good, so a run with a queued row has no claim yet.
- *Final outcome, lifecycle.* `HolderInv`: as long as no task was requeued under its
  handler, at most one worker holds a run's task, and what that worker read of the
  row is still so when it writes. Without this nothing rules out that a late
  handler closes a run again; with a requeue it is false, which is why
  `RunLifecycle` has `contested`.
- *Output, completion.* `OutputInv` adds to the property the worker that is about to write
  "succeeded" and can still do so. `ClosedInv` goes back through the places of the
  handler that end in a completed task: at each the run is closed, or the next write closes it,
  as long as no database call failed and no task was requeued; `HolderInv` says that
  nobody else writes in between.
- *Repeated execution.* `RepeatInv` counts for each run: executions so far, plus one if the
  task will still deliver a row nobody claimed (`Promised`), plus the workers about to enter
  Execute (`AboutTo`), are no more than one plus the faults (`Budget`). Every step keeps the
  sum, or moves one from a summand to another, or adds one along with a fault;
  `Accounted` names these kinds of step. `OneHolder` says who can be about to enter at all.
- *Layering.* `LayersInv`: between two rounds a counter is the number of edges from the
  nodes not taken (`Remaining`), the next layer is the nodes not taken with a counter of
  zero (`Front`), no node is taken twice, each was taken right after the last of its
  predecessors (`Levels`), and visited is how many were. Edges are counted as a set, so
  parallel ones are taken away as often as they were counted (`EdgesSplit`). When no node is
  ready, each of the rest has a predecessor among the rest: a cycle. In an accepted graph a
  cycle would have a node in its first layer, whose predecessor is in an earlier one.
  `LayersDeliverTheDag` is the link to `DagRunner`: `Layering`, its assumption about the
  DAG, holds of every accepted graph.
- *DAG.* `OrderInv` ties the layer the loop is at to the goroutines that may exist; `SemInv`
  makes the semaphore the number of goroutines that hold a permit, through panics too;
  `RowInv` says what a closed row implies of its goroutine. `OpenInv`: under a live context
  a running row belongs to the node being started, to a goroutine that will close it, or is
  one a failed statement left behind, and Execute returns with nothing left to start only
  when its goroutines have ended.
- *Breaker.* `NoMissedTransition` is inductive with the types: it says where the caller
  stands that still has to act, and only that caller's own step ends its duty. `StampInv`
  adds to `StampIsFresh` the caller that has read the clock and not stored it: unless an
  older read crossed the opening, what it will store is no older than the opening either.
  `OneCallerIsTextbook` maps the atomics to `Breaker`, correcting the counters for the
  stores that still follow a swap.
- *Adapters.* Every step of an adapter is one of the breaker's or leaves it alone
  (`AdapterUsesBreaker`), so the breaker's theorems hold behind it. `FlightInv`: a client
  that leads is the leader its flight has on record, hence the only one for its key, and
  nobody on the way to the upstream has a key that is cached.
- *Content.* `ContentInv`: types, and no version above the number of versions, so that the
  version SetCurrent and the storyboard look for exists. `OneInv`: any two current prompts
  are one. `VidInv` and `UseInv` count: a video that says "running" is held by the attempt
  that will still write it, or is one of the `Doomed`, and these are no more than the
  faults; likewise an asset that is not on record. Rows carry the attempt that made them, so
  that a retry never takes its predecessor's row for its own. `StoryInv`: a storyboard task
  about to write remembers a prompt and all its shots. `SplitInv` says at each place of a
  lone split what its memory, the status and the episodes are; the hard case is the step
  after which a split is the only one (`StillLone`).
- *Hub.* `HubInv` follows an event down its way to a connection: relay, broadcast channel,
  send channel, what the connection has read. Elsewhere than at the task the four, taken
  together, are in order and below the next event (`InOrder`): a step passes one event to
  the next of them, or puts the newest in. A client registers with the hub of its own
  process only (`AtHome`).
- *Reviews.* `RInv`: a call past its read names a record at a step of its flow; every
  step before a record's current one has a journal entry; a submitter's look is not
  newer than the records it saw. The compare-and-set then carries each decision
  over from the copy to the record. `ReleaseRunsReview` lifts this to the composition.
- *Videos and publication.* `VInv` says of the copies that edits hold what the property
  says of the row. `PInv` says of the row and of every copy a call will write that
  the reviews its look counted are no longer pending; they stay so, because
  records only grow and never reopen.
- *Catalog.* The causes `StaleHasCause` lists make it inductive as it stands.
- *Admission.* `BucketInv`: what a bucket would have for the next request, were it there or
  expired, is no more than time has left in the fair one, unless it is in grace, where every
  grant dated back before time already credited has put it. `CountInv` adds to the counting
  where the holders can be: past the counter, and one over the limit still among them, so
  that a release is always that of a request that was counted. `KeyInv`: an entry stands for
  every key whose request has begun, and whoever found it is on the way out. Each of the
  three looks at variables of its own, so the steps of the others leave it alone.
- *Accounts.* `LogoutsAreTimed` says of an entry about to be written what the property says
  of one that is: from now, it lives at least as long as its token. Without it the time
  between parsing the token and writing the entry could not be bridged.
  `PasswordSurvivesEdits` is inductive with the types.
- *Guesses.* `GuessInv` has three phases. Below the limit every guess is counted, about to
  be, or was lost to a failed command. From the limit until the lock is there, each caller
  has at most one of its own between comparing and setting the lock. Then the callers that
  had passed the look at the lock have one each, and these are at most all callers.
- *Roles, policy.* `RulesOf`: a rewriting that has its server for itself holds only rules
  that the tables permit. `PolicyOf`: without an excuse and without a rewriting about to
  begin, what is still to be added is permitted by the tables, and unless the policy is
  about to be cleared so is what is in it, wherever the rewriting stops. An excuse ends only
  with the clearing by a rewriting that was alone from its load on, with no commit in
  between.
- *Roles, codes.* `CodesOf`: a fill not marked as old holds the codes of the tables, and the
  key is absent or excused while an administrator stands between its deletion and the
  commit. `FillOf` says the first of every reader, whose role was live when it began and may
  be gone when it sets the key.

## What is only model-checked

Liveness (`EveryRunEnds`, `ExecutionEnds`, `RecoversWithUpstream`, `CacheConverges`,
`EveryoneLeaves`): fairness and ENABLED are beyond the prover.
The bounds that only a run has (how many calls, edits, ticks and faults) are constants of
the proofs. What a CSV of numbers, a text or a URL says is in neither.

## What is not modelled

`PROJECT.json` lists every component with its reason. In short:

- *Decides nothing the properties see*: formatting, SQL text, storage, ffmpeg, crypto, metrics,
  traces, configuration, read-only queries and statistics, the order in which the
  console calls, progress percentages.
- *Nothing interacts*: quotas and daily usage (the one check has no caller, and a rollup
  recomputes a day in one statement per row), projects, departments, styles, audit, uploads;
  feature flags, whose cache is `Catalog`'s with one key.
- *Left out of modelled components*: rows of content edited by hand next to the generation;
  the adapter registry (a map filled once: an edit of a model, or a key changed in the other
  process, never reaches an adapter that was built, `service/model.go:204`, in whatever
  order); `persistRemoteAsset`, which falls back to the provider's short-lived URL and
  reports success; which version of a DAG a late task reads; names, data scope and status of
  a role; key rotation of tokens, which has no caller; the asynq handler only a test
  registers.
- *Taken for granted*: Redis commands and Lua scripts are atomic, MySQL statements too, and a
  transaction holds its row locks. asynq delivers at least once as `pkg/queue` configures it.

## Plan

Done: (1) `PipelineRun` + `RunLifecycle`, (2) `DagRunner` + `DagLayers`, (3)
`CircuitBreaker` + `Breaker` + `ModelAdapter`, (4) `ContentTasks`, (5) `Review`, `FullVideo`,
`Release`, (6) `Catalog`, (7) `Admission`, (8) `Roles`, (9) `Accounts`, (10) `Hub`; proofs
of every invariant and action property the runs check.

To come, in this order:

1. What the liveness properties rest on, as far as it can be proved: a measure that every
   step of an execution decreases (`DagRunner`), of a delivery (`PipelineRun`), of a
   connection that ends (`Hub`).
2. Composition of `PipelineRun` with `DagRunner` (the rows of a run after a timeout),
   and of the nodes of `DagRunner` with `ContentTasks`.
3. The adapter registries of both processes beside `Catalog`.

## Running

    tlc -config MCRelease.cfg MCRelease
    tlapm ReleaseProofs.tla

`PROJECT.json` names the runs with their properties, the mutant behind each
property, the source lines of every definition, the hazards and the theorems.
