# Verification of the chetter control plane and runner

chetter runs coding agents: clients submit tasks to a server, runners claim and
execute them in sandboxes, and the server keeps tasks, sessions, prompts and
execution attempts in one SQL database that any number of server replicas
share. Work also enters through cron triggers, inbound webhooks and GitHub
webhooks, and leaves through event callbacks. This directory holds TLA+
specifications of the parts whose correctness depends on the order of
concurrent steps, TLC configurations that check them on small instances, and
TLAPS proofs.

## 1. Inventory

| part | state | operations | talks to |
|---|---|---|---|
| task lifecycle (`internal/service/service.go`, `runner_rpc.go`, `api.go`, `db/queries`) | `tasks`, `agent_sessions`, `user_prompts`, `execution_attempts`, `runners` | submit, rerun, recover, resume, cancel, clear queue, extend; claim, heartbeat, renew, report; nine reaper steps | clients (MCP, web), runners (RPC), other replicas through the database |
| event-callback outbox (`callback_deliveries.go`) | `callback_deliveries` | enqueue, claim, execute, record, operator retry, prune | endpoints (HTTP), task submission, other replicas |
| claim long poll (`claim_notifier.go`, `coordination.go`) | an in-process channel, `claim_notify_counter` | wait, notify, poll the counter | ClaimTask, every operation that queues work |
| runner drain (`coordination.go`) | `runner_drain_requests` | request, peek, acknowledge, reap | operators, heartbeats, the claim gate |
| runner controller (`runner/internal/controller`) | claim slots, registered sessions, workspaces, containers, drain flag | claim loop, execute, heartbeat, watchdog, cancel, report, two reapers, drain and exit | the server, the container engine, the disk |
| cron triggers (`coordination.go`, `service.go`, `pkg/definitions` sync) | `triggers`, `trigger_locks`, a cron registry per replica | tick, lock an instant, submit, mark; create, update, delete, sync | other replicas, the definitions repository, submission |
| inbound deliveries (`inbound_deliveries.go`, `internal/inbound`) | `inbound_deliveries`, `inbound_endpoints` | receive, claim, materialise, mark, retry, prune | HTTP senders, submission |
| GitHub webhooks (`internal/webhook`, `webhook_deliveries.go`) | `webhook_deliveries`, a set of recent ids per replica | receive, process, mark, retry | GitHub, submission, resume |
| transaction retry (`tx.go`) | none | run, retry on conflict | every transaction |
| definitions (`pkg/definitions`), model catalogue (`pkg/modelcatalog`) | synced files, catalogue rows | sync, propose, resolve | git, claims |
| agent serve proxies, network and MCP relay (`runner/internal`) | per-session streams | start, prompt, stream, abort | agent processes |
| web API, auth, SSRF policy, redaction, search, usage, metrics, tools, CLI, generated repositories | reads, or pure functions | | |

What is hard in it:

* **One aggregate, four tables, many writers.** A task, its sessions, its
  prompts and its attempts are changed by a dozen statements that select rows
  by task id, by "latest" or by status. Each handler is right only if those
  selections hit the row it means.
* **Leases without a shared clock of events.** A lease expires, the reaper
  requeues, and the late report of the old run arrives.
* **Reads before transactions.** Resume validates, then commits; claims read the
  runner's capability, then lock; the outbox reads `attempts`, then writes; the
  runner's reapers ask the server, then remove.
* **Unreliable peers.** Runners die, drain, repeat and lose calls; endpoints do
  not answer; senders repeat; commits are ambiguous.
* **Background passes over everything.** One reaper transaction serves all
  tasks; one worker cycle leases fifty deliveries at once; the GitHub retry
  workers share rows without any lease.
* **Memory beside the database.** The notifier channel, the recent delivery
  ids, the cron registry and the runner's session map each repeat, in one
  process, something the tables know.

What would make each part correct is stated as the properties below. Section 7
says what the code does not keep, section 9 what is not modelled.

## 2. Modules

| module | role |
|---|---|
| `TaskLifecycle` | the task aggregate: clients, runner protocol, reaper, clock |
| `MCTaskLifecycle` | small sets of submissions and events |
| `TaskQueue` | the abstract specification of the queue that clients see |
| `TaskLifecycleProofs` | theorems about `TaskLifecycle`: types, no stranded task, admission |
| `TaskLifecycleHistoryProofs` | theorems about `TaskLifecycle`: which row governs, what the rows remember, and the refinement of `TaskQueue` |
| `TaskLifecycleClaims` | a sentence of the documentation that the code does not keep |
| `ClaimQueue`, `MCClaimQueue`, `ClaimQueueProofs` | the claim long poll, the notifier and the cross-replica counter |
| `RunnerController`, `MCRunnerController`, `RunnerControllerProofs` | one runner process |
| `DurableWork` | the abstract specification of a table of durable work |
| `CallbackOutbox`, `MCCallbackOutbox`, `CallbackOutboxProofs` | the outbox of event callbacks |
| `InboundDeliveries`, `MCInboundDeliveries`, `InboundDeliveriesProofs` | the inbox of inbound webhooks |
| `CronTriggers`, `MCCronTriggers`, `CronTriggersProofs` | one trigger on all replicas |
| `GitHubWebhooks`, `MCGitHubWebhooks`, `GitHubWebhooksProofs` | the queue of GitHub deliveries |

How they fit together:

* A `Commit` of `ClaimQueue` is any action of `TaskLifecycle` that adds a row to
  `work`, and its `ClaimCommits` is `TaskLifecycle!ClaimOnce`.
* `attempt`, `retained` and `drainReq` of `RunnerController` are what one runner
  can see of `TaskLifecycle` and of the drain table; its `PollClaim`,
  `ReportDelivered`, `LeaseExpires` and `AttemptEnds` are `ClaimOnce`,
  `RecordTaskEvent` and the reaper and client steps that end an attempt. In
  `TaskLifecycle` the runner is the opposite: free to send anything at any time,
  so what holds there holds for every runner, the modelled one included.
* Outbox, inbox, triggers and GitHub webhooks submit through
  `TaskLifecycle!SubmitTask`; they see its outcomes: a new task, a task that
  exists already under a derived id, a refusal, an error with or without a
  commit. Every `RecordTaskEvent` may enqueue rows of `CallbackOutbox` in its
  transaction.
* `TaskLifecycle` implements `TaskQueue` (`Queue == INSTANCE TaskQueue WITH ...`,
  `ImplementsTaskQueue`): `phase` is the status of the task row, `gen` the number
  of its attempts, `holder` the runner of the last one and `mixed` whether an
  older session of the task was resumed. What the queue leaves out (sessions,
  prompts, leases, the passes of the reaper) is how it is kept.
  In the queue a task has one execution at a time, claimed once and kept by its
  runner until it ends; only an execution makes a task `done`; what is finished is
  reopened as a new execution; neither a claim nor the reaper's recovery goes
  past the attempt limit. Of a mixed task a claim may hand out an older execution
  than the last; everything else is promised of it too. One step of the queue may move several tasks, since
  the passes of the reaper do.
* `CallbackOutbox` and `InboundDeliveries` implement `DurableWork`
  (`Work == INSTANCE DurableWork WITH ...`, `ImplementsDurableWork`): a row is
  absent, open, done, failed or gone. The outbox implements it with `Fenced =
  TRUE`, since its marks test the lease; the inbox only with `Fenced = FALSE`,
  since its marks test nothing. `Once` are the items whose effect is a task
  under an id derived from the row, `Ignorable` those that may be done without
  an effect (an inbound delivery filtered by its endpoint).

Conventions: a database transaction is one action; a handler of several
transactions or autocommit statements is several actions; a definition keeps
the name of the function or query it translates; a definition introduced by
"Mutant of X" is a plausible bug of X, used to see that the properties notice
it, and is used by no specification.

## 3. TaskLifecycle

**State.** `task[t]` holds the `tasks` row of `t` with the sequences of its
sessions and of its `work`. Every `InsertUserPrompt` is followed in its
transaction by the `InsertPendingExecutionAttempt` of its only attempt, so a
prompt and its attempt are one record of `work`, in insertion order. An attempt
is claimed at most once, so naming it also names its claim id, which is why the
fencing of reports by claim id appears as "the attempt is still running".
`registry[r]` is the `runners` row. `resumes` are the pre-transaction reads of
resume requests: since the code may commit arbitrarily later, or not at all, the
entries are never removed.

Time is abstracted to what comparisons can tell: a lease is live or expired, an
attempt is overdue or not, a runner was seen within 60 s (`fresh`), within
120 s (`aging`) or before (`stale`).

**Actions.** `SubmitTask`, `RerunTask`, `RecoverTask`, `CheckResume` and
`ResumeAgentSession`, `CancelTask`, `ClearQueue`, `ExtendTaskTimeout` (clients);
`ClaimOnce`, `RenewLease`, `RecordTaskEvent`, `Heartbeat` (runners, any order,
any repetition, any loss); `ReapStaleTasks`, `ReapExpiredLeases`,
`ReapStaleUserPrompts`, `RevertOrphanedRunningUserPrompts`,
`ReapStaleSessionsForTerminalRuns`, `ReapUnavailablePinnedResumeTasks`,
`ReapIsolationUnavailableTasks`, `ReapExpiredSessions`,
`ReapExpiredSessionArtifacts` (the reaper; with several replicas these
interleave freely, which the model allows since each is an action of its own);
`LeaseElapses`, `TimeoutElapses`, `Silence` (the clock). Checkpoint sessions are
no longer created by any handler but still served; `CheckpointRows` puts one in
the initial state.

Left out: prompt text, usage, artifacts, audit and event rows, the order of the
queue (the claim query may return any claimable row) and the drain gate (which
is open on a failed read); both are in `ClaimQueue`.

**Properties.** `NoStrandedTask`, `WorkRunsInLiveSession`, `LastRowGoverns` with
its consequence `ActiveAttemptMatchesTask`, `PromptFollowsAttempt`,
`ResumeKeepsRunner` (invariants); `EndedStaysEnded`, `AdmissionCapHolds` (steps);
`ImplementsTaskQueue` (the refinement of `TaskQueue`); `RunningTaskEnds`, `PromptsSettle`, `UnclaimableWorkFails` (liveness). Each is
explained where it is defined.

`ActiveAttemptMatchesTask`, `WorkRunsInLiveSession`, `LastRowGoverns`,
`PromptFollowsAttempt` and `ResumeKeepsRunner` speak of tasks in order
(`InOrder`): the prompts of the task follow the order of its sessions, that is,
no session of it was resumed once it had a newer one. `ResumeAgentSession` makes
no such test, `ResumeSessionForPR` picks a session by the pull request it is
linked to, and so the model resumes any paused session. A task that has left
the order does not return to it, and of such a task these properties fail in the
code (section 7). The others, `NoStrandedTask`, `EndedStaysEnded`,
`AdmissionCapHolds`, `ImplementsTaskQueue` and the liveness properties, speak of
every task, in order or not.

## 4. The tables of durable work

### CallbackOutbox

**State.** `row[d]` is the `callback_deliveries` row of one (callback, event)
pair; `batch[p]` the rows replica `p` has claimed and not executed, with the
`attempts` it read; `current[p]` the executed item whose outcome is not yet
written; `effects[d]` counts, as history, what the outside saw.

**Actions.** `EnqueueTaskEventCallbackDeliveries`;
`ClaimDueCallbackDeliveries`, `DeliverCallbackDelivery`, `RecordOutcome`,
`OutcomeTooLate`, `Abort` (a worker); `RetryCallbackDelivery` (operator);
`PruneTerminalDeliveries` (retention); `LeaseElapses`, `BackoffElapses`.

The lease (60 s) starts with the claim of the whole batch and each execution is
bounded by 15 s. `LeaseItems`, the quotient, says after how many executions of
the same batch a lease may be over while its worker still has the item: 4 in
the code, 1 in the instances, which then need two deliveries where the code
needs five. A request without an answer uses up the context its outcome would
be written with (`OutcomeTooLate`).

**Properties.** `ImplementsDurableWork`, the refinement of section 2, and
`EveryDeliverySettles`. `CompletedTookEffect` and `SettledStaysSettled` state two
consequences of the refinement on the rows themselves; they are proved and need
no run beside it.

### InboundDeliveries

**State.** `endpoint` is what the materialised endpoint makes of an event
(acts, filters, off); `req[q]` the receiver's handling of request `q`; `row[q]`
the row `q` inserted; `made[q]` counts, as history, the tasks created for that
row; `batch[p]` and `current[p]` are as in the outbox. Requests with the same
`KeyOf` are the sender's repetitions of one delivery.

**Actions.** `Count`, `Refuse`, `InsertDelivery`, `InsertUnanswered` (the
receiver: the count of pending rows and the insert are separate statements, and
the insert may commit without the sender hearing of it); `ClaimDue`, `Process`,
`LoadFails`, `Record`, `RecordFails`, `Crash` (a worker); `Elapses`,
`RetryInboundDelivery`, `PruneTerminalDeliveries`, `MaterializeEndpoint`.

**Properties.** `OneTaskPerDelivery` (of one delivery, however often it is sent,
leased, executed and retried, at most one retained row and one task),
`AcceptedIsRecorded` (what was answered 202 is on record), `LinkedTaskExists`
(although marks are not fenced) and `ImplementsDurableWork`.

### GitHubWebhooks

**State.** `row[d]` the row of `webhook_deliveries` (no lease); `recent[r]` the
in-memory duplicate check; `asked[r]` requests between that check and the insert;
`job[k]` a run of `ProcessDelivery`, by the goroutine of the request or by the
retry worker of a replica, somewhere in its loop over the matching triggers.
`faulty`, `served` and `fresh` are history.

**Actions.** `ServeHTTP`, `Forget`, `RecordDelivery`, `RecordFails` (receiver);
`MarkDeliveryProcessing`, `MarkProcessingFails`, `HandleIgnores`,
`HandleBreaks`, `SubmitTask`, `MarkDeliveryCompleted`, `ReadAttempts`,
`MarkDeliveryFailed` (whose SELECT and UPDATE are two steps), `MarkFails` (a
run); `RetryFailedDeliveries`, `BackoffElapses`, `Crash`.

**Properties.** `FirstHandlingExclusive`, `UnfinishedIsHandled`, `CompletedActed`
(invariants), `RetriedOncePerFailure` (a step), `EverySentSettles` (liveness).
`UnfinishedIsHandled` and the last except deliveries in `faulty`, which a store
error or a crash cut off: the code has no path back for those (section 7).

## 5. Claims, the runner and the triggers

### ClaimQueue

**State.** `queue` holds the claimable rows with their `created_at` and the
replica that committed them; `poll[r]` is the `ClaimTask` call of runner `r`
(before its look at the queue, inside its transaction, after a look that found
nothing, waiting), with the channel it took; `committed[p]` counts commits of
replica `p` not yet notified, `bumps` the goroutines on their way to the
counter, `counter` the row `claim_notify_counter`, `last[p]` what the poller of
`p` remembers of it. `draining` are the runners whose `claimLoop` has
ended, or ends with the call it has open: the flag of `startDrain` is never taken
back, so such a runner makes no further call until a new process takes its
place. `degraded` is history: a wake-up between replicas was lost.

**Actions.** `Commit` and `NotifyTaskClaimable` (two steps, as in the code),
`BumpClaimNotifyCounter` (which may fail), `ReadBaseline` (which may fail),
`PollCounter` and `NotifyFromCounter`, `ClaimTask`, `ClaimOnce`, `ClaimCommits`,
`ClaimRollsBack`, `ClaimWaits`, `Wake`, `ClaimReturnsEmpty`,
`RequestRunnerDrain`, `AckRunnerDrain`, `StartDrain` (by a heartbeat or a
signal), `RunnerStarts` (a successor process), `Restart` (of a replica).

**Properties.** `LocalWakeup` is the argument in the comment of `notify`
(`claim_notifier.go:24-28`), "a submission can never be missed": a call that
sleeps although its replica committed work for it has the notification still to
come. `RemoteWakeup` is the same through the counter. Neither covers the rows a
call could not see (`blind`): rows locked by a claim that later rolls back, and
all rows for a runner behind the drain gate; nor a wake-up that was lost
(`degraded`). Those wait for `claimPollInterval`, and `EveryRowClaimed` says
that this is enough, as long as some runner that may claim the row is not
draining.

Left out: a commit whose answer is lost (the operation then reports an error
and does not notify), and rows that a claim refuses for good.

### RunnerController

**State.** Of the control plane: `attempt[e]`, `retained` (workspaces kept for a
resume), `drainReq`. Of the process: `main` (serving, signalled, waiting for
the drain, for the task group, for the reports, stopping with its last heartbeat
and the network, stopped), the `draining` flag, `late` (the goroutines that were
spawned and had not joined the task group when it was found empty), the claim
`loop` with the execution it `got`, the semaphore `sem`, the task group `wg`, the
map `tasks` of registered sessions, and `run[e]`, the goroutine of `runTask`: its
phase, its context, the status it will report, whether its workspace is kept or
paused, and the deferred steps it still owes. Of the host, and surviving the
process: `disk` and `boxes`; the containers of `Checkpointed` executions have a
checkpoint, and the container reaper skips them. `prune` and `sweep` are the
verdicts of the two reapers between asking the server and removing.

**Actions.** `ClaimTop`, `ClaimSlot`, `ClaimSlotCancelled`, `PollClaim`,
`PollNothing`, `ClaimSpawn` (claim loop); `Enter`, `GateRefuses`, `Register`,
`OpenWorkspace`, `PrepareFails`, `StartContainer`, `StartContainerFails`,
`WatchdogFails`, `PromptReturns`, `TaskTimeout`, `DecideStatus`,
`DecideWorkspace`, `ReportDelivered`, `ReportLost`, `Panics`,
`TeardownContainer`, `TeardownWorkspace`, `TeardownSession`, `Leave` (runTask
and its defers, in their order); `HeartbeatCancels`, `HeartbeatDrains`;
`PruneVerdict`/`PruneDestroy`, `SweepVerdict`/`SweepRemove`; `Sigterm`,
`CancelRunContext`, `DrainDone`, `DrainDeadline`, `CleanupDone`, `ReportsDone`,
`HardKill`, `ProcessExits`, `Crash`, `Restart`; and the control plane's `AttemptEnds`, `LeaseExpires`,
`SessionExpires`, `RequestDrain`, `ReapStaleRunnerDrains`.

**Properties.** `SlotsAccounted`, `RetainedWorkspaceOnDisk`,
`RunningAgentHasWorkspace`, `OneSandboxPerTask` (invariants);
`ReaperSparesLiveWork`, `CleanExitAfterCleanup` (steps); `ClaimedWorkEnds`,
`SignalledRunnerExits`, `LeakedContainersReaped`, `DrainAcknowledged`
(liveness).

`CleanupDone` is the return of `taskWG.Wait`, `ProcessExits` the return of
`Start` to `main`; between them lie the report barrier, a heartbeat of up to 10 s
and the stop of the network, and goroutines run on meanwhile. `HardKill` fires in
either wait, whatever the counters are. `SweepRemove` and `PruneDestroy` may
fail, and are tried again by a later pass.

Left out: Kubernetes and local modes, the host-pressure gate, the inside of the
progress watchdog (its verdict is `WatchdogFails`), and what the agent says.

### CronTriggers

**State.** `now` the last due instant; `def` the definition at the head of the
repository and `row` the trigger's row; by trigger id the `marker`
(`last_triggered_at`) and the row `lock`; by replica the cron registry `reg`,
the instant it has `ticked`, its `run` of an instant and its `sync`. `fired`
and `lost` count, as history, tasks submitted and those of them whose marker was
not committed.

**Actions.** `Tick`, `CheckTrigger`, `AcquireTriggerLock`, `LockNotAcquired`,
`SubmitTriggerTask`, `SubmitFails` (with or without a commit), `FinishInterval`,
`FinishFails` (a run); `CreateTrigger`, `UpdateTrigger`, `DeleteTrigger` (API);
`EditDefinition`, `SyncFetch`, `SyncList`, `SyncStore`, `SyncActivate`,
`SyncFails` (definitions); `Advance`, `Crash`, `Start`.

**Properties.** `RepeatsOnlyAfterLostMarker`, `MarkerNeverReturns`,
`DisableReachesAllReplicas` (safety); `DefinitionsConverge` (liveness).

## 6. Runs

| run | instance | shows |
|---|---|---|
| `lifecycle` | 1 task, 1 isolated runner, 3 rows, fair reaper and clock | rows implement `TaskQueue` under every interleaving of clients, runner, reaper and clock, what has ended stays ended, and as long as the task is in order its rows stay in step; running tasks end, prompts settle, unclaimable work fails |
| `lifecycle_queue` | 2 tasks, 2 runners, 2 rows, cap of 1, auto-recovery, checkpoint rows | the admission cap, and resumed work stays on its runner |
| `claim_stale_lease` | 1 task, 1 runner, 3 rows, all events | a violation, section 7 |
| `outbox` | 2 deliveries (one spawns a task), 2 replicas | the refinement of `DurableWork` under overlapping leases |
| `outbox_live` | 2 deliveries, 2 replicas, fair | every delivery settles |
| `inbox` | a delivery and its repetition, 2 replicas, at most 1 pending | one task per delivery, nothing accepted is lost; the refinement of `DurableWork` |
| `webhooks` | 1 delivery of 2 triggers, sent twice, 2 replicas, 1 crash, fair | exclusive first handling, bounded retries, honest completion, every delivery settles |
| `claim_queue` | 1 row, 2 runners that contend for it, 2 replicas, 1 fault (restart or drain), fair | no lost wake-up, and the row is claimed whatever wake-ups are lost, by a runner that is not draining |
| `runner` | 2 executions of one task, 1 of them resumable, 1 with a checkpoint, max_concurrent 1, 1 restart | slots, workspaces and containers under every order of goroutines, reapers, signals and crashes |
| `runner_live` | 1 execution, 1 restart, fair | claimed work ends, a signalled runner exits, leaks are reaped, drains acknowledged |
| `triggers` | 2 replicas, 2 instants, 1 edit, 1 crash | an instant repeats only after a lost marker, the marker moves forward, a disabled trigger rests |
| `triggers_live` | 2 replicas, 1 draft, 2 edits, 1 crash, fair syncs | tables and registries converge to the repository |

**Bounds.** `MaxRows` bounds the prompts of a task. In `lifecycle` three rows let
an attempt be lost, timed out or paused, a recovery follow it, and the older
session then be resumed, which takes the task out of order; longer chains are
covered by the theorems, which bound nothing. `MaxAttempts` is 3 there and 2 in
`lifecycle_queue`, so that the limit is reached. Events are the distinguishable
ones: running, done and error, with and without the evidence a pause needs. One
task is enough for the row properties, since no statement of a handler reads
another task's rows. The exceptions are the admission count and the reclaim,
whose one transaction serves all tasks: `lifecycle_queue` has two tasks with
auto-recovery on, so requeues happen there beside another task, and it starts
also from the checkpoint rows of older releases. It checks safety only. That the
rows of one task never hold up the reclaim of another for ever is not checked,
since the liveness run has one task.

In the outbox `MaxAttempts` 2, `MaxResets` 1 and `MaxEffects` 2 are the smallest
values at which limit, operator retry and duplicate effect happen; in the inbox
likewise, with two requests that carry one key and a pending limit of one. In
`webhooks` the limit of 3 attempts is the code's; two triggers let one
submission succeed and the other fail; `Lenient` is empty, since for the issues
events, whose errors are only logged, the properties about completion say
nothing. In `ClaimQueue` one row that two runners contend for, each at either
replica, gives own and foreign notifications, rows skipped because the other has
them locked and claims that roll back; `MaxFaults` bounds restarts and drains
together, so a behaviour has one of either. Pinned rows and several faults are
covered by the proofs of the safety part, not by the liveness property. In `runner` two executions of one task are a requeue or a
resume beside its predecessor, the case every check of the controller is about;
with `MaxConcurrent` 1 the semaphore has two slots, so both can run at once. In
`triggers` two instants are needed for a run that waited past its own, and one
replica of two may crash at any step; two definitions (enabled without adoption,
disabled with it) give every case of the adoption rule.

**Fairness.** `taskReaper` runs every step each 30 s and recovers a panic of one
step, so each step is weakly fair; time passes. Nothing is assumed of runners
or clients. `RunningTaskEnds` excludes an operator who extends a timeout for
ever. In the outbox `callbackDeliveryLoop` ticks every 5 s on each replica and
takes the oldest rows first, so a delivery that is due again and again is
claimed (strong fairness per delivery); executions end by their timeout (weak
fairness of a worker's steps). `EveryDeliverySettles` assumes that crashes
stop and that requests are eventually answered; without the second it fails
(section 7). In `ClaimQueue` a runner that is not draining calls again when a call
returns, a waiting call goes round after `claimPollInterval`, a drain request is acknowledged or
reaped (weak fairness), and a query or claim that is tried again and again
succeeds some time (strong fairness); nothing is assumed of the notifier, the
bumps or the poller, and nothing makes a drained runner start again.

In `RunnerController` every call of `runTask` is bounded by the task's context,
the report window or a cleanup timeout, so a goroutine always goes on (weak
fairness of its next step, whichever it is: success is never assumed); the claim
loop, the heartbeat and the two reapers tick; a container removal that is tried
in pass after pass succeeds some time (strong fairness of the removal of one
container, needed by `LeakedContainersReaped`, which excepts containers with a
checkpoint); main goes on once what it waits for is there; and the server's
reaper ends attempts nobody renews. Nothing is assumed of the drain deadline
and the hard-kill timer: `SignalledRunnerExits` says that the waits end without
them. In `CronTriggers`
each replica syncs at its interval and a crashed one is started again (weak
fairness), and a sync that is tried for ever does not fail for ever (strong
fairness); nothing is assumed of ticks, runs or the API. In `GitHubWebhooks`
deadlines bound the requests and runs, the worker ticks every 10 s and backoffs
elapse (weak fairness), and a worker that tries for ever to mark a row
processing succeeds some time (strong fairness).

Deadlock is checked in the runs of `TaskLifecycle` and `ClaimQueue`. In the
others the system may stop: every row settled and nothing left to send, a
stopped runner that is not restarted, no more instants.

## 7. What the code does not keep

`claim_stale_lease` checks a sentence of the documentation, and TLC finds a
behaviour of the code against it: docs/SESSIONS.md:67-70 describes what an
expired lease does, but the lease of an older, timed-out attempt fails the task
of a newer execution, when an older session was resumed.

The rest was seen while modelling and is in the models, as behaviours the
properties allow for. None of it has a run of its own.

Tasks and claims:

* A resume request checked earlier can be queued for a runner other than the one
  that holds the workspace, once an older session was resumed: the report of the
  older session's execution pauses the latest session with its own runner
  (`runner_rpc.go:1297`; docs/SESSIONS.md:55 says "Resume is same-runner only").
  `ResumeKeepsRunner` therefore speaks of tasks in order. The behaviour needs
  two runners and more than three rows, so no run shows it.
* `recordTaskEvent` settles the latest prompt of the task, so the report of an
  execution of an older, resumed session is written to the newer session's
  prompt (`runner_rpc.go:1297`), and `ClaimTask` reads the resume information of
  the latest session (`runner_rpc.go:285`).
* A task recovered beyond `max_attempts` stays pending for ever
  (`runner_rpc.go:1029`; compare docs/FEATURES.md:108). The row the claim refuses
  stays the oldest eligible one and is offered again before every younger row
  (`runner_rpc.go:1009`).
* Queued isolated work is failed while its only live runner reports
  `admission_paused` (`execution_attempts.sql:280`; the comment at
  `service.go:917` says "no live runner").
* The reclaim pass skips the attempts of a drained runner and the failing
  statement wants `max_attempts` reached, so such an attempt stays running until
  its timeout (`execution_attempts.sql:169`; compare `service.go:580-584`).
* A reported sandbox failure is not retried (compare docs/DEPLOYMENT.md:260).
* The session of a rerun has no `expires_at`, so when paused it does not expire
  (`service.go:1730`; compare docs/SESSIONS.md:93).

Callbacks and inbound deliveries:

* Two replicas may execute one delivery, when the lease of a batch runs out
  before its worker reaches the row (`callback_deliveries.go:492`; compare the
  comment at line 447). The outbox properties are checked under this overlap.
* An outcome recorded late counts against a later claim, and a row can be retried
  with its attempts used up (compare `callback_deliveries.go:41`).
* The outcome of a request without an answer is written with the context the
  request used up, so an endpoint that never answers is retried for ever
  (compare `callback_deliveries.go:26`).
* A `create_task` delivery or an inbound delivery that meets a full queue fails
  for good at once, since the refusal carries no transient marker
  (`inbound_deliveries.go:243`; compare `service.go:1099-1102`).
* The marks of an inbound delivery test neither status nor lease
  (`inbound_deliveries.go:289`), and a claim does not look at the attempts used.
* When retention has removed a row, a repetition of its delivery is new and
  makes a second task; `OneTaskPerDelivery` speaks of retained rows.

GitHub webhooks:

* The worker reads failed rows only. A row left `received` or `processing` by a
  crash or a failed mark is not handled again; the comment at
  `webhook/handler.go:265-267` says the "background worker will retry it".
* The id is remembered before `RecordDelivery`; if that fails the sender hears
  503, and its repetition is answered 200 without a row. Likewise a repetition
  is answered 200 while the first request is still pending and may crash.
* A retry handles the whole delivery again, so triggers that had their task get
  another; two replicas may run the same failed row at once, set a settled row
  back, and count past `max_attempts`. The retries end all the same
  (`EverySentSettles`).
* The handler of issues events logs submission errors and completes
  (`Lenient`), and an error of the access check completes too.

Triggers:

* The comment at `coordination.go:58-62` says "at-least-once"; an instant is lost
  when its `SubmitTask` fails, or when the replica holding the lock crashes and
  the waiting ones have given up.
* The adoption guard of a sync is checked before the statement that relies on it.
* A trigger created or enabled through the API is scheduled by the replica that
  served the request and by the others only after they restart; managed
  triggers are scheduled everywhere by the sync (`DefinitionsConverge`).

The runner:

* A claim loop that sees the drain after `ClaimTask` answered drops the execution
  (`runner/internal/controller/runner_rpc.go:156-159`); the server notices by the
  lease (`ClaimedWorkEnds`).
* The semaphore has `MaxConcurrent + 1` slots, all of which can execute.
* A container whose start was interrupted stays until the container reaper's next
  pass (`LeakedContainersReaped`).
* The task group is joined inside `runTask` (`runner_task.go:93`), so a goroutine
  spawned just before the drain may join it after `taskWG.Wait` returned
  (`heartbeat.go:381`) and be cut off by an exit that is reported as clean;
  `CleanExitAfterCleanup` excepts these (`late`).
* `startDrain` is never taken back and the process keeps waiting for its context
  (`<-ctx.Done()`, `runner/internal/controller/runner_rpc.go:79`), so a runner
  drained by request finishes its work and stays, idle, until it is signalled;
  docs/MANUAL.md:546 and docs/FEATURES.md:110 say that it exits.
* `PreserveWorkspace` and `PauseOnDrain` are written by the heartbeat and read by
  the task goroutine without a lock.

## 8. Proofs

`TaskLifecycleProofs` proves, for any sets of tasks and runners and any bounds,
from `ConstantsAssumption` alone and whatever sessions clients resume:

* `TypeCorrect`: `Spec => []TypeOK`.
* `NothingStranded`: `Spec => []NoStrandedTask`. With types it is inductive: every action that takes the last
  queued or running attempt of a task out of that status moves the task with it.
* `QueueCapRespected`: `Spec => AdmissionCapHolds` for a finite set of tasks. One
  lemma per operator says which tasks
  may join the pending ones (`Joins`); a cardinality argument does the rest.

The proofs go aggregate by aggregate: lemmas state what each operator on one
task (`Claimed`, `Reported`, `Reclaimed`, `ReapPinned`, ...) preserves, and the
step theorem has one case per action.

`TaskLifecycleHistoryProofs` continues with what the rows remember, for the same
constants:

* `EndedForGood`: `Spec => EndedStaysEnded`. Beside the types it needs only that a
  task that does not exist has no rows (`Blanks`).
* `LastRowAlwaysGoverns`: `Spec => []LastRowGoverns`: only the last row of a task
  in order can be queued, running or in one of the three error states that the
  roll-up statements read back. Recovery needs an export and resume a paused
  session, and both are left behind only by a report, which settles the row. The
  step needs that a task in order was in order before, since rows are only added
  and keep their sessions.
* `OneAttemptInFlight` and `InFlightSessionLive`: `ActiveAttemptMatchesTask` and
  `WorkRunsInLiveSession` follow from it.
* `PromptsTellTheTruth`: `Spec => []PromptFollowsAttempt`.
  Claims and reports write to the latest prompt of the task, and two statements
  of the reaper to all of its pending or running prompts; `LatestIsActive` and
  `LastRowGoverns` say that the row in flight is the one they find.
* `ResumesStayHome`: `Spec => []ResumeKeepsRunner`. For tasks in order, the
  strengthening is: queued work of a resuming session is bound to the runner the
  session is pinned to, and running work of it runs there (`Pinned`); and what a
  resume request read of a session stays true however much later it commits
  (`Requests`), because a session is pinned when it leaves `running`, never
  returns to it, and a later report pins it to the same runner (`Remembered`).
* `LifecycleImplements`: `Spec => ImplementsTaskQueue`. Per aggregate
  every operator opens, starts, restarts or stops an execution or leaves it alone
  (`Hands`). The roll-ups of the reaper must close open tasks only (`Closes`), the
  claim must take the last row of a task in order (`ClaimedStarts`, from
  `LastRowGoverns`) and a report stop a running task (`ReportedStops`), and the second
  half of the lease pass must not fail what the first half has just requeued
  (`ReapLeasesHands`).

Most statements only end work, so most of the argument is one relation between an
aggregate before and after, `Quiet` (rows and sessions may go from open to ended,
runners, requirements and pins stay), with its transitivity; only claims,
reports, reclaims and the three ways to add work need lemmas of their own.
TLC has checked the strengthening (`Blanks`, `History`, `Requests`) on the
instance of `lifecycle`, exhaustively.

`CallbackOutboxProofs` proves, for any finite set of deliveries and any replicas
and bounds:

* `TypeCorrect`, which includes that a row carries a lease exactly while it is
  in flight.
* `CompletionIsHonest` (`Spec => []CompletedTookEffect`). It needs
  `SuccessTookEffect`: an execution that succeeded and is not recorded yet has
  had its effect, so recording it is right whoever holds the lease by then.
* `SettledRowsStay` (`Spec => SettledStaysSettled`), an action property: one
  lemma per kind of step says which rows it may touch (`RowStepFacts`,
  `ClaimFacts`, `RecordFacts`).
* `OutboxImplements` (`Spec => Work!Spec`): each step of the outbox is, under
  the mapping of statuses to phases, a step of `DurableWork` or a stutter.

`InboundDeliveriesProofs` proves, for any requests, keys, replicas and bounds:
`TypeCorrect`, `DeliveryActsOnce` (`[]OneTaskPerDelivery`), `AcceptedNeverLost`
(`[]AcceptedIsRecorded`), `LinkIsHonest` (`[]LinkedTaskExists`) and
`InboxImplements` (`Spec => Work!Spec`, unfenced). The inductive invariant joins
the types with: a row is inserted once per request (`InsertedOnce`), retained
rows with a key have different keys (`KeysUnique`), what a worker holds is on
record (`HeldOnRecord`), a verdict that links a task was preceded by that task
(`VerdictHonest`). The last two are why an unfenced mark is harmless to the
link: whichever worker writes last, it writes something true.

`CronTriggersProofs` proves, for any replicas, instants, definitions and bounds:
`TypeCorrect`, `InstantRunsOnce` (`[]RepeatsOnlyAfterLostMarker`),
`MarkerMovesForward` (`MarkerNeverReturns`) and `DisabledTriggersRest`
(`DisableReachesAllReplicas`). The invariant adds to the types that a replica
has one run and a run past the lock holds it (`OneRun`, `LockHeld`), that the
tasks of an instant are accounted for by its marker, by lost markers or by the
run that is about to commit it (`Accounted`), and that a run past its check of
the trigger knows it was enabled (`LiveKnown`).

`GitHubWebhooksProofs` proves, for any deliveries, triggers, replicas and bounds:
`TypeCorrect`, `FirstHandlingAlone` (`[]FirstHandlingExclusive`),
`OneRetryPerFailure` (`RetriedOncePerFailure`), `CompletionActed`
(`[]CompletedActed`) and `UnfinishedHasRun` (`[]UnfinishedIsHandled`). Each has
its own strengthening: while the first handling lasts the row is received or
processing, so no worker reads it (`FirstOpen`); a failed row, and a run a worker
has not begun, is fresh for that worker (`FreshInv`); a run without an error has
served the triggers it has passed (`ActedInv`); a key has one run (`Single`),
and the first handling is exclusive, so the run that takes a row out of
`received` is the one that keeps it `processing`. The lemmas `ProcessTouches`,
`ProcessFresh`, `ProcessActs` and `ProcessHandles` say what one step of a run
does, each with one case per statement of `ProcessDelivery`.

`ClaimQueueProofs` proves, for any rows, runners, replicas and bounds:

* `TypeCorrect`, which includes that no row is locked by two claims.
* `NoLocalWakeupLost` and `NoRemoteWakeupLost`: `Spec => []LocalWakeup` and
  `Spec => []RemoteWakeup`. The properties speak of waiting calls; they become
  inductive when they also speak of calls that have looked and not yet begun to
  wait (`Awaits`), since that is the window in which a notification could be
  missed. `CallFacts` is the heart of it: a step of a call never makes it wait
  for a queued row that it did not wait for before, because a call that finds
  nothing is blind to every row it may claim. `CountedInv` adds that finished
  bumps leave the counter above the 0 a failed baseline read stands for.

`RunnerControllerProofs` proves, for any finite set of executions over any tasks,
any subset of them resumable, any `max_concurrent` and number of restarts
(`RunnerAssumption`; the set is finite since slots are counted):

* `TypeCorrect`, and `SlotsAlwaysAccounted` (`[]SlotsAccounted`). `Counted` adds
  that the task group counts the goroutines that have joined it. `CountMoves`
  says once what the move of one goroutine does to a cardinality; each action
  then only names the phase it leaves and the phase it enters.
* `SandboxesExclusive` (`[]OneSandboxPerTask`). The map of sessions holds one
  execution per task, and a goroutine owes a teardown only while it is in the map
  (`Registered`).
* `RetainedWorkspacesSurvive` (`[]RetainedWorkspaceOnDisk`) and
  `RunningAgentsHaveWorkspaces` (`[]RunningAgentHasWorkspace`). A workspace can
  be destroyed by its execution's own defers, by the pruner with an old verdict
  and by nothing else, so the invariant says of every retained workspace that its
  execution is over, that the defers left to run spare it and that no verdict of
  the pruner names it (`Kept`), that a path is reported only of a workspace that
  was preserved (`Preserved`), and that an attempt that runs in another's
  directory does so because that directory is retained (`Attempted`).
* `ReaperSparesLive` (`ReaperSparesLiveWork`): a verdict of the container reaper
  names an execution that is over and no longer registered, and neither can be
  undone while the verdict waits (`Contained`, `Unstarted`).
* `CleanExitsAfterCleanup` (`CleanExitAfterCleanup`): when the task group is empty,
  by `Counted` nobody is in it. From there to the exit main is draining, so
  nothing is spawned, and only goroutines in `late` can move (`Unlisted`).

The parts are proved together (`IInv`); TLC has checked `IInv` exhaustively on
the instance of `runner`.

Only model-checked: the liveness properties, since fairness and ENABLED are out of
the prover's reach. Every invariant, action property and refinement that a
passing run checks is also proved.

## 9. Plan and what is not modelled

Next, in this order:

1. The head-of-line effect of a refused row, which needs the order of
   `ClaimQueue` together with the attempt limit of `TaskLifecycle`.
2. What the code keeps of a task whose older session was resumed, beyond
   `TaskQueue`: which of the two sessions a report reaches, row by row.
3. The reclaim pass with two tasks under fairness, in a smaller instance.

Not modelled:

* the retry loop of `tx.go`: its outcomes (done, not done, done although an error
  is returned) are outcomes of the actions of every module;
* the inside of the progress watchdog, the serve proxies' adapters, network and
  MCP relays: protocol adapters whose only effects on the modelled state are the
  verdicts `WatchdogFails` and `PromptReturns`;
* Kubernetes and local modes of the runner;
* `RunTriggerNow`, edits of a trigger's schedule, the promotion of a draft to a
  pull request; retention of GitHub deliveries, which is off by default;
* definitions parsing, model resolution, SSRF policy, redaction: pure functions
  over text and addresses, with tests of their own and no interleaving;
* authentication, the read-only web API and its event bus, search, usage, metrics,
  self-test, tools and command line: reads, or argument parsing in front of
  modelled operations;
* generated code, about two fifths of the implementation's lines: the models
  translate the SQL it is generated from.

This is why the modules cover a modest share of the repository's lines although
they cover most of the operations that change shared state: the greater part of
the code is generated, or moves, formats and validates data.
