-------------------------- MODULE RunnerController --------------------------
(***************************************************************************)
(* One runner process: the claim loop, the goroutine of every claimed      *)
(* execution, the heartbeat loop, the two reapers, the drain and the exit, *)
(* a crash and the restart under the same runner id.  The control plane is *)
(* what the runner can see of it: which attempts are still running, which  *)
(* workspaces a resumable session retains, and a pending drain request.    *)
(***************************************************************************)
EXTENDS Naturals, FiniteSets

CONSTANTS
  Executions,     \* execution attempts the control plane may hand out
  TaskOf,         \* the task of each execution
  Resumable,      \* executions with CheckpointAfterSuccess
  Checkpointed,   \* executions whose container has a docker checkpoint (an operator's)
  MaxConcurrent,  \* runner.max_concurrent
  MaxRestarts,    \* bound: restarts of the process
  NoExecution     \* no execution

ASSUME RunnerAssumption ==
  /\ IsFiniteSet(Executions) /\ Resumable \subseteq Executions
  /\ Checkpointed \subseteq Executions
  /\ MaxConcurrent \in Nat \ {0}
  /\ MaxRestarts \in Nat
  /\ NoExecution \notin Executions

VARIABLES
  attempt,   \* control plane: queued, running or over
  retained,  \* control plane: workspaces of resumable sessions
  drainReq,  \* control plane: the runner_drain_requests row
  main,      \* the goroutine of startConnectRPC
  draining,  \* the draining flag
  forced,    \* forcedExit
  late,      \* history: spawned, but not in the task group when it was found empty
  loop,      \* the claim loop
  got,       \* the execution in the claim loop's hand
  sem,       \* slots taken of the semaphore
  wg,        \* the taskWG counter
  tasks,     \* the tasks map: registered sessions
  run,       \* the goroutine and the session of each execution
  disk,      \* workspaces on disk
  boxes,     \* task containers
  prune,     \* the workspace the workspace reaper has a verdict for
  sweep,     \* the container the container reaper has a verdict for
  restarts

server == <<attempt, retained, drainReq>>
process == <<main, draining, forced, late>>
claiming == <<loop, got, sem>>
store == <<disk, boxes>>
reapers == <<prune, sweep>>
vars == <<server, process, claiming, wg, tasks, run, store, reapers, restarts>>

Slots == MaxConcurrent + 1

Phases == {"none", "spawned", "entered", "preparing", "workspace", "agent",
           "finalizing", "exporting", "reporting", "teardown", "recovering", "gone"}

\* The phases in which the task's context is still read.
Cancellable == {"preparing", "workspace", "agent", "finalizing"}

\* ws is the directory the session works in, defers what runTask's defers
\* still have to undo.
Goroutine == [pc : Phases, ctx : {"live", "cancelled", "deadline"}, stuck : BOOLEAN,
              status : {"none", "done", "error", "cancelled"},
              path : BOOLEAN, preserve : BOOLEAN, pause : BOOLEAN, panicked : BOOLEAN,
              defers : SUBSET {"box", "workspace", "session"}, ws : Executions]

TypeOK ==
  /\ attempt \in [Executions -> {"queued", "running", "over"}]
  /\ retained \subseteq Executions
  /\ drainReq \in BOOLEAN
  /\ main \in {"serving", "signalled", "waiting", "cleanup", "reports", "stopping", "stopped"}
  /\ draining \in BOOLEAN /\ forced \in BOOLEAN /\ late \subseteq Executions
  /\ loop \in {"top", "wait", "polling", "got", "returned"}
  /\ got \in Executions \cup {NoExecution}
  /\ (loop = "got") = (got # NoExecution)
  /\ sem \in 0 .. Slots
  /\ wg \in 0 .. Cardinality(Executions)
  /\ tasks \subseteq Executions
  /\ run \in [Executions -> Goroutine]
  /\ disk \subseteq Executions /\ boxes \subseteq Executions
  /\ prune \in Executions \cup {NoExecution}
  /\ sweep \in Executions \cup {NoExecution}
  /\ restarts \in 0 .. MaxRestarts

Fresh(e) == [pc |-> "none", ctx |-> "live", stuck |-> FALSE, status |-> "none", path |-> FALSE,
             preserve |-> FALSE, pause |-> FALSE, panicked |-> FALSE, defers |-> {}, ws |-> e]

Init ==
  /\ attempt = [e \in Executions |-> "queued"]
  /\ retained = {} /\ drainReq = FALSE
  /\ main = "serving" /\ draining = FALSE /\ forced = FALSE /\ late = {}
  /\ loop = "top" /\ got = NoExecution /\ sem = 0
  /\ wg = 0 /\ tasks = {} /\ run = [e \in Executions |-> Fresh(e)]
  /\ disk = {} /\ boxes = {}
  /\ prune = NoExecution /\ sweep = NoExecution
  /\ restarts = 0

Up == main # "stopped"

\* The run context lives until the signal handler cancels it.
Serving == main \in {"serving", "signalled"}
-----------------------------------------------------------------------------
(***************************************************************************)
(* The claim loop.  The host-pressure gate only delays it.                 *)
(***************************************************************************)

\* The draining test at the top of the loop.
ClaimTop ==
  /\ Up /\ loop = "top"
  /\ loop' = IF draining \/ ~Serving THEN "returned" ELSE "wait"
  /\ UNCHANGED <<server, process, got, sem, wg, tasks, run, store, reapers, restarts>>

\* A slot, and the second draining test.
ClaimSlot ==
  /\ Up /\ loop = "wait" /\ sem < Slots
  /\ loop' = IF draining THEN "returned" ELSE "polling"
  /\ sem' = IF draining THEN sem ELSE sem + 1
  /\ UNCHANGED <<server, process, got, wg, tasks, run, store, reapers, restarts>>

\* The run context ends the wait for a slot.
ClaimSlotCancelled ==
  /\ Up /\ loop = "wait" /\ ~Serving
  /\ loop' = "returned"
  /\ UNCHANGED <<server, process, got, sem, wg, tasks, run, store, reapers, restarts>>

\* The control plane gives out an execution of a task none of whose attempts
\* runs; a resume names the retained workspace of an earlier attempt.
Claimable(e) ==
  /\ attempt[e] = "queued" /\ ~drainReq
  /\ \A f \in Executions : TaskOf[f] = TaskOf[e] => attempt[f] # "running"

WorkspaceFor(e) ==
  {e} \cup {w \in retained : TaskOf[w] = TaskOf[e]}

\* A claim of e whose session works in w: the session of w is running again,
\* and the other retained session of the task, if any, stays as it is.
PollClaim(e, w) ==
  /\ Up /\ loop = "polling" /\ Claimable(e) /\ w \in WorkspaceFor(e)
  /\ attempt' = [attempt EXCEPT ![e] = "running"]
  /\ run' = [run EXCEPT ![e].ws = w]
  /\ loop' = "got" /\ got' = e
  /\ UNCHANGED <<retained, drainReq, process, sem, wg, tasks, store, reapers, restarts>>

\* Mutant of PollNothing: the slot of an empty poll is not given back.
PollNothingKeepsSlot ==
  /\ Up /\ loop = "polling"
  /\ loop' = IF ~Serving THEN "returned" ELSE "top"
  /\ UNCHANGED <<server, process, got, sem, wg, tasks, run, store, reapers, restarts>>

\* No task, an error, or a claim whose answer is lost.
PollNothing ==
  /\ Up /\ loop = "polling"
  /\ \/ attempt' = attempt /\ run' = run
     \/ \E e \in Executions : \E w \in WorkspaceFor(e) :
          /\ Claimable(e)
          /\ attempt' = [attempt EXCEPT ![e] = "running"]
          /\ run' = [run EXCEPT ![e].ws = w]
  /\ sem' = sem - 1
  /\ loop' = IF ~Serving THEN "returned" ELSE "top"
  /\ UNCHANGED <<retained, drainReq, process, got, wg, tasks, store, reapers, restarts>>

\* The slot moves to the task's goroutine; a draining runner drops the claim.
ClaimSpawn ==
  /\ Up /\ loop = "got"
  /\ got' = NoExecution
  /\ IF draining
     THEN sem' = sem - 1 /\ loop' = "returned" /\ run' = run
     ELSE sem' = sem /\ loop' = "top" /\ run' = [run EXCEPT ![got].pc = "spawned"]
  /\ UNCHANGED <<server, process, wg, tasks, store, reapers, restarts>>
-----------------------------------------------------------------------------
(***************************************************************************)
(* runTask.                                                                *)
(***************************************************************************)

At(e, phases) == Up /\ run[e].pc \in phases

\* A step of the goroutine of e that changes nothing but its own record.
Alone == UNCHANGED <<server, process, claiming, wg, tasks, store, reapers, restarts>>

\* The goroutine starts and joins the task group.
Enter(e) ==
  /\ At(e, {"spawned"})
  /\ wg' = wg + 1
  /\ run' = [run EXCEPT ![e].pc = "entered"]
  /\ UNCHANGED <<server, process, claiming, tasks, store, reapers, restarts>>

Failed(g) == [g EXCEPT !.pc = "reporting", !.status = "error", !.ctx = "live",
                       !.stuck = FALSE, !.pause = FALSE]

\* The gates: execution id, resource limits and isolation.
GateRefuses(e) ==
  /\ At(e, {"entered"})
  /\ run' = [run EXCEPT ![e] = Failed(@)]
  /\ Alone

LiveExecutions(task) == {f \in tasks : TaskOf[f] = task}

\* Mutant of Register: a live execution of the task does not refuse another.
RegisterAnyway(e) ==
  /\ At(e, {"entered"})
  /\ tasks' = tasks \cup {e}
  /\ run' = [run EXCEPT ![e].pc = "preparing", ![e].defers = {"session"},
                        ![e].ctx = IF ~Serving THEN "cancelled" ELSE "live"]
  /\ UNCHANGED <<server, process, claiming, wg, store, reapers, restarts>>

\* The duplicate test and the registration, under one lock.  The task's
\* context derives from the run context.
Register(e) ==
  /\ At(e, {"entered"})
  /\ IF LiveExecutions(TaskOf[e]) # {}
     THEN tasks' = tasks /\ run' = [run EXCEPT ![e] = Failed(@)]
     ELSE /\ tasks' = tasks \cup {e}
          /\ run' = [run EXCEPT ![e].pc = "preparing", ![e].defers = {"session"},
                                ![e].ctx = IF ~Serving THEN "cancelled" ELSE "live"]
  /\ UNCHANGED <<server, process, claiming, wg, store, reapers, restarts>>

\* A fresh session creates its directory; a resume only resolves the one it
\* names, which no defer of this execution destroys.
OpenWorkspace(e) ==
  LET w == run[e].ws IN
  /\ At(e, {"preparing"})
  /\ IF w = e
     THEN /\ disk' = disk \cup {e}
          /\ run' = [run EXCEPT ![e].pc = "workspace", ![e].defers = @ \cup {"workspace"}]
     ELSE /\ disk' = disk
          /\ run' = [run EXCEPT ![e] = IF w \in disk THEN [@ EXCEPT !.pc = "workspace"]
                                                     ELSE Failed(@)]
  /\ UNCHANGED <<server, process, claiming, wg, tasks, boxes, reapers, restarts>>

\* Any error before the container runs, or before the prompt is sent.
PrepareFails(e) ==
  /\ At(e, {"preparing", "workspace", "agent"})
  /\ run' = [run EXCEPT ![e] = Failed(@)]
  /\ Alone

\* docker run.  The deferred removal is registered only after it succeeds, so
\* a command killed by the task's context may leave a container behind.
StartContainer(e) ==
  /\ At(e, {"workspace"})
  /\ boxes' = boxes \cup {e}
  /\ run' = [run EXCEPT ![e].pc = "agent", ![e].defers = @ \cup {"box"}]
  /\ UNCHANGED <<server, process, claiming, wg, tasks, disk, reapers, restarts>>

StartContainerFails(e) ==
  /\ At(e, {"workspace"})
  /\ boxes' \in {boxes, boxes \cup {e}}
  /\ run' = [run EXCEPT ![e] = Failed(@)]
  /\ UNCHANGED <<server, process, claiming, wg, tasks, disk, reapers, restarts>>

\* The watchdog marks the harness stuck before it cancels the prompt.
WatchdogFails(e) ==
  /\ At(e, {"agent"}) /\ ~run[e].stuck
  /\ run' = [run EXCEPT ![e].stuck = TRUE]
  /\ Alone

\* The prompt returns; a stuck harness overrides a result that came in first.
PromptReturns(e, ok) ==
  /\ At(e, {"agent"})
  /\ run' = [run EXCEPT ![e].pc = "finalizing",
                        ![e].status = IF ok /\ ~run[e].stuck THEN "done" ELSE "error"]
  /\ Alone

\* The task's own timeout.
TaskTimeout(e) ==
  /\ At(e, Cancellable) /\ run[e].ctx = "live"
  /\ run' = [run EXCEPT ![e].ctx = "deadline"]
  /\ Alone

\* The terminal status: cancellationStatus, unless stuck, unless pausing.
FinalStatus(g) ==
  IF g.status = "error" /\ g.ctx = "cancelled" /\ ~g.stuck /\ ~g.pause
  THEN "cancelled" ELSE g.status

DecideStatus(e) ==
  /\ At(e, {"finalizing"})
  /\ run' = [run EXCEPT ![e].status = FinalStatus(run[e]), ![e].pc = "exporting",
                        ![e].ctx = "live", ![e].stuck = FALSE, ![e].pause = FALSE]
  /\ Alone

\* Mutant of DecideWorkspace: the path is reported, the directory not kept.
DecideWorkspaceReportsOnly(e, recoverable) ==
  LET g == run[e]
      keep == e \in Resumable /\ (g.status = "done" \/ recoverable \/ g.preserve)
  IN  /\ At(e, {"exporting"})
      /\ run' = [run EXCEPT ![e].path = keep, ![e].pc = "reporting"]
      /\ Alone

\* Whether the workspace is kept and reported, then the abort, the stop of
\* the container and the session export.  PreserveWorkspace is read without
\* the lock under which the drain sets it, after the status was decided.
DecideWorkspace(e, recoverable) ==
  LET g == run[e]
      keep == e \in Resumable /\ (g.status = "done" \/ recoverable \/ g.preserve)
  IN  /\ At(e, {"exporting"})
      /\ run' = [run EXCEPT ![e].path = keep, ![e].preserve = @ \/ keep, ![e].pc = "reporting"]
      /\ Alone

\* recordTaskEvent retains the reported workspace of a session it pauses (an
\* error only if its category is recoverable) and releases that of one it ends.
Retention(g) ==
  LET kept == retained \cup {g.ws}
      released == retained \ {g.ws}
  IN  CASE g.pc = "reporting" /\ g.path /\ g.status = "done" -> {kept}
        [] g.pc = "reporting" /\ g.path /\ g.status = "error" -> {kept, released}
        [] OTHER -> {released}

\* The defers run: of the session only what they read is left.
Unwound(g, panic) ==
  [Fresh(g.ws) EXCEPT !.pc = "teardown", !.preserve = g.preserve, !.defers = g.defers,
                      !.panicked = panic]

Ended(g) == [Fresh(g.ws) EXCEPT !.pc = "gone"]

AfterReport(g) == IF g.pc = "reporting" THEN Unwound(g, FALSE) ELSE Ended(g)

\* The terminal report.  It counts only while the control plane holds the
\* attempt running; lost answers are retried, the report is fenced.
ReportDelivered(e) ==
  LET g == run[e] IN
  /\ At(e, {"reporting", "recovering"})
  /\ attempt' = [attempt EXCEPT ![e] = "over"]
  /\ retained' \in IF attempt[e] = "running" THEN Retention(g) ELSE {retained}
  /\ run' = [run EXCEPT ![e] = AfterReport(g)]
  /\ sem' = IF g.pc = "reporting" THEN sem ELSE sem - 1
  /\ wg' = IF g.pc = "reporting" THEN wg ELSE wg - 1
  /\ UNCHANGED <<drainReq, process, loop, got, tasks, store, reapers, restarts>>

\* The retry window, or what the hard-kill deadline leaves of it, ends.
ReportLost(e) ==
  LET g == run[e] IN
  /\ At(e, {"reporting", "recovering"})
  /\ run' = [run EXCEPT ![e] = AfterReport(g)]
  /\ sem' = IF g.pc = "reporting" THEN sem ELSE sem - 1
  /\ wg' = IF g.pc = "reporting" THEN wg ELSE wg - 1
  /\ UNCHANGED <<server, process, loop, got, tasks, store, reapers, restarts>>

\* A panic anywhere in the registered part of runTask unwinds the defers.
Panics(e) ==
  /\ At(e, {"preparing", "workspace", "agent", "finalizing", "exporting", "reporting"})
  /\ e \in tasks
  /\ run' = [run EXCEPT ![e] = Unwound(@, TRUE)]
  /\ Alone

\* removeTaskContainer retries, and may give up.
TeardownContainer(e) ==
  /\ At(e, {"teardown"}) /\ "box" \in run[e].defers
  /\ boxes' \in {boxes, boxes \ {e}}
  /\ run' = [run EXCEPT ![e].defers = @ \ {"box"}]
  /\ UNCHANGED <<server, process, claiming, wg, tasks, disk, reapers, restarts>>

\* Destroy, unless the session is preserved; a failure is only logged.
TeardownWorkspace(e) ==
  /\ At(e, {"teardown"}) /\ "workspace" \in run[e].defers /\ "box" \notin run[e].defers
  /\ disk' \in IF run[e].preserve THEN {disk} ELSE {disk, disk \ {e}}
  /\ run' = [run EXCEPT ![e].defers = @ \ {"workspace"}]
  /\ UNCHANGED <<server, process, claiming, wg, tasks, boxes, reapers, restarts>>

\* Mutant of TeardownSession: the session stays in the tasks map.
TeardownSessionKept(e) ==
  /\ At(e, {"teardown"}) /\ run[e].defers = {"session"}
  /\ run' = [run EXCEPT ![e].defers = {}]
  /\ Alone

TeardownSession(e) ==
  /\ At(e, {"teardown"}) /\ run[e].defers = {"session"}
  /\ tasks' = tasks \ {e}
  /\ run' = [run EXCEPT ![e].defers = {}]
  /\ UNCHANGED <<server, process, claiming, wg, store, reapers, restarts>>

\* Mutant of Leave: a goroutine that returns without a panic stays in the group.
LeaveInGroup(e) ==
  /\ At(e, {"teardown"}) /\ run[e].defers = {}
  /\ IF run[e].panicked
     THEN run' = [run EXCEPT ![e].pc = "recovering"] /\ sem' = sem
     ELSE run' = [run EXCEPT ![e] = Ended(@)] /\ sem' = sem - 1
  /\ UNCHANGED <<server, process, loop, got, wg, tasks, store, reapers, restarts>>

\* The recovered panic is reported after the session is gone; then the slot
\* and the task group are released.
Leave(e) ==
  /\ At(e, {"teardown"}) /\ run[e].defers = {}
  /\ IF run[e].panicked
     THEN /\ run' = [run EXCEPT ![e].pc = "recovering"]
          /\ UNCHANGED <<sem, wg>>
     ELSE /\ run' = [run EXCEPT ![e] = Ended(@)]
          /\ sem' = sem - 1 /\ wg' = wg - 1
  /\ UNCHANGED <<server, process, loop, got, tasks, store, reapers, restarts>>
-----------------------------------------------------------------------------
(***************************************************************************)
(* Heartbeats, drain and exit.                                             *)
(***************************************************************************)

\* The control plane answers a heartbeat that lists e with a cancel command
\* when the attempt no longer runs; a session is cancelled once.
HeartbeatCancels(e) ==
  /\ Serving
  /\ e \in tasks /\ attempt[e] = "over" /\ run[e].pc \in Cancellable /\ run[e].ctx = "live"
  /\ run' = [run EXCEPT ![e].ctx = "cancelled"]
  /\ Alone

\* Mutant of HeartbeatDrains: a "draining" heartbeat acknowledges nothing.
HeartbeatDrainsUnacked ==
  /\ Serving
  /\ drainReq /\ ~draining
  /\ draining' = TRUE
  /\ UNCHANGED <<server, main, forced, late, claiming, wg, tasks, run, store, reapers, restarts>>

\* The drain command is repeated until a heartbeat reports "draining".
HeartbeatDrains ==
  /\ Serving
  /\ drainReq
  /\ IF draining THEN drainReq' = FALSE /\ draining' = draining
                 ELSE drainReq' = drainReq /\ draining' = TRUE
  /\ UNCHANGED <<attempt, retained, main, forced, late, claiming, wg, tasks, run, store,
                 reapers, restarts>>

\* BeginGracefulShutdown: the first transition publishes "draining", once; the
\* call may fail.
Sigterm ==
  /\ main = "serving"
  /\ main' = "signalled" /\ draining' = TRUE
  /\ drainReq' \in {drainReq, drainReq /\ draining}
  /\ UNCHANGED <<attempt, retained, forced, late, claiming, wg, tasks, run, store,
                 reapers, restarts>>

Cancelled(S) == [e \in Executions |->
  IF e \in S /\ run[e].pc \in Cancellable /\ run[e].ctx = "live" THEN [run[e] EXCEPT !.ctx = "cancelled"] ELSE run[e]]

\* Then cancel() ends the run context, of which every task context derives.
CancelRunContext ==
  /\ main = "signalled"
  /\ main' = "waiting"
  /\ run' = Cancelled(tasks)
  /\ UNCHANGED <<server, draining, forced, late, claiming, wg, tasks, store, reapers, restarts>>

\* waitDrain: no session is left.
DrainDone ==
  /\ main = "waiting" /\ tasks = {}
  /\ main' = "cleanup"
  /\ UNCHANGED <<server, draining, forced, late, claiming, wg, tasks, run, store, reapers,
                 restarts>>

\* waitDrain: the deadline; resumable sessions are to keep their workspace.
DrainDeadline ==
  /\ main = "waiting" /\ tasks # {}
  /\ main' = "cleanup" /\ forced' = TRUE
  /\ run' = [e \in Executions |->
               IF e \in tasks \cap Resumable
               THEN [Cancelled(tasks)[e] EXCEPT !.preserve = TRUE, !.pause = run[e].pc \in Cancellable]
               ELSE Cancelled(tasks)[e]]
  /\ UNCHANGED <<server, draining, late, claiming, wg, tasks, store, reapers, restarts>>

\* Only main moves.
OnlyMain == UNCHANGED <<server, draining, claiming, wg, tasks, run, store, reapers, restarts>>

Spawned == {e \in Executions : run[e].pc = "spawned"}

\* Mutant of CleanupDone: the task group is not joined.
CleanupSkipped ==
  /\ main = "cleanup"
  /\ main' = "reports" /\ late' = Spawned /\ forced' = forced
  /\ OnlyMain

\* waitForTaskCleanup: taskWG.Wait returns.  A goroutine that was spawned has
\* perhaps not joined the group yet, and goes on.
CleanupDone ==
  /\ main = "cleanup" /\ wg = 0
  /\ main' = "reports" /\ late' = Spawned /\ forced' = forced
  /\ OnlyMain

\* reportWG.Wait returns.  The goroutines it counts are in the phases reporting
\* and recovering, but join only within them, so they need not delay it.
ReportsDone ==
  /\ main = "reports"
  /\ main' = "stopping"
  /\ UNCHANGED <<forced, late>> /\ OnlyMain

\* The hard-kill timer of waitForTaskCleanup fires first, in either wait.
HardKill ==
  /\ main \in {"cleanup", "reports"}
  /\ main' = "stopping" /\ forced' = TRUE
  /\ late' = late /\ OnlyMain

\* The process ends and its memory with it; workspaces and containers stay.
Exit ==
  /\ main' = "stopped" /\ draining' = FALSE /\ late' = {}
  /\ loop' = "top" /\ got' = NoExecution /\ sem' = 0
  /\ wg' = 0 /\ tasks' = {}
  /\ run' = [e \in Executions |->
       [Fresh(run[e].ws) EXCEPT !.pc = IF attempt[e] = "queued" THEN "none" ELSE "gone"]]
  /\ prune' = NoExecution /\ sweep' = NoExecution
  /\ UNCHANGED <<server, store, restarts>>

\* The "stopping" heartbeat and stopNetwork are over: Start returns to main,
\* which exits.  The goroutines run until then.
ProcessExits == main = "stopping" /\ forced' = forced /\ Exit

\* The process is killed.
Crash == main # "stopped" /\ restarts < MaxRestarts /\ forced' = TRUE /\ Exit

\* A new process with the persisted runner id.
Restart ==
  /\ main = "stopped" /\ restarts < MaxRestarts
  /\ restarts' = restarts + 1
  /\ main' = "serving" /\ forced' = FALSE
  /\ UNCHANGED <<server, draining, late, claiming, wg, tasks, run, store, reapers>>
-----------------------------------------------------------------------------
(***************************************************************************)
(* The reapers.  The control plane's verdict is used after it was given.   *)
(***************************************************************************)

\* PruneWorkspaces in either scope protects a running attempt; workspaces of
\* resumable sessions are protected as workspaces only.
ProtectedWorkspace(w) == attempt[w] = "running" \/ w \in retained

\* Mutant of PruneVerdict: retained sessions are not protected.
PruneVerdictRunningOnly(w) ==
  /\ Serving /\ prune = NoExecution
  /\ w \in disk /\ attempt[w] # "running"
  /\ prune' = w
  /\ UNCHANGED <<server, process, claiming, wg, tasks, run, store, sweep, restarts>>

PruneVerdict(w) ==
  /\ Serving /\ prune = NoExecution
  /\ w \in disk /\ ~ProtectedWorkspace(w)
  /\ prune' = w
  /\ UNCHANGED <<server, process, claiming, wg, tasks, run, store, sweep, restarts>>

\* A directory whose own execution is registered here is skipped; a failure is
\* only logged.
PruneDestroy ==
  /\ Up /\ prune # NoExecution
  /\ disk' \in IF prune \in tasks THEN {disk} ELSE {disk, disk \ {prune}}
  /\ prune' = NoExecution
  /\ UNCHANGED <<server, process, claiming, wg, tasks, run, boxes, sweep, restarts>>

\* Mutant of SweepVerdict: the control plane is not asked.
SweepVerdictLocalOnly(e) ==
  /\ Serving /\ sweep = NoExecution
  /\ e \in boxes /\ e \notin tasks
  /\ sweep' = e
  /\ UNCHANGED <<server, process, claiming, wg, tasks, run, store, prune, restarts>>

\* Mutant of SweepVerdict: the workspace scope, which protects retained sessions.
SweepVerdictWorkspaceScope(e) ==
  /\ Serving /\ sweep = NoExecution
  /\ e \in boxes /\ e \notin tasks /\ ~ProtectedWorkspace(e)
  /\ sweep' = e
  /\ UNCHANGED <<server, process, claiming, wg, tasks, run, store, prune, restarts>>

\* A container of no session here, old enough, of no running attempt.
SweepVerdict(e) ==
  /\ Serving /\ sweep = NoExecution
  /\ e \in boxes /\ e \notin tasks /\ attempt[e] # "running"
  /\ sweep' = e
  /\ UNCHANGED <<server, process, claiming, wg, tasks, run, store, prune, restarts>>

\* A container with a checkpoint is skipped; removeTaskContainer may give up.
SweepRemove ==
  /\ Up /\ sweep # NoExecution
  /\ boxes' \in IF sweep \in Checkpointed THEN {boxes} ELSE {boxes, boxes \ {sweep}}
  /\ sweep' = NoExecution
  /\ UNCHANGED <<server, process, claiming, wg, tasks, run, disk, prune, restarts>>
-----------------------------------------------------------------------------
(***************************************************************************)
(* The control plane, as far as it concerns this runner.                   *)
(***************************************************************************)

Environment == UNCHANGED <<process, claiming, wg, tasks, run, store, reapers, restarts>>

\* An operator cancels, or the lease passes because heartbeats are lost.
AttemptEnds(e) ==
  /\ attempt[e] = "running"
  /\ attempt' = [attempt EXCEPT ![e] = "over"]
  /\ retained' = retained \ {run[e].ws}
  /\ drainReq' = drainReq
  /\ Environment

\* An execution no heartbeat lists is not renewed.
LeaseExpires(e) == (e \notin tasks \/ ~Up) /\ AttemptEnds(e)

SessionExpires(w) ==
  /\ w \in retained
  /\ \A e \in Executions : run[e].ws = w => attempt[e] # "running"
  /\ retained' = retained \ {w}
  /\ UNCHANGED <<attempt, drainReq>>
  /\ Environment

RequestDrain ==
  /\ ~drainReq
  /\ drainReq' = TRUE
  /\ UNCHANGED <<attempt, retained>>
  /\ Environment

\* The request of a runner that no longer sends heartbeats is dropped.
ReapStaleRunnerDrains ==
  /\ drainReq /\ main = "stopped"
  /\ drainReq' = FALSE
  /\ UNCHANGED <<attempt, retained>>
  /\ Environment
-----------------------------------------------------------------------------
RunTask(e) ==
  \/ Enter(e) \/ GateRefuses(e) \/ Register(e) \/ OpenWorkspace(e) \/ PrepareFails(e)
  \/ StartContainer(e) \/ StartContainerFails(e)
  \/ \E ok \in BOOLEAN : PromptReturns(e, ok)
  \/ DecideStatus(e)
  \/ \E recoverable \in BOOLEAN : DecideWorkspace(e, recoverable)
  \/ ReportDelivered(e) \/ ReportLost(e)
  \/ TeardownContainer(e) \/ TeardownWorkspace(e) \/ TeardownSession(e) \/ Leave(e)

ClaimLoop ==
  \/ ClaimTop \/ ClaimSlot \/ ClaimSlotCancelled
  \/ \E e, w \in Executions : PollClaim(e, w)
  \/ PollNothing \/ ClaimSpawn

Next ==
  \/ ClaimLoop
  \/ \E e \in Executions :
       RunTask(e) \/ WatchdogFails(e) \/ TaskTimeout(e) \/ Panics(e)
       \/ HeartbeatCancels(e) \/ PruneVerdict(e) \/ SweepVerdict(e)
       \/ AttemptEnds(e) \/ SessionExpires(e)
  \/ HeartbeatDrains \/ Sigterm \/ CancelRunContext
  \/ DrainDone \/ DrainDeadline \/ CleanupDone \/ ReportsDone \/ HardKill \/ ProcessExits
  \/ Crash \/ Restart
  \/ PruneDestroy \/ SweepRemove \/ RequestDrain \/ ReapStaleRunnerDrains

Spec == Init /\ [][Next]_vars

\* Every call a task goroutine blocks in is bounded: by the task's context,
\* which ends at the latest with its timeout, by the window of a report or by
\* the timeout of a cleanup command.  Loops and reapers tick, and a removal that
\* is tried in pass after pass succeeds some time.  The drain deadline and the
\* hard-kill timer are not relied on.
FairSpec ==
  /\ Spec
  /\ WF_vars(ClaimLoop) /\ WF_vars(HeartbeatDrains)
  /\ \A e \in Executions :
       /\ WF_vars(RunTask(e)) /\ WF_vars(LeaseExpires(e))
       /\ WF_vars(SweepVerdict(e))
       /\ SF_vars(sweep = e /\ SweepRemove /\ e \notin boxes')
  /\ WF_vars(PruneDestroy) /\ WF_vars(SweepRemove)
  /\ WF_vars(CancelRunContext) /\ WF_vars(DrainDone)
  /\ WF_vars(CleanupDone) /\ WF_vars(ReportsDone) /\ WF_vars(ProcessExits)
-----------------------------------------------------------------------------
(***************************************************************************)
(* Properties.                                                             *)
(***************************************************************************)

Holding == Phases \ {"none", "gone"}

\* Every slot of the semaphore is the claim loop's or one goroutine's, through
\* refusals, dropped claims, panics and failed reports (claimLoop, runTask).
SlotsAccounted ==
  sem = Cardinality({e \in Executions : run[e].pc \in Holding})
              + (IF loop \in {"polling", "got"} THEN 1 ELSE 0)

\* A workspace the control plane keeps for a resume is on this runner's disk:
\* no teardown, drain, crash or pruning with an old verdict removes it.
RetainedWorkspaceOnDisk == retained \subseteq disk

\* An agent the control plane holds running still has its directory, also when
\* it resumes in the directory of another execution.
RunningAgentHasWorkspace ==
  \A e \in Executions :
    (run[e].pc \in {"agent", "finalizing", "exporting"} /\ attempt[e] = "running")
      => run[e].ws \in disk

\* Two goroutines never own sandboxes of one task (runTask's refusal of a
\* second live execution, the 2026-09-20 incident).
OneSandboxPerTask ==
  \A e, f \in Executions :
    (e # f /\ TaskOf[e] = TaskOf[f])
      => ~("box" \in run[e].defers /\ "box" \in run[f].defers)

\* An exit reported as clean cuts no goroutine short, except one that was
\* spawned and had not yet joined the task group when waitForTaskCleanup found
\* it empty: all others have torn down and reported.
CleanExitAfterCleanup ==
  [][(Up /\ main' = "stopped" /\ ~forced') =>
        \A e \in Executions \ late : run[e].pc \in {"none", "gone"}]_vars

\* A container disappears in its own teardown, or when neither the control
\* plane nor this runner holds its execution (sweepOrphanedTaskContainers).
ReaperSparesLiveWork ==
  [][\A e \in boxes \ boxes' :
       run[e].pc = "teardown" \/ (attempt[e] = "over" /\ e \notin tasks)]_vars

\* An execution handed to the runner ends at the control plane: reported, or
\* dropped and then timed out, since only registered sessions are renewed.
ClaimedWorkEnds ==
  \A e \in Executions : (attempt[e] = "running") ~> (attempt[e] = "over")

\* After SIGTERM the process exits, also when neither deadline ever fires: every
\* session leaves the tasks map and every goroutine the task group, whatever
\* state the signal finds them in (waitDrain, waitForTaskCleanup).
SignalledRunnerExits == (main = "signalled") ~> (main = "stopped")

\* A container whose attempt is over is removed, by the teardown or by a pass of
\* the reaper, however often a removal gave up, unless the process stops first
\* or a checkpoint holds the container.
LeakedContainersReaped ==
  \A e \in Executions \ Checkpointed :
    (e \in boxes /\ attempt[e] = "over") ~> (e \notin boxes \/ main = "stopped")

\* A drain request is delivered and acknowledged, unless the process stops.
DrainAcknowledged == drainReq ~> (~drainReq \/ main = "stopped")
=============================================================================
