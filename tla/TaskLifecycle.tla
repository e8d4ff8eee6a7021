--------------------------- MODULE TaskLifecycle ---------------------------
(***************************************************************************)
(* The task aggregate of the chetter server: tasks, their agent sessions,  *)
(* the user prompts of a session and the execution attempt each prompt is  *)
(* run by, as the control plane's RPC handlers (internal/service) and its  *)
(* reaper change them in the database.                                     *)
(*                                                                         *)
(* A database transaction is one action.  A handler that issues several    *)
(* transactions or autocommit statements is several actions, so that other *)
(* replicas and runners interleave where they can.  The runners are the    *)
(* environment: a call of theirs may be lost, repeated or arrive late.     *)
(*                                                                         *)
(* Every InsertUserPrompt is followed, in its transaction, by the          *)
(* InsertPendingExecutionAttempt of its only attempt, so a prompt and its  *)
(* attempt are one row of `work', numbered in insertion order.  An attempt *)
(* is claimed at most once, so naming the attempt names its claim_id.      *)
(***************************************************************************)
EXTENDS Naturals, Sequences, FiniteSets

CONSTANTS
  Tasks,             \* identities of tasks
  Runners,           \* identities of runners
  NoRunner,          \* the NULL runner column
  IsolatedRunners,   \* the runners that advertise enforced isolation
  MaxAttempts,       \* tasks.max_attempts
  AutoRecovery,      \* cfg.AutoRecovery
  MaxPendingTasks,   \* cfg.MaxPendingTasks, 0 disables the admission gate
  Submissions,       \* the [mode, iso] a client submits
  CheckpointRows,    \* TRUE: an earlier release may have left checkpoint tasks queued
  Events,            \* the task events runners report
  Statuses,          \* the statuses runners report of themselves
  MaxRows            \* bound: prompts (and attempts) per task

ResumeModes == {"none", "harness_session", "gvisor_checkpoint"}

\* What a terminal event proves that a later resume needs.
Evidence == {"workspace", "harness", "checkpoint"}

SubmissionType == [mode : {"none", "harness_session"}, iso : BOOLEAN]

EventType == [status      : {"running", "done", "error", "cancelled"},
              recoverable : BOOLEAN,          \* category timeout or transport_error
              evidence    : SUBSET Evidence,
              export      : BOOLEAN]          \* a session export is attached

RunnerStatus == {"unknown", "active", "draining", "stopping", "admission_paused"}

ASSUME ConstantsAssumption ==
  /\ NoRunner \notin Runners
  /\ IsolatedRunners \subseteq Runners
  /\ MaxAttempts \in Nat \ {0}
  /\ AutoRecovery \in BOOLEAN
  /\ MaxPendingTasks \in Nat
  /\ Submissions \subseteq SubmissionType
  /\ CheckpointRows \in BOOLEAN
  /\ Events \subseteq EventType
  /\ Statuses \subseteq RunnerStatus \ {"unknown"}
  /\ MaxRows \in Nat /\ MaxRows >= MaxAttempts

VARIABLES
  task,      \* task[t]: the aggregate of task t
  registry,  \* registry[r]: the runners row of r
  resumes    \* <<t, s, r>>: a resume request found session s resumable on runner r

vars == <<task, registry, resumes>>
-----------------------------------------------------------------------------
(***************************************************************************)
(* Rows.                                                                   *)
(***************************************************************************)

Terminal == {"done", "error", "cancelled"}

Paused == {"paused", "recoverable", "paused_waiting_review"}

\* The statuses the ...ByTask session updates require.
Live == {"running", "resuming"}

ClosedSession == {"completed", "error", "expired", "abandoned"}

\* Attempt status 'error' is written together with an error_category that the
\* reaper's roll-up statements read back, hence the three error values.
Active == {"pending", "running"}

AttemptStatus == Active \cup {"succeeded", "failed", "cancelled", "lost",
                              "timeout", "runner_unavailable", "isolation_unavailable"}

PromptStatus == {"pending", "running", "completed", "failed", "cancelled"}

\* pinned stands for pinned_runner_id and workspace_path, which are written
\* together; saved for harness_session_id and checkpoint_id; ttl for expires_at.
SessionRow == [status : Live \cup Paused \cup ClosedSession,
               pinned : Runners \cup {NoRunner},
               saved  : SUBSET {"harness", "checkpoint"},
               ttl    : BOOLEAN]

\* lease is lease_expires_at against the clock, overdue is "started_at plus
\* timeout_sec plus reaperGrace has passed".
WorkRow == [sess    : Nat \ {0},
            prompt  : PromptStatus,
            export  : BOOLEAN,
            status  : AttemptStatus,
            runner  : Runners \cup {NoRunner},
            req     : Runners \cup {NoRunner},
            lease   : {"none", "live", "expired"},
            overdue : BOOLEAN]

TaskRow == [status : {"absent", "pending", "running"} \cup Terminal,
            cat    : {"none", "runner_unavailable", "other"},
            mode   : ResumeModes,
            iso    : BOOLEAN,
            sess   : Seq(SessionRow),
            work   : Seq(WorkRow)]

\* last_seen_at against the 60 s presence window and the 120 s resume window.
RunnerRow == [status : RunnerStatus, seen : {"fresh", "aging", "stale"}]

\* The type invariant: every row has the columns the schema gives it and
\* every prompt belongs to a session of its task.
TypeOK ==
  /\ task \in [Tasks -> TaskRow]
  /\ registry \in [Runners -> RunnerRow]
  /\ resumes \subseteq Tasks \X (Nat \ {0}) \X Runners
  /\ \A t \in Tasks : \A i \in DOMAIN task[t].work :
        task[t].work[i].sess \in DOMAIN task[t].sess
-----------------------------------------------------------------------------
(***************************************************************************)
(* Operators on one aggregate T.                                           *)
(***************************************************************************)

\* GetAgentSessionByTaskID: the session with the highest sequence.
LatestSession(T) == Len(T.sess)

\* GetUserPromptByTaskID: ORDER BY session.sequence DESC, prompt.sequence DESC.
IsLatestPrompt(T, i) ==
  /\ T.work[i].sess = LatestSession(T)
  /\ \A j \in DOMAIN T.work : T.work[j].sess = LatestSession(T) => j <= i

NewSession(ttl) == [status |-> "running", pinned |-> NoRunner, saved |-> {}, ttl |-> ttl]

NewWork(s, req) ==
  [sess |-> s, prompt |-> "pending", export |-> FALSE, status |-> "pending",
   runner |-> NoRunner, req |-> req, lease |-> "none", overdue |-> FALSE]

\* A new session with its first prompt and queued attempt.
WithNewSession(T, ttl) ==
  [T EXCEPT !.sess = Append(T.sess, NewSession(ttl)),
            !.work = Append(T.work, NewWork(Len(T.sess) + 1, NoRunner))]

\* The UPDATE statements: a column of the rows in a set of row numbers.
MoveAttempts(T, I, st) ==
  [T EXCEPT !.work = [i \in DOMAIN T.work |->
     IF i \in I THEN [T.work[i] EXCEPT !.status = st] ELSE T.work[i]]]

MovePrompts(T, I, st) ==
  [T EXCEPT !.work = [i \in DOMAIN T.work |->
     IF i \in I THEN [T.work[i] EXCEPT !.prompt = st] ELSE T.work[i]]]

MoveSessions(T, S, st) ==
  [T EXCEPT !.sess = [s \in DOMAIN T.sess |->
     IF s \in S THEN [T.sess[s] EXCEPT !.status = st] ELSE T.sess[s]]]

Attempts(T, S) == {i \in DOMAIN T.work : T.work[i].status \in S}

Prompts(T, S) == {i \in DOMAIN T.work : T.work[i].prompt \in S}

Sessions(T, S) == {s \in DOMAIN T.sess : T.sess[s].status \in S}

LatestPrompts(T) == {i \in DOMAIN T.work : IsLatestPrompt(T, i)}

HasRoom(T) == Len(T.work) < MaxRows
-----------------------------------------------------------------------------
(***************************************************************************)
(* Submission, rerun, recovery and resume: the operations behind the       *)
(* pending-task admission gate.                                            *)
(***************************************************************************)

Absent == [status |-> "absent", cat |-> "none", mode |-> "none", iso |-> FALSE,
           sess |-> <<>>, work |-> <<>>]

\* Mutant of Admitted: off by one.
AdmittedAtLimit ==
  \/ MaxPendingTasks = 0
  \/ Cardinality({t \in Tasks : task[t].status = "pending"}) <= MaxPendingTasks

\* withPendingTaskAdmission: the count is taken under the admission row lock.
Admitted ==
  \/ MaxPendingTasks = 0
  \/ Cardinality({t \in Tasks : task[t].status = "pending"}) < MaxPendingTasks

FreshTask(mode, iso, ttl) ==
  WithNewSession([Absent EXCEPT !.status = "pending", !.mode = mode, !.iso = iso], ttl)

\* No handler creates a checkpoint session any more, but every handler still
\* serves the ones in the database.
Inherited ==
  IF CheckpointRows THEN {Absent, FreshTask("gvisor_checkpoint", TRUE, TRUE)} ELSE {Absent}

Init ==
  /\ task \in [Tasks -> Inherited]
  /\ registry = [r \in Runners |-> [status |-> "unknown", seen |-> "stale"]]
  /\ resumes = {}

\* A resumable task always requires isolation and gets an expiry.
SubmitTask(t) ==
  /\ Admitted
  /\ task[t].status = "absent"
  /\ \E in \in Submissions :
       task' = [task EXCEPT ![t] =
                  FreshTask(in.mode, in.mode # "none" \/ in.iso, in.mode # "none")]
  /\ UNCHANGED <<registry, resumes>>

\* A rerun copies the resume mode and isolation of the source's latest
\* session into a new task; its session has no expires_at.
RerunTask(src, t) ==
  /\ Admitted
  /\ task[src].status \in Terminal
  /\ task[t].status = "absent"
  /\ task' = [task EXCEPT ![t] = FreshTask(task[src].mode, task[src].iso, FALSE)]
  /\ UNCHANGED <<registry, resumes>>

\* RequeueTaskForPrompt (the caller checks that the status is terminal).
Requeued(T) == [T EXCEPT !.status = "pending", !.cat = "none"]

RecoverTask(t) ==
  LET T == task[t] IN
  /\ Admitted /\ HasRoom(T)
  /\ T.status \in Terminal
  /\ \E i \in LatestPrompts(T) : T.work[i].export
  /\ task' = [task EXCEPT ![t] = WithNewSession(Requeued(T), T.mode # "none")]
  /\ UNCHANGED <<registry, resumes>>

\* IsRunnerAlive with StaleSeconds 120.
RunnerAlive(r) == registry[r].status = "active" /\ registry[r].seen # "stale"

Resumable(T, s) ==
  /\ T.sess[s].status \in Paused
  /\ T.mode # "none"
  /\ T.sess[s].pinned # NoRunner
  /\ IF T.mode = "gvisor_checkpoint" THEN "checkpoint" \in T.sess[s].saved
                                     ELSE "harness" \in T.sess[s].saved

\* The reads ResumeAgentSession makes before its transaction.  Any number of
\* requests may have passed them, so the entry is never taken back: a commit
\* may rest on it at any later time.
CheckResume(t, s) ==
  LET r == task[t].sess[s].pinned IN
  /\ Resumable(task[t], s)
  /\ RunnerAlive(r)
  /\ resumes' = resumes \cup {<<t, s, r>>}
  /\ UNCHANGED <<task, registry>>

\* Mutant of Resumed: MarkAgentSessionResuming is forgotten.
ResumedStillPaused(T, s, r) ==
  [Requeued(T) EXCEPT !.work = Append(T.work, NewWork(s, r))]

Resumed(T, s, r) ==
  [Requeued(T) EXCEPT !.sess[s].status = "resuming",
                      !.work = Append(T.work, NewWork(s, r))]

\* What the transaction tests again, in RequeueTaskForPrompt and in
\* MarkAgentSessionResuming.
StillResumable(T, s) == T.status \in Terminal /\ T.sess[s].status \in Paused

ResumeAgentSession(t, s, r) ==
  LET T == task[t] IN
  /\ <<t, s, r>> \in resumes
  /\ Admitted /\ HasRoom(T)
  /\ StillResumable(T, s)
  /\ task' = [task EXCEPT ![t] = Resumed(T, s, r)]
  /\ UNCHANGED <<registry, resumes>>
-----------------------------------------------------------------------------
(***************************************************************************)
(* The runner protocol.                                                    *)
(***************************************************************************)

\* GetRunnerIsolationEnabled: an unregistered runner is not isolated.
IsolationEnabled(r) == r \in IsolatedRunners /\ registry[r].status # "unknown"

\* Mutant of Claimable: required_runner_id is ignored.
ClaimableAnywhere(T, i, r) ==
  /\ T.status = "pending"
  /\ T.work[i].status = "pending"
  /\ T.iso => IsolationEnabled(r)

\* GetClaimableExecutionAttemptForUpdate.  SKIP LOCKED passes over rows that
\* concurrent transactions hold, so any claimable row may be the one returned.
Claimable(T, i, r) ==
  /\ T.status = "pending"
  /\ T.work[i].status = "pending"
  /\ T.work[i].req \in {NoRunner, r}
  /\ T.iso => IsolationEnabled(r)

Claimed(T, i, r) ==
  [MovePrompts(T, LatestPrompts(T) \cap Prompts(T, {"pending"}), "running")
     EXCEPT !.status = "running",
            !.work[i] = [@ EXCEPT !.status = "running", !.runner = r,
                                  !.lease = "live", !.overdue = FALSE]]

\* A row whose task used up its attempts makes the claim fail (rolled back).
\* The drain gate in front of the transaction is open when its read fails, so
\* any runner may get this far.
ClaimOnce(r, t, i) ==
  LET T == task[t] IN
  /\ Claimable(T, i, r)
  /\ Len(T.work) <= MaxAttempts
  /\ task' = [task EXCEPT ![t] = Claimed(T, i, r)]
  /\ UNCHANGED <<registry, resumes>>

\* upsertRunner, for RegisterRunner and Heartbeat.
Heartbeat(r, status) ==
  /\ registry' = [registry EXCEPT ![r] = [status |-> status, seen |-> "fresh"]]
  /\ UNCHANGED <<task, resumes>>

\* RenewExecutionAttemptLease for one execution of a heartbeat: no test of
\* the lease itself.
RenewLease(t, i) ==
  /\ task[t].work[i].status = "running"
  /\ task' = [task EXCEPT ![t].work[i].lease = "live"]
  /\ UNCHANGED <<registry, resumes>>

AttemptOutcome(st) == CASE st = "done" -> "succeeded"
                        [] st = "error" -> "failed"
                        [] st = "cancelled" -> "cancelled"
                        [] st = "running" -> "running"

PromptOutcome(st) == CASE st = "done" -> "completed"
                       [] st = "error" -> "failed"
                       [] st = "cancelled" -> "cancelled"

\* How a terminal event leaves the latest session X of a task in this mode.
SessionOutcome(X, mode, r, e) ==
  LET keep == X.saved \cup (e.evidence \cap {"harness"})
      pause(st, kept) == [X EXCEPT !.status = st, !.pinned = r, !.saved = kept]
  IN  IF e.status = "running" THEN [X EXCEPT !.saved = keep]
      ELSE IF /\ "workspace" \in e.evidence /\ e.status = "error" /\ e.recoverable
              /\ mode = "harness_session" /\ "harness" \in e.evidence
      THEN pause("recoverable", keep)
      ELSE IF "workspace" \in e.evidence /\ e.status = "done" /\ mode # "none"
      THEN pause("paused", IF mode = "gvisor_checkpoint"
                           THEN X.saved \cup (e.evidence \ {"workspace"}) ELSE keep)
      ELSE [X EXCEPT !.status = IF e.status = "done" THEN "completed" ELSE "error",
                     !.saved = keep]

\* The row of the reporting attempt, and the prompt result that goes to the
\* latest prompt of the task.
WorkOutcome(T, j, i, e) ==
  LET w == IF j # i THEN T.work[j]
           ELSE [T.work[j] EXCEPT !.status = AttemptOutcome(e.status),
                                  !.lease = IF e.status = "running" THEN "live" ELSE "none"]
  IN  IF e.status = "running" \/ j \notin LatestPrompts(T) THEN w
      ELSE [w EXCEPT !.prompt = PromptOutcome(e.status), !.export = w.export \/ e.export]

Reported(T, i, r, e) ==
  [T EXCEPT !.status = e.status,
            !.cat = IF e.status \in {"error", "cancelled"} THEN "other" ELSE T.cat,
            !.work = [j \in DOMAIN T.work |-> WorkOutcome(T, j, i, e)],
            !.sess = [s \in DOMAIN T.sess |->
                        IF s = LatestSession(T) /\ T.sess[s].status \in Live
                        THEN SessionOutcome(T.sess[s], T.mode, r, e) ELSE T.sess[s]]]

\* Mutant of EventAccepted: the attempt's status is not tested.
EventAcceptedAnyAttempt(T, i, e) ==
  T.work[i].lease = "live" /\ T.status \in {"running", e.status}

\* recordTaskEvent is fenced by runner, claim, status and an unexpired lease.
EventAccepted(T, i, e) ==
  /\ T.work[i].status = "running"
  /\ T.work[i].lease = "live"
  /\ T.status \in {"running", e.status}

RecordTaskEvent(t, i, e) ==
  LET T == task[t] IN
  /\ EventAccepted(T, i, e)
  /\ task' = [task EXCEPT ![t] = Reported(T, i, T.work[i].runner, e)]
  /\ UNCHANGED <<registry, resumes>>
-----------------------------------------------------------------------------
(***************************************************************************)
(* Operator requests.                                                      *)
(***************************************************************************)

CancelAttempts(T, S) ==
  [T EXCEPT !.work = [i \in DOMAIN T.work |->
     IF T.work[i].status \in S THEN [T.work[i] EXCEPT !.status = "cancelled", !.lease = "none"]
                               ELSE T.work[i]]]

Cancelled(T) == [T EXCEPT !.status = "cancelled", !.cat = "other"]

\* Prompts and sessions are left to the reaper.
CancelTask(t) ==
  LET T == task[t] IN
  /\ Attempts(T, Active) # {}
  /\ T.status \in Active
  /\ task' = [task EXCEPT ![t] = Cancelled(CancelAttempts(T, Active))]
  /\ UNCHANGED <<registry, resumes>>

\* Cancels every pending attempt and every pending task.
Cleared(T) ==
  LET U == CancelAttempts(T, {"pending"})
  IN  IF U.status = "pending" THEN Cancelled(U) ELSE U

ClearQueue ==
  /\ task' = [t \in Tasks |-> Cleared(task[t])]
  /\ UNCHANGED <<registry, resumes>>

Extended(T) ==
  [T EXCEPT !.work = [i \in DOMAIN T.work |->
     IF T.work[i].status \in Active THEN [T.work[i] EXCEPT !.overdue = FALSE] ELSE T.work[i]]]

ExtendTaskTimeout(t) ==
  /\ Attempts(task[t], Active) # {}
  /\ task' = [task EXCEPT ![t] = Extended(task[t])]
  /\ UNCHANGED <<registry, resumes>>
-----------------------------------------------------------------------------
(***************************************************************************)
(* The reaper.  Every replica runs these steps every 30 s.                 *)
(***************************************************************************)

FailedTask(T, cat) == [T EXCEPT !.status = "error", !.cat = cat]

\* Mutant of ReapStale: only silent runners are reaped, not wedged ones that
\* keep renewing.
ReapStaleSilent(T) ==
  LET stale == {i \in Attempts(T, {"running"}) : T.work[i].overdue /\ T.work[i].lease = "expired"}
      U == MoveAttempts(T, stale, "timeout")
  IN  IF U.status = "running" /\ stale # {} THEN FailedTask(U, "other") ELSE U

\* store.ReapStaleTasks: the roll-up matches the attempts of this pass by
\* their ended_at.
ReapStale(T) ==
  LET stale == {i \in Attempts(T, {"running"}) : T.work[i].overdue}
      U == MoveAttempts(T, stale, "timeout")
  IN  IF U.status = "running" /\ stale # {} THEN FailedTask(U, "other") ELSE U

ReapStaleTasks ==
  /\ task' = [t \in Tasks |-> ReapStale(task[t])]
  /\ UNCHANGED <<registry, resumes>>

Expired(T) == {i \in Attempts(T, {"running"}) : T.work[i].lease = "expired"}

DeliberatelyDrained(r) == registry[r].status \in {"draining", "stopping"}

\* Mutant of Reclaimable: off by one.
ReclaimableAtLimit(T) ==
  {i \in Expired(T) : /\ AutoRecovery
                      /\ Len(T.work) <= MaxAttempts
                      /\ ~DeliberatelyDrained(T.work[i].runner)}

\* The candidates of the requeue loop that neither `continue' skips.
Reclaimable(T) ==
  {i \in Expired(T) : /\ AutoRecovery
                      /\ Len(T.work) < MaxAttempts
                      /\ ~DeliberatelyDrained(T.work[i].runner)}

\* Mutants of Reclaimed: the attempt is not marked lost; the prompt is not
\* abandoned.
ReclaimedNotLost(T) ==
  WithNewSession(Requeued(MoveSessions(T, {LatestSession(T)} \cap Sessions(T, Live), "abandoned")),
                 T.sess[LatestSession(T)].ttl)

ReclaimedKeepsPrompt(T) ==
  LET U == MoveAttempts(T, Reclaimable(T), "lost")
      V == MoveSessions(U, {LatestSession(T)} \cap Sessions(T, Live), "abandoned")
  IN  WithNewSession(Requeued(V), T.sess[LatestSession(T)].ttl)

\* The attempt is lost, the latest prompt and session are abandoned and a
\* fresh session is queued with the expiry of the old one.
Reclaimed(T) ==
  LET U == MovePrompts(MoveAttempts(T, Reclaimable(T), "lost"),
                       LatestPrompts(T) \cap Prompts(T, {"pending", "running"}), "failed")
      V == MoveSessions(U, {LatestSession(T)} \cap Sessions(T, Live), "abandoned")
  IN  WithNewSession(Requeued(V), T.sess[LatestSession(T)].ttl)

\* FailExpiredExecutionAttempts, or FailAllExpiredExecutionAttempts when
\* auto-recovery is off.
OutOfAttempts(T) == {i \in Expired(T) : AutoRecovery => Len(T.work) >= MaxAttempts}

\* Mutant of FailExpired: the attempts are failed, the task is not.
FailExpiredNoRollup(T) == MoveAttempts(T, OutOfAttempts(T), "timeout")

\* FailExpiredLeases: a running task with ANY attempt that timed out and
\* whose lease has passed is failed.
FailExpired(T) ==
  LET U == MoveAttempts(T, OutOfAttempts(T), "timeout")
  IN  IF U.status = "running" /\ \E i \in Attempts(U, {"timeout"}) : U.work[i].lease = "expired"
      THEN FailedTask(U, "other") ELSE U

ReapLeases(T) == FailExpired(IF Reclaimable(T) # {} THEN Reclaimed(T) ELSE T)

\* One transaction over all tasks.  RequeueTaskAfterExecutionAttemptLost must
\* match a row for every candidate: one whose task is not running (or was
\* requeued for another candidate) rolls back the whole pass.
ReapExpiredLeases ==
  /\ \A t \in Tasks : \A i \in Reclaimable(task[t]) :
       task[t].status = "running" /\ Reclaimable(task[t]) = {i}
  /\ task' = [t \in Tasks |-> ReapLeases(task[t])]
  /\ UNCHANGED <<registry, resumes>>

\* Mutant of SettledPrompts: cancelled tasks are forgotten.
SettledPromptsNotCancelled(T) ==
  IF T.status \in {"done", "error"}
  THEN MovePrompts(T, Prompts(T, {"running"}), PromptOutcome(T.status)) ELSE T

\* The three autocommit statements of reapStaleUserPrompts.
SettledPrompts(T) ==
  IF T.status \in Terminal
  THEN MovePrompts(T, Prompts(T, {"running"}), PromptOutcome(T.status)) ELSE T

ReapStaleUserPrompts ==
  /\ task' = [t \in Tasks |-> SettledPrompts(task[t])]
  /\ UNCHANGED <<registry, resumes>>

RevertedPrompts(T) ==
  IF T.status = "pending" THEN MovePrompts(T, Prompts(T, {"running"}), "pending") ELSE T

RevertOrphanedRunningUserPrompts ==
  /\ task' = [t \in Tasks |-> RevertedPrompts(task[t])]
  /\ UNCHANGED <<registry, resumes>>

SessionsWithPrompt(T, S) == {T.work[i].sess : i \in Prompts(T, S)}

SettledSessions(T) ==
  IF T.status \in Terminal
  THEN MoveSessions(T, Sessions(T, {"running"})
                         \cap SessionsWithPrompt(T, {"completed", "failed", "cancelled"}),
                    IF T.status = "done" THEN "completed" ELSE "error")
  ELSE T

ReapStaleSessionsForTerminalRuns ==
  /\ task' = [t \in Tasks |-> SettledSessions(task[t])]
  /\ UNCHANGED <<registry, resumes>>

\* Mutant of PinnedRunnerGone: a runner that drains, and so claims nothing, is
\* taken for present.
PinnedRunnerSilent(r) == registry[r].seen # "fresh"

\* Not active, or silent for runnerPresenceMaxSec (60 s).
PinnedRunnerGone(r) == registry[r].status # "active" \/ registry[r].seen # "fresh"

OrphanedResumes(T) ==
  {i \in Attempts(T, {"pending"}) : /\ T.sess[T.work[i].sess].status = "resuming"
                                    /\ T.work[i].req # NoRunner
                                    /\ PinnedRunnerGone(T.work[i].req)}

\* The four statements of reapUnavailablePinnedResumeTasks; the second looks
\* at every attempt of the task.
ReapPinned(T) ==
  LET U == MoveAttempts(T, OrphanedResumes(T), "runner_unavailable")
      V == IF U.status = "pending" /\ Attempts(U, {"runner_unavailable"}) # {}
           THEN FailedTask(U, "runner_unavailable") ELSE U
      W == MovePrompts(V, Prompts(V, {"pending"}), "failed")
  IN  IF V.status = "error" /\ V.cat = "runner_unavailable"
      THEN MoveSessions(W, Sessions(W, {"resuming"}) \cap SessionsWithPrompt(W, {"failed"}), "error")
      ELSE V

ReapUnavailablePinnedResumeTasks ==
  /\ task' = [t \in Tasks |-> ReapPinned(task[t])]
  /\ UNCHANGED <<registry, resumes>>

\* A runner with enforced isolation, in one of three statuses, was seen in
\* the last 60 s.
CapableRunner ==
  \E r \in IsolatedRunners : /\ registry[r].status \in {"active", "draining", "stopping"}
                             /\ registry[r].seen = "fresh"

ReapIsolation(T) ==
  LET U == IF T.iso /\ ~CapableRunner
           THEN MoveAttempts(T, Attempts(T, {"pending"}), "isolation_unavailable") ELSE T
  IN  IF U.status = "pending" /\ Attempts(U, {"isolation_unavailable"}) # {}
      THEN FailedTask(U, "other") ELSE U

ReapIsolationUnavailableTasks ==
  /\ task' = [t \in Tasks |-> ReapIsolation(task[t])]
  /\ UNCHANGED <<registry, resumes>>

\* ExpirePausedSessions; S are sessions whose expires_at has passed.
Expirable(T) ==
  {s \in Sessions(T, Paused) :
     /\ T.sess[s].ttl
     /\ s \notin SessionsWithPrompt(T, {"pending", "running"})
     /\ \A i \in Attempts(T, Active) : T.work[i].sess # s}

ReapExpiredSessions(t) ==
  /\ \E S \in SUBSET Expirable(task[t]) :
       task' = [task EXCEPT ![t] = MoveSessions(task[t], S, "expired")]
  /\ UNCHANGED <<registry, resumes>>

\* reapExpiredSessionArtifacts clears the exports of sessions long closed.
ClearedExports(T, S) ==
  [T EXCEPT !.work = [i \in DOMAIN T.work |->
     IF T.work[i].sess \in S THEN [T.work[i] EXCEPT !.export = FALSE] ELSE T.work[i]]]

ReapExpiredSessionArtifacts(t) ==
  /\ \E S \in SUBSET Sessions(task[t], ClosedSession) :
       task' = [task EXCEPT ![t] = ClearedExports(task[t], S)]
  /\ UNCHANGED <<registry, resumes>>
-----------------------------------------------------------------------------
(***************************************************************************)
(* The clock.                                                              *)
(***************************************************************************)

\* lease_expires_at passes (read for running and timed-out attempts only).
LeaseElapses(t, i) ==
  /\ task[t].work[i].status \in {"running", "timeout"}
  /\ task[t].work[i].lease = "live"
  /\ task' = [task EXCEPT ![t].work[i].lease = "expired"]
  /\ UNCHANGED <<registry, resumes>>

\* started_at + timeout_sec + reaperGrace passes.
TimeoutElapses(t, i) ==
  /\ task[t].work[i].status = "running"
  /\ ~task[t].work[i].overdue
  /\ task' = [task EXCEPT ![t].work[i].overdue = TRUE]
  /\ UNCHANGED <<registry, resumes>>

\* A runner has not been heard of for 60 s, then for 120 s.
Silence(r) ==
  /\ registry[r].status # "unknown"
  /\ registry[r].seen # "stale"
  /\ registry' = [registry EXCEPT ![r].seen = IF @ = "fresh" THEN "aging" ELSE "stale"]
  /\ UNCHANGED <<task, resumes>>
-----------------------------------------------------------------------------
Client(t) ==
  \/ SubmitTask(t)
  \/ \E src \in Tasks : RerunTask(src, t)
  \/ RecoverTask(t)
  \/ \E s \in DOMAIN task[t].sess : CheckResume(t, s) \/ \E r \in Runners : ResumeAgentSession(t, s, r)
  \/ CancelTask(t)
  \/ ExtendTaskTimeout(t)

Runner(t, i) ==
  \/ \E r \in Runners : ClaimOnce(r, t, i)
  \/ RenewLease(t, i)
  \/ \E e \in Events : RecordTaskEvent(t, i, e)

Reaper ==
  \/ ReapStaleTasks
  \/ ReapExpiredLeases
  \/ ReapStaleUserPrompts
  \/ RevertOrphanedRunningUserPrompts
  \/ ReapStaleSessionsForTerminalRuns
  \/ ReapUnavailablePinnedResumeTasks
  \/ ReapIsolationUnavailableTasks
  \/ \E t \in Tasks : ReapExpiredSessions(t) \/ ReapExpiredSessionArtifacts(t)

Clock ==
  \/ \E t \in Tasks : \E i \in DOMAIN task[t].work : LeaseElapses(t, i) \/ TimeoutElapses(t, i)
  \/ \E r \in Runners : Silence(r)

Next ==
  \/ \E t \in Tasks : Client(t)
  \/ ClearQueue
  \/ \E t \in Tasks : \E i \in DOMAIN task[t].work : Runner(t, i)
  \/ \E r \in Runners, st \in Statuses : Heartbeat(r, st)
  \/ Reaper
  \/ Clock

Spec == Init /\ [][Next]_vars

(***************************************************************************)
(* taskReaper runs every step each 30 s and recovers a panic of one; time  *)
(* passes.  Nothing is assumed of runners and clients.                     *)
(***************************************************************************)
ReaperFairness ==
  /\ WF_vars(ReapStaleTasks)
  /\ WF_vars(ReapExpiredLeases)
  /\ WF_vars(ReapStaleUserPrompts)
  /\ WF_vars(RevertOrphanedRunningUserPrompts)
  /\ WF_vars(ReapStaleSessionsForTerminalRuns)
  /\ WF_vars(ReapUnavailablePinnedResumeTasks)
  /\ WF_vars(ReapIsolationUnavailableTasks)

ClockFairness ==
  \A t \in Tasks : /\ WF_vars(\E i \in DOMAIN task[t].work : LeaseElapses(t, i))
                   /\ WF_vars(\E i \in DOMAIN task[t].work : TimeoutElapses(t, i))

FairSpec == Spec /\ ReaperFairness /\ ClockFairness
-----------------------------------------------------------------------------
(***************************************************************************)
(* Safety.                                                                 *)
(***************************************************************************)

\* No task is stranded: whatever clients resume, a task that shows `running'
\* has an attempt some runner can finish or some reaper step can reap, and a
\* task that shows `pending' has a queued attempt.  Every roll-up from
\* attempts to the task in recordTaskEvent, CancelTask, ClearQueue and the
\* reaper has to keep the two tables in step.
NoStrandedTask ==
  \A t \in Tasks :
    /\ task[t].status = "running" => Attempts(task[t], {"running"}) # {}
    /\ task[t].status = "pending" => Attempts(task[t], {"pending"}) # {}

\* The prompts of the task follow the order of its sessions: no session was
\* resumed once a newer one existed.  ResumeAgentSession resumes any paused
\* session (ResumeSessionForPR picks it by the PR it is linked to), while claims,
\* events and reclaims find "the" session and prompt of a task as the latest; a
\* task never comes back into order, and what is said of tasks in order below
\* does not hold of the others.
InOrder(T) ==
  \A i, j \in DOMAIN T.work : i <= j => T.work[i].sess <= T.work[j].sess

\* At most one attempt of a task in order is queued or running, it is the last
\* one queued, and the task shows its status: no second execution of it is
\* handed out while one is in flight, and no roll-up statement of the reaper
\* fails it because of an older attempt.
ActiveAttemptMatchesTask ==
  \A t \in Tasks : InOrder(task[t]) =>
    \A i \in Attempts(task[t], Active) :
      /\ i = Len(task[t].work)
      /\ task[t].status = task[t].work[i].status

\* As long as the task is in order, its work in flight belongs to a session that
\* is running or resuming, and to the only such session that a claim, event or
\* reclaim by task id can hit (the latest): no attempt of it runs in a paused,
\* expired or abandoned session.
WorkRunsInLiveSession ==
  \A t \in Tasks : InOrder(task[t]) =>
    \A i \in Attempts(task[t], Active) :
      /\ task[t].work[i].sess = LatestSession(task[t])
      /\ task[t].sess[task[t].work[i].sess].status \in Live

\* What makes the two invariants above inductive.  Rows that may still matter
\* to a claim, an event or a roll-up statement of the reaper are
Unsettled == Active \cup {"timeout", "runner_unavailable", "isolation_unavailable"}

\* and in a task in order only the last row is ever one of them: recovery needs
\* the export, and resume the paused session, that only a report leaves behind,
\* and a report settles its attempt.  So none of its older rows and sessions is
\* hit by the statements that look at every attempt of a task or at its latest
\* session.  Once an older session is resumed, they do hit the wrong rows
\* (StaleLeaseSparesNewerWork is one case).
LastRowGoverns ==
  \A t \in Tasks : InOrder(task[t]) =>
    LET T == task[t] IN
    \A i \in DOMAIN T.work :
      /\ T.work[i].status \in Unsettled =>
           /\ i = Len(T.work)
           /\ ~T.work[i].export
           /\ T.sess[LatestSession(T)].status \notin Paused
      /\ T.work[i].status \in Active =>
           /\ T.status = T.work[i].status
           /\ T.sess[LatestSession(T)].status \in Live
      /\ i = Len(T.work) => T.work[i].sess = LatestSession(T)

\* In a task in order the prompt rows, which claims and terminal reports update
\* as "the latest prompt of the task", carry the outcome of their own attempt.
\* (The report of a resumed older session is written to the newer one's prompt.)
PromptFollowsAttempt ==
  \A t \in Tasks : InOrder(task[t]) =>
    \A i \in DOMAIN task[t].work :
      LET w == task[t].work[i] IN
      /\ w.status = "pending" => w.prompt = "pending"
      /\ w.status = "running" => w.prompt = "running"
      /\ w.status = "succeeded" => w.prompt = "completed"
      /\ w.status \in {"failed", "lost", "runner_unavailable"} => w.prompt = "failed"

\* A resumed session of a task in order executes on the runner that holds its
\* workspace, also when the request was checked before other pauses, resumes and
\* claims.  (The report of a resumed older session pauses the newer one with its
\* own runner, while a request checked earlier still names another.)
ResumeKeepsRunner ==
  \A t \in Tasks : InOrder(task[t]) =>
    \A i \in Attempts(task[t], {"running"}) :
      LET T == task[t] IN
      T.sess[T.work[i].sess].status = "resuming" => T.work[i].runner = T.sess[T.work[i].sess].pinned

(***************************************************************************)
(* Action properties.                                                      *)
(***************************************************************************)

\* What has ended stays ended.  No late event, renewal or reaper pass of another
\* replica changes an attempt that was lost, cancelled, timed out or reported;
\* no resume checked before the expiry reaper revives a closed session; and a
\* finished task is reopened only by recovery or resume, that is together with
\* exactly one new prompt and attempt.
EndedStaysEnded ==
  [][\A t \in Tasks :
       /\ \A i \in DOMAIN task[t].work :
            task[t].work[i].status \notin Active =>
              /\ task'[t].work[i].status = task[t].work[i].status
              /\ task'[t].work[i].runner = task[t].work[i].runner
       /\ \A s \in DOMAIN task[t].sess :
            task[t].sess[s].status \in ClosedSession =>
              task'[t].sess[s].status = task[t].sess[s].status
       /\ task[t].status \in Terminal /\ task'[t].status \notin Terminal =>
            /\ task'[t].status = "pending"
            /\ Len(task'[t].work) = Len(task[t].work) + 1]_vars

\* The runner of the newest execution of a task.
LastRunner(T) == IF Len(T.work) = 0 THEN NoRunner ELSE T.work[Len(T.work)].runner

Queue == INSTANCE TaskQueue WITH
  phase <- [t \in Tasks |-> task[t].status],
  gen <- [t \in Tasks |-> Len(task[t].work)],
  holder <- [t \in Tasks |-> LastRunner(task[t])],
  mixed <- [t \in Tasks |-> ~InOrder(task[t])]

\* The rows and roll-ups implement the queue that clients see: every execution
\* is claimed by one runner and stays with it until it ends, no late claim,
\* report or reaper pass of another replica turns one outcome of a task into
\* another, and neither a claim nor the reaper's recovery passes max_attempts.
\* Of a task that is not in order TaskQueue promises the same, except that a
\* claim may take an older execution.
ImplementsTaskQueue == Queue!Spec

PendingTasks == {t \in Tasks : task[t].status = "pending"}

\* Admission holds across submit, rerun, recover and resume: when the cap is
\* reached, only tasks that were running (the reaper's requeue) join the queue.
AdmissionCapHolds ==
  [][MaxPendingTasks > 0 /\ Cardinality(PendingTasks) >= MaxPendingTasks =>
       \A t \in PendingTasks' \ PendingTasks : task[t].status = "running"]_vars

(***************************************************************************)
(* Liveness, under FairSpec.                                               *)
(***************************************************************************)

\* No zombie `running' rows: unless an operator extends timeouts forever, a
\* running task ends or is requeued, also when its runner is wedged but
\* renews, is drained and gone, or never learned of its claim.
RunningTaskEnds ==
  (<>[][\A t \in Tasks : ~ExtendTaskTimeout(t)]_vars) =>
     \A t \in Tasks : (task[t].status = "running") ~> (task[t].status # "running")

\* A task that is finished for good keeps no prompt in `running': what a
\* cancellation or a timeout left behind is settled by the reaper.
PromptsSettle ==
  \A t \in Tasks : (<>[](task[t].status \in Terminal)) =>
                     <>[](Prompts(task[t], {"running"}) = {})

\* Work that no runner may claim does not wait forever: a resume pinned to a
\* runner that stays away, or isolated work without any capable runner.
UnclaimableWorkFails ==
  \A t \in Tasks :
    /\ \A r \in Runners : (<>[](registry[r] # [status |-> "active", seen |-> "fresh"])) =>
         <>[](\A i \in Attempts(task[t], {"pending"}) :
                task[t].sess[task[t].work[i].sess].status = "resuming" => task[t].work[i].req # r)
    /\ (<>[](\A r \in IsolatedRunners : registry[r].seen # "fresh")) =>
         []<>~(task[t].iso /\ task[t].status = "pending")
=============================================================================
