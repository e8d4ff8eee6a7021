------------------------ MODULE TaskLifecycleClaims ------------------------
(***************************************************************************)
(* A sentence of the documentation about the task lifecycle that the code  *)
(* does not keep.  TLC finds a behaviour of TaskLifecycle that violates it.*)
(***************************************************************************)
EXTENDS MCTaskLifecycle

\* docs/SESSIONS.md:67-70, "so a stale lease cannot mutate ... newer work":
\* while an attempt executes, its task shows running.  FailExpiredLeases
\* matches any timed-out attempt of a running task, so the passing of an old
\* lease fails the task of a newer, healthy execution.
StaleLeaseSparesNewerWork ==
  \A t \in Tasks : Attempts(task[t], {"running"}) # {} => task[t].status = "running"
=============================================================================
