----------------------------- MODULE TaskQueue -----------------------------
(***************************************************************************)
(* What the task table promises those who submit and watch tasks: a task   *)
(* is executed by one runner at a time, each execution is handed out once  *)
(* and stays with its runner until it ends, only an execution makes a task *)
(* `done', what is finished is reopened as a new execution, and neither a  *)
(* claim nor a recovery goes past the attempt limit.  A client may mix the *)
(* conversations of a task by reopening an older one; from then on a claim *)
(* may hand out an older execution of that task.  Sessions, prompts,       *)
(* attempts, leases and the reaper are how TaskLifecycle keeps it.         *)
(***************************************************************************)
EXTENDS Naturals

CONSTANTS Tasks, Runners, NoRunner, MaxAttempts, AutoRecovery

VARIABLES
  phase,   \* phase[t]: the status a client sees
  gen,     \* gen[t]: how many executions of t were queued
  holder,  \* holder[t]: the runner the latest of them was handed to
  mixed    \* mixed[t]: an older conversation of t was reopened

vars == <<phase, gen, holder, mixed>>

Finished == {"done", "error", "cancelled"}

Init ==
  /\ phase \in [Tasks -> {"absent", "pending"}]
  /\ gen = [t \in Tasks |-> IF phase[t] = "absent" THEN 0 ELSE 1]
  /\ holder = [t \in Tasks |-> NoRunner]
  /\ mixed = [t \in Tasks |-> FALSE]

Same(t) ==
  phase'[t] = phase[t] /\ gen'[t] = gen[t] /\ holder'[t] = holder[t] /\ mixed'[t] = mixed[t]

\* Submit, rerun, recover or resume.
Enqueue(t) ==
  /\ phase[t] \in {"absent"} \cup Finished
  /\ phase'[t] = "pending" /\ gen'[t] = gen[t] + 1 /\ holder'[t] = NoRunner
  /\ mixed'[t] \in {mixed[t], TRUE}

Claim(t) ==
  /\ phase[t] = "pending" /\ gen[t] <= MaxAttempts
  /\ phase'[t] = "running" /\ gen'[t] = gen[t] /\ mixed'[t] = mixed[t]
  /\ holder'[t] \in Runners \/ (mixed[t] /\ holder'[t] = holder[t])

\* The runner reports, or the execution is cancelled or times out.
Finish(t) ==
  /\ phase[t] = "running"
  /\ phase'[t] \in Finished /\ gen'[t] = gen[t] /\ holder'[t] = holder[t]
  /\ mixed'[t] = mixed[t]

\* What nobody claimed is cancelled or fails.
Withdraw(t) ==
  /\ phase[t] = "pending"
  /\ phase'[t] \in {"error", "cancelled"} /\ gen'[t] = gen[t] /\ holder'[t] = holder[t]
  /\ mixed'[t] = mixed[t]

\* The execution is lost with its runner and a successor queued.
Requeue(t) ==
  /\ phase[t] = "running" /\ AutoRecovery /\ gen[t] < MaxAttempts
  /\ phase'[t] = "pending" /\ gen'[t] = gen[t] + 1 /\ holder'[t] = NoRunner
  /\ mixed'[t] = mixed[t]

\* One step may move several tasks: the passes of the reaper do.
Next ==
  \A t \in Tasks :
    \/ Enqueue(t) \/ Claim(t) \/ Finish(t) \/ Withdraw(t) \/ Requeue(t)
    \/ Same(t)

Spec == Init /\ [][Next]_vars
=============================================================================
