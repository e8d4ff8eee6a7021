SPECIFICATION Spec
CONSTANTS
  Tasks = {t1}
  Runners = {r1}
  NoRunner = NoRunner
  IsolatedRunners = {r1}
  MaxAttempts = 3
  AutoRecovery = TRUE
  MaxPendingTasks = 0
  Statuses = {"active", "draining", "stopping", "admission_paused"}
  MaxRows = 3
  CheckpointRows = FALSE
  Submissions <- Resumables
  Events <- AllEvents
INVARIANTS StaleLeaseSparesNewerWork
