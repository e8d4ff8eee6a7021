SPECIFICATION Spec
CONSTANTS
  Tasks = {t1, t2}
  Runners = {r1, r2}
  NoRunner = NoRunner
  IsolatedRunners = {r1, r2}
  MaxAttempts = 2
  AutoRecovery = TRUE
  MaxPendingTasks = 1
  Statuses = {"active"}
  MaxRows = 2
  CheckpointRows = TRUE
  Submissions <- Plain
  Events <- PauseEvents
INVARIANTS ResumeKeepsRunner
PROPERTIES AdmissionCapHolds
SYMMETRY Symmetry
