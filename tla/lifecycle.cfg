SPECIFICATION FairSpec
CONSTANTS
  Tasks = {t1}
  Runners = {r1}
  NoRunner = NoRunner
  IsolatedRunners = {r1}
  MaxAttempts = 3
  AutoRecovery = TRUE
  MaxPendingTasks = 0
  Statuses = {"active", "draining"}
  MaxRows = 3
  CheckpointRows = FALSE
  Submissions <- Resumables
  Events <- ShortEvents
INVARIANTS LastRowGoverns WorkRunsInLiveSession PromptFollowsAttempt NoStrandedTask
PROPERTIES EndedStaysEnded ImplementsTaskQueue RunningTaskEnds PromptsSettle UnclaimableWorkFails
