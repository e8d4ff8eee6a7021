SPECIFICATION Spec
CONSTANTS
  e1 = e1
  e2 = e2
  t1 = t1
  Executions = {e1, e2}
  TaskOf <- OneTask
  Resumable = {e1}
  Checkpointed = {e2}
  MaxConcurrent = 1
  MaxRestarts = 1
  NoExecution = NoExecution
INVARIANTS SlotsAccounted RetainedWorkspaceOnDisk RunningAgentHasWorkspace OneSandboxPerTask
PROPERTIES ReaperSparesLiveWork CleanExitAfterCleanup
CHECK_DEADLOCK FALSE
