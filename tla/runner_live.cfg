SPECIFICATION FairSpec
CONSTANTS
  e1 = e1
  e2 = e2
  t1 = t1
  Executions = {e1}
  TaskOf <- One
  Resumable = {e1}
  Checkpointed = {}
  MaxConcurrent = 1
  MaxRestarts = 1
  NoExecution = NoExecution
PROPERTIES ClaimedWorkEnds SignalledRunnerExits LeakedContainersReaped DrainAcknowledged
CHECK_DEADLOCK FALSE
