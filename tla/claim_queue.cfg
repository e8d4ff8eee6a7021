SPECIFICATION FairSpec
CONSTANTS
  r1 = r1
  Rows = {x1}
  Runners = {r1, r2}
  Replicas = {p1, p2}
  Pinned = {}
  PinnedTo <- NoPins
  MaxFaults = 1
INVARIANTS LocalWakeup RemoteWakeup
PROPERTIES EveryRowClaimed
