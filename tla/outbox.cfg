SPECIFICATION Spec
CONSTANTS
  Deliveries = {d1, d2}
  SpawnTask = {d2}
  Replicas = {p1, p2}
  MaxAttempts = 2
  ClaimLimit = 2
  LeaseItems = 1
  MaxResets = 1
  MaxEffects = 2
SYMMETRY ReplicaSymmetry
PROPERTIES ImplementsDurableWork
CHECK_DEADLOCK FALSE
